------------------------------- MODULE BerTlv -------------------------------
(***************************************************************************)
(* The reader and the writer of tlv.rs, which every parser of a response   *)
(* is built from.                                                          *)
(*                                                                         *)
(* A response is a sequence of items, in the order of their bytes.  The    *)
(* header of a template is an item of its own, followed by what the        *)
(* template holds: enter_constructed reads tag and length and does nothing *)
(* with the length.  A value is reduced to its size and to what it is.     *)
(*                                                                         *)
(* A parser reads one field after the other, some of them only if the next *)
(* tag is theirs: it is written Start(items) & field & field & ...         *)
(***************************************************************************)
EXTENDS Naturals, Sequences, SequencesExt

\* Rust's None and Err, for what is a record otherwise.
Absent == [is |-> "absent"]
Err == [is |-> "err"]

TLV == [BOOL |-> 1, INT |-> 2, ECDSA_TEMPLATE |-> 48, SIGNATURE_TEMPLATE |-> 160,
        KEY_TEMPLATE |-> 161, APPLICATION_STATUS_TEMPLATE |-> 163,
        APPLICATION_INFO_TEMPLATE |-> 164, PUB_KEY |-> 128, SCHNORR_SIGNATURE |-> 136,
        PRIV_KEY |-> 129, CHAIN_CODE |-> 130, LEE_NSK |-> 131, LEE_ASK |-> 132,
        LEE_VSK_D |-> 133, LEE_VSK_Z |-> 134, CERT |-> 138, CAPABILITIES |-> 141,
        KEY_UID |-> 142, UID |-> 143, STATUS |-> 140]

\* A value of so many bytes that are this.
Bytes(size, of) == [size |-> size, of |-> of]

\* An item whose length is malformed, or exceeds the buffer, has the value Err.
Item(tag, value) == [tag |-> tag, value |-> value]
-----------------------------------------------------------------------------
(***************************************************************************)
(* The writer.                                                             *)
(***************************************************************************)
write_primitive(tag, value) == <<Item(tag, value)>>

\* What is written only under a condition.
When(condition, items) == IF condition THEN items ELSE <<>>

write_constructed(tag, content) == <<Item(tag, Bytes(Len(content), "content"))>> \o content
-----------------------------------------------------------------------------
(***************************************************************************)
(* The reader.  A field that is required is read whatever comes next; its  *)
(* value must have one of these sizes.                                     *)
(***************************************************************************)
Required(tag, sizes) == [tag |-> tag, sizes |-> sizes, required |-> TRUE]
Optional(tag, sizes) == [tag |-> tag, sizes |-> sizes, required |-> FALSE]

Sizes(n) == n .. n
AnySize == Nat

next_tag_is(items, tag) == items # <<>> /\ items[1].tag = tag

read_primitive(items, tag) == IF next_tag_is(items, tag) THEN items[1].value ELSE Err

read_integer == Required(TLV.INT, 1 .. 4)

read_boolean == Required(TLV.BOOL, Sizes(1))

enter_constructed(tag) == Required(tag, AnySize)

\* Nothing is read yet.
Start(items) == [unread |-> items, values |-> <<>>]

\* One field more; r is Err, or the values read so far and what is unread.
ReadField(r, field) ==
  IF r = Err THEN Err
  ELSE LET value == read_primitive(r.unread, field.tag)
       IN  IF ~field.required /\ ~next_tag_is(r.unread, field.tag)
             THEN [r EXCEPT !.values = Append(@, Absent)]
           ELSE IF value = Err THEN Err
           ELSE IF value.size \notin field.sizes THEN Err
           ELSE [unread |-> Tail(r.unread), values |-> Append(r.values, value)]

r & field == ReadField(r, field)
=============================================================================
