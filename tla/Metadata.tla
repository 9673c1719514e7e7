------------------------------ MODULE Metadata ------------------------------
(***************************************************************************)
(* The metadata of metadata.rs, a card name and a set of wallet numbers,   *)
(* and its encoding: a header, the name, and the wallets as ranges of      *)
(* numbers in the BER length encoding of tlv.rs.  The blob is kept on the  *)
(* card, where another program may have left any bytes.                    *)
(*                                                                         *)
(* Half, a quarter and the other fractions of a byte are scaled with Base, *)
(* so that small numbers reach every form of the encoding.  A name is the  *)
(* sequence of its bytes; whether they are UTF-8 is left out.              *)
(*                                                                         *)
(* An operator named Bug... is a plausible mistake in the definition that  *)
(* follows it, used to show that a property would notice.                  *)
(***************************************************************************)
EXTENDS Integers, Sequences, FiniteSets

CONSTANTS
  Base,            \* values of a byte: 256
  Half,            \* where the long form of a length begins: 128
  Version1,        \* the header of version 1 without a name: 32
  MaxName,         \* longest name set_card_name takes: 20
  MaxRange,        \* MAX_WALLET_RANGE_COUNT: 100,000
  MaxTotal,        \* MAX_TOTAL_WALLETS: 100,000
  Ids,             \* the wallet numbers callers use
  Names,           \* the names callers use
  Blobs            \* what other programs leave on the card

Byte == 0 .. Base - 1
U32 == Base * Base * Base * Base

ASSUME SizesAssumption ==
  /\ Base \in Nat /\ Half \in Nat /\ Half > 0 /\ Half + 4 < Base
  /\ Version1 \in Nat /\ Version1 > 0 /\ Base % (2 * Version1) = 0
  /\ MaxName \in Nat /\ MaxName < Version1
  /\ MaxRange \in Nat /\ MaxTotal \in Nat /\ MaxTotal <= MaxRange + 1
  /\ MaxTotal <= U32
  /\ Ids \subseteq Nat /\ Names \subseteq Seq(Byte) /\ Blobs \subseteq Seq(Byte)

None == [is |-> "none"]   \* Rust's None, or an Err

VARIABLES
  card_name, wallets,  \* the fields of Metadata
  blob,                \* the bytes on the card
  saved                \* the metadata that was stored there, if it was by us

vars == <<card_name, wallets, blob, saved>>

TypeOK ==
  /\ card_name \in Seq(Byte)
  /\ wallets \in SUBSET Nat
  /\ blob \in Seq(Byte)
  /\ saved \in [name : Seq(Byte), wallets : SUBSET Nat] \union {None}
-----------------------------------------------------------------------------
(***************************************************************************)
(* The BER length encoding.                                                *)
(***************************************************************************)

Low(n) == n % Base        \* n as u8
Shift(n) == n \div Base    \* n >> 8

encode_ber_length(n) ==
  IF n < Half THEN <<n>>
  ELSE IF n < Base THEN <<Half + 1, Low(n)>>
  ELSE IF n < Base * Base THEN <<Half + 2, Low(Shift(n)), Low(n)>>
  ELSE IF n < Base * Base * Base THEN <<Half + 3, Low(Shift(Shift(n))), Low(Shift(n)), Low(n)>>
  ELSE <<Half + 4, Low(Shift(Shift(Shift(n)))), Low(Shift(Shift(n))), Low(Shift(n)), Low(n)>>

\* The number in the i bytes after off, most significant first, for i up to k.
Number(bytes, off, k) ==
  LET number[i \in 0 .. k] == IF i = 0 THEN 0 ELSE number[i - 1] * Base + bytes[off + i]
  IN  number

\* The number at off and where the next one starts, or None.  Four bytes always
\* fit the u32 that read_num converts it to.
decode_ber_length(bytes, off) ==
  LET first == bytes[off]
      k == first - Half
  IN  IF off > Len(bytes) THEN None
      ELSE IF first < Half THEN [value |-> first, next |-> off + 1]
      ELSE IF k \notin 1 .. 4 \/ off + k > Len(bytes) THEN None
      ELSE [value |-> Number(bytes, off, k)[k], next |-> off + k + 1]

BugWriteNum(n) == encode_ber_length(IF n < U32 THEN n ELSE U32 - 1)   \* the nearest one

\* write_num cuts a number to 32 bits.
write_num(n) == encode_ber_length(n % U32)
-----------------------------------------------------------------------------
(***************************************************************************)
(* The encoding of the metadata.                                           *)
(***************************************************************************)
Run(start, count) == [start |-> start, count |-> count]

BugExtend(runs, w) ==   \* a new range starts with the count of the last one
  LET run == runs[Len(runs)]
  IN  IF runs = <<>> THEN <<Run(w, 0)>>
      ELSE IF w = run.start + run.count + 1 THEN [runs EXCEPT ![Len(runs)].count = @ + 1]
      ELSE Append(runs, Run(w, run.count))

\* One more wallet, in ascending order: it extends the last range or starts one.
Extend(runs, w) ==
  LET run == runs[Len(runs)]
  IN  IF runs # <<>> /\ w = run.start + run.count + 1
        THEN [runs EXCEPT ![Len(runs)].count = @ + 1]
        ELSE Append(runs, Run(w, 0))

Least(set) == CHOOSE w \in set : \A v \in set : w <= v

\* A turn of the loop over the wallets, which come in ascending order.
Compress(loop) ==
  IF loop.left = {} THEN loop
  ELSE [left |-> loop.left \ {Least(loop.left)}, runs |-> Extend(loop.runs, Least(loop.left))]

Compressed(set) ==
  LET after[i \in 0 .. Cardinality(set)] ==
        IF i = 0 THEN [left |-> set, runs |-> <<>>] ELSE Compress(after[i - 1])
  IN  after

ranges(set) == Compressed(set)[Cardinality(set)].runs

BugHeader(name) == Version1 + Len(name)   \* added, and not cut to a byte

\* 0x20 | len as u8: the length of a long name reaches into the version's bits.
Header(name) ==
  LET low == Low(Len(name))
  IN  IF (low \div Version1) % 2 = 1 THEN low ELSE low + Version1

\* The buffer after i of the ranges.
Buffer(name, runs) ==
  LET buf[i \in 0 .. Len(runs)] ==
        IF i = 0 THEN <<Header(name)>> \o name
        ELSE buf[i - 1] \o write_num(runs[i].start) \o write_num(runs[i].count)
  IN  buf

to_bytes(name, set) == Buffer(name, ranges(set))[Len(ranges(set))]

BugAllowed(count, total) == count <= MaxRange   \* one range at a time

Allowed(count, total) == count <= MaxRange /\ total <= MaxTotal

\* A turn of the loop over the bytes: the range at read.off is read and, if it
\* is within the limits, its numbers are inserted.
Read(bytes, read) ==
  LET start == decode_ber_length(bytes, read.off)
      count == decode_ber_length(bytes, start.next)
      total == read.total + count.value + 1
  IN  IF start = None THEN None
      ELSE IF count = None THEN None
      ELSE IF ~Allowed(count.value, total) THEN None
      ELSE [off |-> count.next, total |-> total,
            wallets |-> read.wallets \union (start.value .. start.value + count.value)]

Turn(bytes, read) ==
  IF read = None THEN None ELSE IF read.off > Len(bytes) THEN read ELSE Read(bytes, read)

\* The loop takes a byte or more in every turn.
Turns(bytes, from) ==
  LET after[i \in 0 .. Len(bytes)] ==
        IF i = 0 THEN [off |-> from, total |-> 0, wallets |-> {}] ELSE Turn(bytes, after[i - 1])
  IN  after

\* The end of the loop, which starts behind the header and the name.
Decoded(bytes) == Turns(bytes, (bytes[1] % Version1) + 2)[Len(bytes)]

from_data(bytes) ==
  LET name_len == bytes[1] % Version1
      end == Decoded(bytes)
  IN  IF bytes = <<>> THEN None
      ELSE IF bytes[1] \div Version1 # 1 \/ name_len + 1 > Len(bytes) THEN None
      ELSE IF end = None THEN None
      ELSE [name |-> SubSeq(bytes, 2, name_len + 1), wallets |-> end.wallets]
-----------------------------------------------------------------------------
\* new takes any name.
Init == card_name \in Names /\ wallets = {} /\ blob = <<>> /\ saved = None

set_card_name(name) ==
  /\ Len(name) <= MaxName
  /\ card_name' = name
  /\ UNCHANGED <<wallets, blob, saved>>

add_wallet(id) ==
  /\ wallets' = wallets \union {id}
  /\ UNCHANGED <<card_name, blob, saved>>

remove_wallet(id) ==
  /\ wallets' = wallets \ {id}
  /\ UNCHANGED <<card_name, blob, saved>>

\* to_bytes, and STORE DATA.
store ==
  /\ blob' = to_bytes(card_name, wallets)
  /\ saved' = [name |-> card_name, wallets |-> wallets]
  /\ UNCHANGED <<card_name, wallets>>

\* Another program's STORE DATA.
store_other ==
  /\ blob' \in Blobs /\ saved' = None
  /\ UNCHANGED <<card_name, wallets>>

\* GET DATA, and from_data; an Err leaves the caller with what it had.
load ==
  /\ from_data(blob) # None
  /\ card_name' = from_data(blob).name /\ wallets' = from_data(blob).wallets
  /\ UNCHANGED <<blob, saved>>

Next ==
  \/ \E name \in Names : set_card_name(name)
  \/ \E id \in Ids : add_wallet(id) \/ remove_wallet(id)
  \/ store \/ store_other \/ load

Spec == Init /\ [][Next]_vars
-----------------------------------------------------------------------------
(***************************************************************************)
(* Properties.                                                             *)
(***************************************************************************)

\* What was stored comes back: the name and the same set of wallets, for
\* numbers at every boundary of the encoding, if the header has room for the
\* name's length (set_card_name takes no other) and the wallets are 32-bit numbers
\* and no more than from_data accepts.  Of a longer name, which new takes, the
\* part comes back whose length is left in the header, or the blob is refused.
RoundTrip ==
  saved # None =>
    /\ /\ Len(saved.name) < Version1
       /\ saved.wallets \subseteq 0 .. U32 - 1 /\ Cardinality(saved.wallets) <= MaxTotal
       => from_data(blob) = saved
    /\ from_data(blob) # None =>
         from_data(blob).name = SubSeq(saved.name, 1, Len(saved.name) % Version1)

\* Wallet numbers are u64 in memory and cut to 32 bits by to_bytes.  What that
\* costs: the name and every number that fits come back, and every other comes
\* back as a number equal to it modulo 2^32, with nothing besides.
OnlyWideOnesAreLost ==
  saved # None /\ Len(saved.name) < Version1 /\ Cardinality(saved.wallets) <= MaxTotal =>
    /\ from_data(blob) # None
    /\ from_data(blob).name = saved.name
    /\ saved.wallets \cap (0 .. U32 - 1) \subseteq from_data(blob).wallets
    /\ {w % U32 : w \in from_data(blob).wallets} = {w % U32 : w \in saved.wallets}

\* Whatever bytes are on the card, from_data makes no more inserts than the limit
\* (MAX_TOTAL_WALLETS), in one range or in many, those that overlap and leave few
\* wallets included; and the wallets are no more than it counted.
Bounded ==
  from_data(blob) # None =>
    /\ Decoded(blob).total <= MaxTotal
    /\ Cardinality(from_data(blob).wallets) <= Decoded(blob).total
=============================================================================
