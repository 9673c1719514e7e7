--------------------------- MODULE BerTlv_proofs ---------------------------
(***************************************************************************)
(* What the reader of tlv.rs makes of what its writer wrote: field by      *)
(* field, for items of any values.                                         *)
(*                                                                         *)
(* Unread is a reader that has read these values and these items lie       *)
(* before it.  The lemmas say what one field takes off the items, so that  *)
(* a parser is followed one field after the other.                         *)
(***************************************************************************)
EXTENDS BerTlv, TLAPS

Unread(items, values) == [unread |-> items, values |-> values]

LEMMA StartIsUnread == \A items : Start(items) = Unread(items, <<>>)
  BY DEF Start, Unread

\* A reader is no error, and neither is a value.
LEMMA NoErr ==
  /\ \A items, values : Unread(items, values) # Err
  /\ \A size, of : Bytes(size, of) # Err /\ Bytes(size, of) # Absent
<1>1. ASSUME NEW items, NEW values PROVE Unread(items, values) # Err
  <2>1. "unread" \in DOMAIN Unread(items, values) /\ "unread" \notin DOMAIN Err
    BY DEF Unread, Err
  <2> QED BY <2>1
<1>2. ASSUME NEW size, NEW of PROVE Bytes(size, of) # Err /\ Bytes(size, of) # Absent
  <2>1. "size" \in DOMAIN Bytes(size, of) /\ "size" \notin DOMAIN Err /\ "size" \notin DOMAIN Absent
    BY DEF Bytes, Err, Absent
  <2> QED BY <2>1
<1> QED BY <1>1, <1>2

LEMMA HeadAndRest ==
  ASSUME NEW S, NEW i \in S, NEW rest \in Seq(S)
  PROVE  /\ <<i>> \o rest # <<>> /\ (<<i>> \o rest)[1] = i
         /\ Tail(<<i>> \o rest) = rest
         /\ <<i>> \o rest \in Seq(S)
  OBVIOUS

\* The next tag is that of the item which lies before the others, or of the first
\* of the others if the item was not written.
LEMMA NextTag ==
  ASSUME NEW S, NEW i \in S, NEW rest \in Seq(S), NEW tag
  PROVE  next_tag_is(<<i>> \o rest, tag) <=> i.tag = tag
  BY HeadAndRest DEF next_tag_is

LEMMA NextTagUnderCondition ==
  ASSUME NEW S, NEW i \in S, NEW rest \in Seq(S), NEW condition, NEW tag
  PROVE  next_tag_is(When(condition, <<i>>) \o rest, tag)
           <=> IF condition THEN i.tag = tag ELSE next_tag_is(rest, tag)
<1>1. CASE condition
  BY <1>1, NextTag DEF When
<1>2. CASE ~condition
  <2>1. <<>> \o rest = rest
    OBVIOUS
  <2> QED BY <1>2, <2>1 DEF When
<1> QED BY <1>1, <1>2

\* A field whose item is next takes its value, if it has a size that fits.
LEMMA FieldIsThere ==
  ASSUME NEW S, NEW tag, NEW size, NEW of, NEW rest \in Seq(S),
         Item(tag, Bytes(size, of)) \in S, NEW values,
         NEW field, field.tag = tag, size \in field.sizes
  PROVE  Unread(<<Item(tag, Bytes(size, of))>> \o rest, values) & field
         = Unread(rest, Append(values, Bytes(size, of)))
<1> DEFINE i == Item(tag, Bytes(size, of))
           r == Unread(<<i>> \o rest, values)
<1>1. next_tag_is(<<i>> \o rest, tag)
  <2>1. i.tag = tag
    BY DEF Item
  <2> QED BY <2>1, NextTag
<1>2. read_primitive(<<i>> \o rest, tag) = Bytes(size, of)
  <2>1. (<<i>> \o rest)[1] = i
    BY HeadAndRest
  <2> QED BY <1>1, <2>1 DEF read_primitive, Item
<1>3. Tail(<<i>> \o rest) = rest
  BY HeadAndRest
<1>4. r # Err /\ Bytes(size, of) # Err
  BY NoErr
<1>5. r.unread = <<i>> \o rest /\ r.values = values
  BY DEF Unread
<1>6. Bytes(size, of).size \in field.sizes
  BY DEF Bytes
<1> HIDE DEF i, r
<1>7. r & field = [unread |-> Tail(r.unread), values |-> Append(r.values, Bytes(size, of))]
  BY <1>1, <1>2, <1>4, <1>5, <1>6 DEF &, ReadField
<1> QED BY <1>3, <1>5, <1>7 DEF Unread, i, r

\* A field that may be missing takes nothing if another one is next.
LEMMA FieldIsNotThere ==
  ASSUME NEW items, NEW tag, NEW sizes, NEW values, ~next_tag_is(items, tag)
  PROVE  Unread(items, values) & Optional(tag, sizes) = Unread(items, Append(values, Absent))
<1>1. Unread(items, values) # Err
  BY NoErr
<1> QED BY <1>1 DEF &, ReadField, Optional, Unread

\* A required field that another one stands in place of is an error, and so is all
\* that follows.
LEMMA FieldIsMissing ==
  ASSUME NEW items, NEW tag, NEW sizes, NEW values, ~next_tag_is(items, tag)
  PROVE  Unread(items, values) & Required(tag, sizes) = Err
<1>1. Unread(items, values) # Err
  BY NoErr
<1> QED BY <1>1 DEF &, ReadField, Required, Unread, read_primitive

LEMMA ErrStays == \A field : Err & field = Err
  BY DEF &, ReadField

\* What was written under a condition is read if it was written, and taken for
\* missing if not: the next item has another tag.
LEMMA FieldUnderCondition ==
  ASSUME NEW S, NEW tag, NEW size, NEW of, NEW rest \in Seq(S), NEW condition \in BOOLEAN,
         Item(tag, Bytes(size, of)) \in S, NEW values, NEW sizes,
         condition => size \in sizes, ~condition => ~next_tag_is(rest, tag)
  PROVE  Unread(When(condition, write_primitive(tag, Bytes(size, of))) \o rest, values)
           & Optional(tag, sizes)
         = Unread(rest, Append(values, IF condition THEN Bytes(size, of) ELSE Absent))
<1> DEFINE i == Item(tag, Bytes(size, of))
<1>1. CASE condition
  <2>1. When(condition, write_primitive(tag, Bytes(size, of))) = <<i>>
    BY <1>1 DEF When, write_primitive
  <2>2. Unread(<<i>> \o rest, values) & Optional(tag, sizes)
          = Unread(rest, Append(values, Bytes(size, of)))
    <3>1. Optional(tag, sizes).tag = tag /\ size \in Optional(tag, sizes).sizes
      BY <1>1 DEF Optional
    <3> QED BY <3>1, FieldIsThere
  <2> HIDE DEF i
  <2> QED BY <1>1, <2>1, <2>2
<1>2. CASE ~condition
  <2>1. <<>> \o rest = rest
    OBVIOUS
  <2> QED BY <1>2, <2>1, FieldIsNotThere DEF When
<1> QED BY <1>1, <1>2

\* The same for a field that is always written.
LEMMA RequiredField ==
  ASSUME NEW S, NEW tag, NEW size, NEW of, NEW rest \in Seq(S),
         Item(tag, Bytes(size, of)) \in S, NEW values, NEW sizes, size \in sizes
  PROVE  Unread(write_primitive(tag, Bytes(size, of)) \o rest, values) & Required(tag, sizes)
         = Unread(rest, Append(values, Bytes(size, of)))
<1>1. Required(tag, sizes).tag = tag /\ size \in Required(tag, sizes).sizes
  BY DEF Required
<1>2. Unread(<<Item(tag, Bytes(size, of))>> \o rest, values) & Required(tag, sizes)
      = Unread(rest, Append(values, Bytes(size, of)))
  BY <1>1, FieldIsThere
<1> QED BY <1>2 DEF write_primitive

LEMMA OneMore ==
  ASSUME NEW V, NEW s \in Seq(V), NEW v \in V
  PROVE  /\ Append(s, v) \in Seq(V)
         /\ Len(Append(s, v)) = Len(s) + 1
         /\ Append(s, v)[Len(s) + 1] = v
         /\ \A i \in 1 .. Len(s) : Append(s, v)[i] = s[i]
  OBVIOUS

\* The values read are the fields' in their order: of up to five fields.
LEMMA ValuesInOrder ==
  ASSUME NEW V, NEW a1 \in V, NEW a2 \in V, NEW a3 \in V, NEW a4 \in V, NEW a5 \in V,
         NEW w1, NEW w2, NEW w3, NEW w4, NEW w5,
         w1 = Append(<<>>, a1), w2 = Append(w1, a2), w3 = Append(w2, a3),
         w4 = Append(w3, a4), w5 = Append(w4, a5)
  PROVE  /\ w5 \in Seq(V) /\ Len(w5) = 5
         /\ w2[1] = a1 /\ w2[2] = a2
         /\ w3[1] = a1 /\ w3[2] = a2 /\ w3[3] = a3
         /\ w4[1] = a1 /\ w4[2] = a2 /\ w4[3] = a3 /\ w4[4] = a4
         /\ w5[1] = a1 /\ w5[2] = a2 /\ w5[3] = a3 /\ w5[4] = a4 /\ w5[5] = a5
<1> DEFINE w0 == <<>>
<1>1. w0 \in Seq(V) /\ Len(w0) = 0 /\ w1 = Append(w0, a1)
  OBVIOUS
<1> HIDE DEF w0
<1>2. /\ w1 \in Seq(V) /\ Len(w1) = Len(w0) + 1 /\ w1[Len(w0) + 1] = a1
      /\ \A i \in 1 .. Len(w0) : w1[i] = w0[i]
  BY <1>1, OneMore
<1>3. /\ w1 \in Seq(V) /\ Len(w1) = 1
      /\ w1[1] = a1
  BY <1>1, <1>2
<1>4. /\ w2 \in Seq(V) /\ Len(w2) = Len(w1) + 1 /\ w2[Len(w1) + 1] = a2
      /\ \A i \in 1 .. Len(w1) : w2[i] = w1[i]
  BY <1>3, OneMore
<1>5. /\ w2 \in Seq(V) /\ Len(w2) = 2
      /\ w2[1] = a1 /\ w2[2] = a2
  BY <1>3, <1>4
<1>6. /\ w3 \in Seq(V) /\ Len(w3) = Len(w2) + 1 /\ w3[Len(w2) + 1] = a3
      /\ \A i \in 1 .. Len(w2) : w3[i] = w2[i]
  BY <1>5, OneMore
<1>7. /\ w3 \in Seq(V) /\ Len(w3) = 3
      /\ w3[1] = a1 /\ w3[2] = a2 /\ w3[3] = a3
  BY <1>5, <1>6
<1>8. /\ w4 \in Seq(V) /\ Len(w4) = Len(w3) + 1 /\ w4[Len(w3) + 1] = a4
      /\ \A i \in 1 .. Len(w3) : w4[i] = w3[i]
  BY <1>7, OneMore
<1>9. /\ w4 \in Seq(V) /\ Len(w4) = 4
      /\ w4[1] = a1 /\ w4[2] = a2 /\ w4[3] = a3 /\ w4[4] = a4
  BY <1>7, <1>8
<1>10. /\ w5 \in Seq(V) /\ Len(w5) = Len(w4) + 1 /\ w5[Len(w4) + 1] = a5
      /\ \A i \in 1 .. Len(w4) : w5[i] = w4[i]
  BY <1>9, OneMore
<1>11. /\ w5 \in Seq(V) /\ Len(w5) = 5
      /\ w5[1] = a1 /\ w5[2] = a2 /\ w5[3] = a3 /\ w5[4] = a4 /\ w5[5] = a5
  BY <1>9, <1>10
<1> QED BY <1>5, <1>7, <1>9, <1>11

\* And of nine.
LEMMA NineValuesInOrder ==
  ASSUME NEW V, NEW a1 \in V, NEW a2 \in V, NEW a3 \in V, NEW a4 \in V, NEW a5 \in V,
         NEW a6 \in V, NEW a7 \in V, NEW a8 \in V, NEW a9 \in V,
         NEW w1, NEW w2, NEW w3, NEW w4, NEW w5, NEW w6, NEW w7, NEW w8, NEW w9,
         w1 = Append(<<>>, a1), w2 = Append(w1, a2), w3 = Append(w2, a3),
         w4 = Append(w3, a4), w5 = Append(w4, a5), w6 = Append(w5, a6),
         w7 = Append(w6, a7), w8 = Append(w7, a8), w9 = Append(w8, a9)
  PROVE  /\ w9[1] = a1 /\ w9[2] = a2 /\ w9[3] = a3 /\ w9[4] = a4 /\ w9[5] = a5
         /\ w9[6] = a6 /\ w9[7] = a7 /\ w9[8] = a8 /\ w9[9] = a9
<1>1. /\ w5 \in Seq(V) /\ Len(w5) = 5
      /\ w5[1] = a1 /\ w5[2] = a2 /\ w5[3] = a3 /\ w5[4] = a4 /\ w5[5] = a5
  BY ValuesInOrder
<1>2. /\ w6 \in Seq(V) /\ Len(w6) = Len(w5) + 1 /\ w6[Len(w5) + 1] = a6
      /\ \A i \in 1 .. Len(w5) : w6[i] = w5[i]
  BY <1>1, OneMore
<1>3. /\ w6 \in Seq(V) /\ Len(w6) = 6
      /\ w6[1] = a1 /\ w6[2] = a2 /\ w6[3] = a3 /\ w6[4] = a4 /\ w6[5] = a5
      /\ w6[6] = a6
  BY <1>1, <1>2
<1>4. /\ w7 \in Seq(V) /\ Len(w7) = Len(w6) + 1 /\ w7[Len(w6) + 1] = a7
      /\ \A i \in 1 .. Len(w6) : w7[i] = w6[i]
  BY <1>3, OneMore
<1>5. /\ w7 \in Seq(V) /\ Len(w7) = 7
      /\ w7[1] = a1 /\ w7[2] = a2 /\ w7[3] = a3 /\ w7[4] = a4 /\ w7[5] = a5
      /\ w7[6] = a6 /\ w7[7] = a7
  BY <1>3, <1>4
<1>6. /\ w8 \in Seq(V) /\ Len(w8) = Len(w7) + 1 /\ w8[Len(w7) + 1] = a8
      /\ \A i \in 1 .. Len(w7) : w8[i] = w7[i]
  BY <1>5, OneMore
<1>7. /\ w8 \in Seq(V) /\ Len(w8) = 8
      /\ w8[1] = a1 /\ w8[2] = a2 /\ w8[3] = a3 /\ w8[4] = a4 /\ w8[5] = a5
      /\ w8[6] = a6 /\ w8[7] = a7 /\ w8[8] = a8
  BY <1>5, <1>6
<1>8. /\ w9 \in Seq(V) /\ Len(w9) = Len(w8) + 1 /\ w9[Len(w8) + 1] = a9
      /\ \A i \in 1 .. Len(w8) : w9[i] = w8[i]
  BY <1>7, OneMore
<1>9. /\ w9 \in Seq(V) /\ Len(w9) = 9
      /\ w9[1] = a1 /\ w9[2] = a2 /\ w9[3] = a3 /\ w9[4] = a4 /\ w9[5] = a5
      /\ w9[6] = a6 /\ w9[7] = a7 /\ w9[8] = a8 /\ w9[9] = a9
  BY <1>7, <1>8
<1> QED BY <1>9

\* Concatenation under a name of its own, so that only what is stated of it is used.
Cat(x, y) == x \o y

LEMMA CatIsASequence ==
  ASSUME NEW S, NEW x \in Seq(S), NEW y \in Seq(S)
  PROVE  Cat(x, y) \in Seq(S)
  BY DEF Cat

LEMMA CatAssociates ==
  ASSUME NEW S, NEW x \in Seq(S), NEW y \in Seq(S), NEW z \in Seq(S)
  PROVE  Cat(Cat(x, y), z) = Cat(x, Cat(y, z))
  BY DEF Cat
=============================================================================
