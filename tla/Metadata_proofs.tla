-------------------------- MODULE Metadata_proofs --------------------------
(***************************************************************************)
(* What Metadata promises, for every size of a byte and every limit: what  *)
(* to_bytes made from_data reads back, and from_data inserts no more than   *)
(* it counts, whatever the bytes.                                          *)
(*                                                                         *)
(* The code's loops are recursive functions over the number of the turn.   *)
(* The first part proves that such a function exists and unfolds, and that *)
(* what holds before the loop and is kept by a turn holds after it, from   *)
(* the well-foundedness of < on the naturals; the other parts use that for  *)
(* the bytes of a number, the ranges of a set, the buffer and its decoding. *)
(***************************************************************************)
EXTENDS Metadata, FiniteSetTheorems, SequenceTheorems, WellFoundedInduction, TLAPS

-----------------------------------------------------------------------------
(***************************************************************************)
(* Loops.                                                                  *)
(***************************************************************************)

LEMMA LessIsWellFounded ==
  \E R : IsWellFoundedOn(R, Nat) /\ \A x, y \in Nat : y < x => <<y, x>> \in R
<1>1. ASSUME NEW x \in Nat, NEW y \in Nat, y < x
      PROVE  <<y, x>> \in OpToRel(<, Nat)
  <2>1. <<y, x>> \in Nat \X Nat
    OBVIOUS
  <2>2. <<y, x>>[1] < <<y, x>>[2]
    BY <1>1
  <2> QED
    BY <2>1, <2>2, Zenon DEF OpToRel
<1> QED
  BY NatLessThanWellFounded, <1>1, Zenon

\* A set of naturals that is not empty has a least element.
LEMMA LeastNatural ==
  ASSUME NEW T, T \subseteq Nat, T # {}
  PROVE  \E x \in T : \A y \in T : x <= y
<1>1. PICK R : IsWellFoundedOn(R, Nat) /\ \A x, y \in Nat : y < x => <<y, x>> \in R
  BY LessIsWellFounded
<1>2. PICK x \in T : \A y \in T : ~ (<<y, x>> \in R)
  BY <1>1, WFMin
<1>3. \A y \in T : ~ (y < x)
  BY <1>1, <1>2
<1> QED
  BY <1>3

\* What is in T at 0 and stays in T up to n is in T at every turn.
LEMMA Induction ==
  ASSUME NEW n \in Nat, NEW T, 0 \in T, \A i \in 1 .. n : i - 1 \in T => i \in T
  PROVE  \A i \in 0 .. n : i \in T
<1> SUFFICES ASSUME (0 .. n) \ T # {} PROVE FALSE
  OBVIOUS
<1>1. PICK x \in (0 .. n) \ T : \A y \in (0 .. n) \ T : x <= y
  <2>1. (0 .. n) \ T \subseteq Nat
    OBVIOUS
  <2> QED
    BY <2>1, LeastNatural
<1>2. x - 1 \in (0 .. n) /\ x \in 1 .. n
  BY <1>1
<1>3. x - 1 \in T
  BY <1>1, <1>2
<1> QED
  BY <1>1, <1>2, <1>3

\* f starts with a and goes on as g says, up to n.
Unfolds(f, n, S, a, g) ==
  /\ f \in [0 .. n -> S]
  /\ f[0] = a
  /\ \A i \in 1 .. n : f[i] = g[<<f[i - 1], i>>]

\* The function that a recursive definition chooses exists.
LEMMA Recursion ==
  ASSUME NEW n \in Nat, NEW S, NEW a \in S, NEW g \in [S \X Nat -> S]
  PROVE  \E f : Unfolds(f, n, S, a, g)
<1> DEFINE Upto(k, f) == f[0] = a /\ \A i \in 1 .. k : f[i] = g[<<f[i - 1], i>>]
<1> DEFINE T == {k \in Nat : \E f \in [0 .. k -> S] : Upto(k, f)}
<1>1. 0 \in T
  <2>1. [i \in 0 .. 0 |-> a] \in [0 .. 0 -> S]
    OBVIOUS
  <2>2. Upto(0, [i \in 0 .. 0 |-> a])
    OBVIOUS
  <2> QED
    BY <2>1, <2>2
<1>2. ASSUME NEW k \in 1 .. n, k - 1 \in T PROVE k \in T
  <2>1. PICK f \in [0 .. k - 1 -> S] : Upto(k - 1, f)
    BY <1>2
  <2> DEFINE h == [i \in 0 .. k |-> IF i = k THEN g[<<f[k - 1], k>>] ELSE f[i]]
  <2>2. g[<<f[k - 1], k>>] \in S
    <3>1. f[k - 1] \in S /\ k \in Nat
      OBVIOUS
    <3> QED
      BY <3>1
  <2>3. h \in [0 .. k -> S]
    BY <2>2
  <2>4. h[0] = a /\ \A i \in 0 .. k - 1 : h[i] = f[i]
    BY <2>1
  <2>5. ASSUME NEW i \in 1 .. k PROVE h[i] = g[<<h[i - 1], i>>]
    <3>1. CASE i = k
      <4>1. h[k] = g[<<f[k - 1], k>>] /\ h[k - 1] = f[k - 1]
        <5>1. k \in 0 .. k /\ k - 1 \in 0 .. k - 1
          OBVIOUS
        <5> QED
          BY <5>1, <2>4
      <4> HIDE DEF h
      <4> QED
        BY <3>1, <4>1
    <3>2. CASE i # k
      <4>1. i \in 1 .. k - 1 /\ i \in 0 .. k - 1 /\ i - 1 \in 0 .. k - 1
        BY <3>2
      <4> QED
        BY <4>1, <2>1, <2>4
    <3> QED
      BY <3>1, <3>2
  <2> HIDE DEF h
  <2>6. Upto(k, h)
    BY <2>4, <2>5
  <2>7. k \in Nat
    OBVIOUS
  <2> QED
    BY <2>3, <2>6, <2>7
<1> HIDE DEF T
<1>3. n \in T
  BY <1>1, <1>2, Induction
<1> QED
  BY <1>3 DEF T, Unfolds

\* A function that is defined by recursion unfolds as soon as its step stays in S.
LEMMA Unfolding ==
  ASSUME NEW n \in Nat, NEW S, NEW a \in S, NEW g \in [S \X Nat -> S], NEW f,
         f = [i \in 0 .. n |-> f[i]], f[0] = a,
         \A i \in 1 .. n : f[i - 1] \in S => f[i] = g[<<f[i - 1], i>>]
  PROVE  Unfolds(f, n, S, a, g)
<1> DEFINE T == {i \in 0 .. n : f[i] \in S}
<1>1. 0 \in T
  OBVIOUS
<1>2. ASSUME NEW i \in 1 .. n, i - 1 \in T PROVE i \in T
  <2>1. <<f[i - 1], i>> \in S \X Nat /\ f[i - 1] \in S
    BY <1>2
  <2>2. f[i] = g[<<f[i - 1], i>>]
    BY <2>1
  <2>3. f[i] \in S
    BY <2>1, <2>2
  <2> QED
    BY <2>3
<1> HIDE DEF T
<1>3. \A i \in 0 .. n : i \in T
  BY <1>1, <1>2, Induction
<1>4. f \in [0 .. n -> S]
  BY <1>3 DEF T
<1>5. \A i \in 1 .. n : f[i - 1] \in S
  <2>1. \A i \in 1 .. n : i - 1 \in 0 .. n
    OBVIOUS
  <2> QED
    BY <1>4, <2>1
<1> QED
  BY <1>4, <1>5 DEF Unfolds

-----------------------------------------------------------------------------
(***************************************************************************)
(* The BER length encoding.                                                *)
(***************************************************************************)
LEMMA Products == \A x, y \in Nat : x * y \in Nat
OBVIOUS

LEMMA NumberDef ==
  ASSUME NEW bytes \in Seq(Byte), NEW off \in Nat, NEW k \in Nat, off + k <= Len(bytes)
  PROVE  /\ Number(bytes, off, k) \in [0 .. k -> Nat]
         /\ Number(bytes, off, k)[0] = 0
         /\ \A i \in 1 .. k : Number(bytes, off, k)[i] = Number(bytes, off, k)[i - 1] * Base + bytes[off + i]
<1> DEFINE N(f) == [i \in 0 .. k |-> IF i = 0 THEN 0 ELSE f[i - 1] * Base + bytes[off + i]]
<1> DEFINE g == [p \in Nat \X Nat |-> IF p[2] \in 1 .. k THEN p[1] * Base + bytes[off + p[2]] ELSE 0]
<1>0. Base \in Nat
  BY SizesAssumption
<1>1. \A i \in 1 .. k : bytes[off + i] \in Nat
  <2>1. \A i \in 1 .. k : off + i \in 1 .. Len(bytes)
    OBVIOUS
  <2> QED
    BY <2>1, <1>0 DEF Byte
<1>2. g \in [Nat \X Nat -> Nat]
  <2>1. ASSUME NEW p \in Nat \X Nat, p[2] \in 1 .. k PROVE p[1] * Base + bytes[off + p[2]] \in Nat
    <3>1. p[1] \in Nat /\ bytes[off + p[2]] \in Nat
      BY <1>1, <2>1
    <3>2. p[1] * Base \in Nat
      BY <3>1, <1>0, Products
    <3> QED
      BY <3>1, <3>2
  <2> QED
    BY <2>1
<1> HIDE DEF g
<1>3. PICK f : Unfolds(f, k, Nat, 0, g)
  <2>1. 0 \in Nat
    OBVIOUS
  <2> QED
    BY <1>2, <2>1, Recursion
<1>4. \A i \in 1 .. k : f[i] = f[i - 1] * Base + bytes[off + i]
  <2>1. ASSUME NEW i \in 1 .. k PROVE g[<<f[i - 1], i>>] = f[i - 1] * Base + bytes[off + i]
    <3>1. f[i - 1] \in Nat
      <4>1. i - 1 \in 0 .. k
        OBVIOUS
      <4> QED
        BY <4>1, <1>3 DEF Unfolds
    <3> QED
      BY <3>1 DEF g
  <2> QED
    BY <1>3, <2>1 DEF Unfolds
<1>5. f = N(f)
  BY <1>3, <1>4 DEF Unfolds
<1>6. Number(bytes, off, k) = N(Number(bytes, off, k))
  <2>1. Number(bytes, off, k) = CHOOSE h : h = N(h)
    BY Zenon DEF Number
  <2> HIDE DEF N
  <2> QED
    BY <1>5, <2>1, Zenon
<1> DEFINE D == Number(bytes, off, k)
<1> HIDE DEF D
<1>7. D = N(D)
  BY <1>6 DEF D
<1>8. D[0] = 0 /\ \A i \in 1 .. k : D[i] = D[i - 1] * Base + bytes[off + i]
  BY <1>7
<1>9. \A i \in 1 .. k : D[i - 1] \in Nat => D[i] = g[<<D[i - 1], i>>]
  BY <1>8 DEF g
<1>10. D = [i \in 0 .. k |-> D[i]]
  BY <1>7
<1>11. Unfolds(D, k, Nat, 0, g)
  <2>1. 0 \in Nat
    OBVIOUS
  <2> QED
    BY <1>2, <1>8, <1>9, <1>10, <2>1, Unfolding
<1> QED
  BY <1>8, <1>11 DEF D, Unfolds

LEMMA ShiftAndLow ==
  ASSUME NEW n \in Nat
  PROVE  Shift(n) \in Nat /\ Low(n) \in Byte /\ n = Shift(n) * Base + Low(n)
<1>1. Base \in Nat /\ Base > 0
  BY SizesAssumption
<1> QED
  BY <1>1 DEF Shift, Low, Byte

LEMMA ShiftIsLess ==
  ASSUME NEW n \in Nat, NEW m \in Nat, n < m * Base
  PROVE  Shift(n) < m
<1>1. Base \in Nat /\ Base > 0
  BY SizesAssumption
<1>2. n = Shift(n) * Base + Low(n) /\ Shift(n) \in Nat /\ Low(n) \in Nat
  BY <1>1, ShiftAndLow DEF Byte
<1>3. ASSUME Shift(n) >= m PROVE FALSE
  <2>1. PICK d \in Nat : Shift(n) = m + d
    <3>1. Shift(n) - m \in Nat /\ Shift(n) = m + (Shift(n) - m)
      BY <1>2, <1>3
    <3> QED
      BY <3>1
  <2>2. Shift(n) * Base = m * Base + d * Base
    BY <1>1, <2>1
  <2>3. m * Base \in Nat /\ d * Base \in Nat
    BY <1>1, Products
  <2> QED
    BY <1>2, <2>2, <2>3
<1> QED
  BY <1>2, <1>3

LEMMA LowIsAll ==
  ASSUME NEW n \in Nat, n < Base
  PROVE  Low(n) = n
BY SizesAssumption DEF Low

\* The code of n is in bytes, from off on.
EncodedAt(bytes, off, n) ==
  /\ off + Len(encode_ber_length(n)) - 1 <= Len(bytes)
  /\ \A i \in 1 .. Len(encode_ber_length(n)) : bytes[off + i - 1] = encode_ber_length(n)[i]

\* The numbers that are shorter than five bytes, one more byte at a time.
LEMMA Powers ==
  /\ Base \in Nat /\ Base * Base \in Nat /\ Base * Base * Base \in Nat /\ U32 \in Nat
  /\ Half \in Nat /\ Half > 0 /\ Half + 4 < Base
<1>1. Base \in Nat /\ Half \in Nat /\ Half > 0 /\ Half + 4 < Base
  BY SizesAssumption
<1>2. Base * Base \in Nat
  BY <1>1, Products
<1>3. Base * Base * Base \in Nat
  BY <1>1, <1>2, Products
<1>4. U32 \in Nat
  BY <1>1, <1>3, Products DEF U32
<1> QED
  BY <1>1, <1>2, <1>3, <1>4

LEMMA Digits ==
  ASSUME NEW n \in Nat
  PROVE  /\ n < Base => n = Low(n)
         /\ n < Base * Base => n = Low(Shift(n)) * Base + Low(n)
         /\ n < Base * Base * Base =>
              n = (Low(Shift(Shift(n))) * Base + Low(Shift(n))) * Base + Low(n)
         /\ n < U32 =>
              n = ((Low(Shift(Shift(Shift(n)))) * Base + Low(Shift(Shift(n)))) * Base
                     + Low(Shift(n))) * Base + Low(n)
<1> DEFINE a == Shift(n)
           b == Shift(Shift(n))
           c == Shift(Shift(Shift(n)))
<1>1. /\ a \in Nat /\ n = a * Base + Low(n)
      /\ b \in Nat /\ a = b * Base + Low(a)
      /\ c \in Nat /\ b = c * Base + Low(b)
  BY ShiftAndLow
<1>2. n < Base => n = Low(n)
  BY LowIsAll
<1>3. n < Base * Base => Low(a) = a
  BY <1>1, ShiftIsLess, LowIsAll, Powers
<1>4. n < Base * Base * Base => Low(b) = b
  BY <1>1, ShiftIsLess, LowIsAll, Powers
<1>5. n < U32 => Low(c) = c
  <2>1. n < U32 => a < Base * Base * Base
    BY <1>1, ShiftIsLess, Powers DEF U32
  <2>2. n < U32 => b < Base * Base
    BY <1>1, <2>1, ShiftIsLess, Powers
  <2>3. n < U32 => c < Base
    BY <1>1, <2>2, ShiftIsLess, Powers
  <2> QED
    BY <1>1, <2>3, LowIsAll
<1> HIDE DEF a, b, c
<1> QED
  BY <1>1, <1>2, <1>3, <1>4, <1>5, Zenon DEF a, b, c

LEMMA CodeType ==
  ASSUME NEW n \in Nat
  PROVE  encode_ber_length(n) \in Seq(Byte) /\ Len(encode_ber_length(n)) \in 1 .. 5
<1>1. /\ Low(n) \in Byte /\ Low(Shift(n)) \in Byte /\ Low(Shift(Shift(n))) \in Byte
      /\ Low(Shift(Shift(Shift(n)))) \in Byte
  BY ShiftAndLow
<1>2. /\ n < Half => n \in Byte
      /\ Half + 1 \in Byte /\ Half + 2 \in Byte /\ Half + 3 \in Byte /\ Half + 4 \in Byte
  BY Powers DEF Byte
<1> HIDE DEF Byte
<1> QED
  BY <1>1, <1>2 DEF encode_ber_length

\* The decoder reads one byte.
LEMMA DecodeShort ==
  ASSUME NEW bytes \in Seq(Byte), NEW off \in Nat \ {0}, off <= Len(bytes), bytes[off] < Half
  PROVE  decode_ber_length(bytes, off) = [value |-> bytes[off], next |-> off + 1]
<1>1. ~(off > Len(bytes))
  BY LenProperties
<1> QED
  BY <1>1, Zenon DEF decode_ber_length

\* The decoder reads the k bytes that follow.
LEMMA DecodeLong ==
  ASSUME NEW bytes \in Seq(Byte), NEW off \in Nat \ {0}, NEW k \in 1 .. 4, off + k <= Len(bytes),
         bytes[off] = Half + k
  PROVE  decode_ber_length(bytes, off) = [value |-> Number(bytes, off, k)[k], next |-> off + k + 1]
<1>1. ~(off > Len(bytes)) /\ ~(bytes[off] < Half) /\ bytes[off] - Half = k
  BY LenProperties, Powers
<1>2. ~(k \notin 1 .. 4 \/ off + k > Len(bytes))
  BY LenProperties
<1> QED
  BY <1>1, <1>2, Zenon DEF decode_ber_length

\* What the numbers of one to four bytes are.
LEMMA NumberUnfolds ==
  ASSUME NEW bytes \in Seq(Byte), NEW off \in Nat, NEW k \in 1 .. 4, off + k <= Len(bytes)
  PROVE  /\ k = 1 => Number(bytes, off, k)[k] = bytes[off + 1]
         /\ k = 2 => Number(bytes, off, k)[k] = bytes[off + 1] * Base + bytes[off + 2]
         /\ k = 3 => Number(bytes, off, k)[k]
                       = (bytes[off + 1] * Base + bytes[off + 2]) * Base + bytes[off + 3]
         /\ k = 4 => Number(bytes, off, k)[k]
                       = ((bytes[off + 1] * Base + bytes[off + 2]) * Base + bytes[off + 3]) * Base
                           + bytes[off + 4]
<1> DEFINE N == Number(bytes, off, k)
<1>1. N[0] = 0 /\ \A i \in 1 .. k : N[i] = N[i - 1] * Base + bytes[off + i]
  <2>1. k \in Nat
    OBVIOUS
  <2> QED
    BY <2>1, NumberDef, Zenon
<1>2. Base \in Nat /\ \A i \in 1 .. k : bytes[off + i] \in Nat
  <2>1. \A i \in 1 .. k : off + i \in 1 .. Len(bytes)
    OBVIOUS
  <2> QED
    BY <2>1, Powers DEF Byte
<1> HIDE DEF N
<1>3. N[1] = bytes[off + 1]
  <2>1. N[1] = N[0] * Base + bytes[off + 1]
    BY <1>1
  <2> QED
    BY <2>1, <1>1, <1>2
<1>4. k >= 2 => N[2] = N[1] * Base + bytes[off + 2]
  BY <1>1
<1>5. k >= 3 => N[3] = N[2] * Base + bytes[off + 3]
  BY <1>1
<1>6. k >= 4 => N[4] = N[3] * Base + bytes[off + 4]
  BY <1>1
<1> QED
  BY <1>3, <1>4, <1>5, <1>6 DEF N

\* decode_ber_length undoes encode_ber_length for every 32-bit number, wherever
\* in a buffer its code stands.
THEOREM DecodeEncoded ==
  ASSUME NEW bytes \in Seq(Byte), NEW off \in Nat \ {0}, NEW n \in Nat, n < U32,
         EncodedAt(bytes, off, n)
  PROVE  decode_ber_length(bytes, off) = [value |-> n, next |-> off + Len(encode_ber_length(n))]
<1> DEFINE e == encode_ber_length(n)
           a == Low(Shift(n))
           b == Low(Shift(Shift(n)))
           c == Low(Shift(Shift(Shift(n))))
<1>1. off + Len(e) - 1 <= Len(bytes) /\ \A i \in 1 .. Len(e) : bytes[off + i - 1] = e[i]
  BY DEF EncodedAt
<1>2. CASE n < Half
  <2>1. e = <<n>>
    BY <1>2, Zenon DEF encode_ber_length
  <2> HIDE DEF e
  <2>2. bytes[off] = n /\ off <= Len(bytes) /\ Len(e) = 1
    BY <1>1, <2>1
  <2> QED
    BY <1>2, <2>2, DecodeShort DEF e
<1>3. CASE ~(n < Half) /\ n < Base
  <2>1. e = <<Half + 1, Low(n)>>
    BY <1>3, Zenon DEF encode_ber_length
  <2> HIDE DEF e
  <2>2. bytes[off] = Half + 1 /\ bytes[off + 1] = Low(n) /\ off + 1 <= Len(bytes) /\ Len(e) = 2
    BY <1>1, <2>1
  <2>3. Number(bytes, off, 1)[1] = n
    BY <1>3, <2>2, NumberUnfolds, Digits
  <2>4. decode_ber_length(bytes, off) = [value |-> n, next |-> off + 1 + 1]
    BY <2>2, <2>3, DecodeLong
  <2> QED
    BY <2>2, <2>4 DEF e
<1>4. CASE ~(n < Half) /\ ~(n < Base) /\ n < Base * Base
  <2>1. e = <<Half + 2, a, Low(n)>>
    BY <1>4, Zenon DEF encode_ber_length
  <2>2. n = a * Base + Low(n)
    BY <1>4, Digits
  <2> HIDE DEF e, a
  <2>3. /\ bytes[off] = Half + 2 /\ bytes[off + 1] = a /\ bytes[off + 2] = Low(n)
        /\ off + 2 <= Len(bytes) /\ Len(e) = 3
    BY <1>1, <2>1
  <2>4. Number(bytes, off, 2)[2] = n
    BY <2>2, <2>3, NumberUnfolds
  <2>5. decode_ber_length(bytes, off) = [value |-> n, next |-> off + 2 + 1]
    BY <2>3, <2>4, DecodeLong
  <2> QED
    BY <2>3, <2>5 DEF e
<1>5. CASE ~(n < Half) /\ ~(n < Base) /\ ~(n < Base * Base) /\ n < Base * Base * Base
  <2>1. e = <<Half + 3, b, a, Low(n)>>
    BY <1>5, Zenon DEF encode_ber_length
  <2>2. n = (b * Base + a) * Base + Low(n)
    BY <1>5, Digits
  <2> HIDE DEF e, a, b
  <2>3. /\ bytes[off] = Half + 3 /\ bytes[off + 1] = b /\ bytes[off + 2] = a /\ bytes[off + 3] = Low(n)
        /\ off + 3 <= Len(bytes) /\ Len(e) = 4
    BY <1>1, <2>1
  <2>4. Number(bytes, off, 3)[3] = n
    BY <2>2, <2>3, NumberUnfolds
  <2>5. decode_ber_length(bytes, off) = [value |-> n, next |-> off + 3 + 1]
    BY <2>3, <2>4, DecodeLong
  <2> QED
    BY <2>3, <2>5 DEF e
<1>6. CASE ~(n < Half) /\ ~(n < Base) /\ ~(n < Base * Base) /\ ~(n < Base * Base * Base)
  <2>1. e = <<Half + 4, c, b, a, Low(n)>>
    BY <1>6, Zenon DEF encode_ber_length
  <2>2. n = ((c * Base + b) * Base + a) * Base + Low(n)
    BY Digits
  <2> HIDE DEF e, a, b, c
  <2>3. /\ bytes[off] = Half + 4 /\ bytes[off + 1] = c /\ bytes[off + 2] = b
        /\ bytes[off + 3] = a /\ bytes[off + 4] = Low(n)
        /\ off + 4 <= Len(bytes) /\ Len(e) = 5
    BY <1>1, <2>1
  <2>4. Number(bytes, off, 4)[4] = n
    BY <2>2, <2>3, NumberUnfolds
  <2>5. decode_ber_length(bytes, off) = [value |-> n, next |-> off + 4 + 1]
    BY <2>3, <2>4, DecodeLong
  <2> QED
    BY <2>3, <2>5 DEF e
<1> QED
  BY <1>2, <1>3, <1>4, <1>5, <1>6

\* What the decoder returns, whatever the bytes.
LEMMA DecodeType ==
  ASSUME NEW bytes \in Seq(Byte), NEW off \in Nat \ {0}
  PROVE  \/ decode_ber_length(bytes, off) = None
         \/ /\ decode_ber_length(bytes, off) \in [value : Nat, next : Nat]
            /\ off < decode_ber_length(bytes, off).next
            /\ decode_ber_length(bytes, off).next <= Len(bytes) + 1
<1>1. CASE off > Len(bytes)
  BY <1>1, Zenon DEF decode_ber_length
<1>2. CASE off <= Len(bytes) /\ bytes[off] < Half
  <2>1. bytes[off] \in Nat
    BY <1>2, Powers DEF Byte
  <2> QED
    BY <1>2, <2>1, DecodeShort
<1>3. CASE off <= Len(bytes) /\ ~(bytes[off] < Half)
  <2> DEFINE k == bytes[off] - Half
  <2>1. bytes[off] \in Nat /\ k \in Nat /\ ~(off > Len(bytes)) /\ bytes[off] = Half + k
    BY <1>3, Powers DEF Byte
  <2>2. CASE k \notin 1 .. 4 \/ off + k > Len(bytes)
    BY <1>3, <2>1, <2>2, Zenon DEF decode_ber_length
  <2> HIDE DEF k
  <2>3. CASE k \in 1 .. 4 /\ off + k <= Len(bytes)
    <3>1. decode_ber_length(bytes, off) = [value |-> Number(bytes, off, k)[k], next |-> off + k + 1]
      BY <2>1, <2>3, DecodeLong
    <3>2. Number(bytes, off, k)[k] \in Nat
      BY <2>1, <2>3, NumberDef
    <3> QED
      BY <2>1, <2>3, <3>1, <3>2
  <2> QED
    BY <2>1, <2>2, <2>3
<1> QED
  BY <1>1, <1>2, <1>3

-----------------------------------------------------------------------------
(***************************************************************************)
(* The decoder, on any bytes.                                              *)
(***************************************************************************)

\* A state of the decoder's loop: the sum of the counts bounds the wallets.
ReadStates ==
  {read \in [off : Nat \ {0}, total : Nat, wallets : SUBSET Nat] :
     /\ IsFiniteSet(read.wallets)
     /\ Cardinality(read.wallets) <= read.total
     /\ read.total <= MaxTotal}

\* Inserting the numbers of a range adds at most as many as the range has.
LEMMA InsertRange ==
  ASSUME NEW set \in SUBSET Nat, IsFiniteSet(set), NEW start \in Nat, NEW count \in Nat
  PROVE  LET union == set \union (start .. start + count)
         IN  /\ union \in SUBSET Nat /\ IsFiniteSet(union)
             /\ Cardinality(set) \in Nat /\ Cardinality(union) \in Nat
             /\ Cardinality(union) <= Cardinality(set) + count + 1
             /\ set \cap (start .. start + count) = {}
                  => Cardinality(union) = Cardinality(set) + count + 1
<1> DEFINE range == start .. start + count
<1>1. range \subseteq Nat
  OBVIOUS
<1>2. IsFiniteSet(range) /\ Cardinality(range) = count + 1
  BY FS_Interval
<1> HIDE DEF range
<1>3. /\ IsFiniteSet(set \union range)
      /\ Cardinality(set \union range) = Cardinality(set) + Cardinality(range) - Cardinality(set \cap range)
  BY <1>2, FS_Union
<1>4. IsFiniteSet(set \cap range)
  BY <1>2, FS_Intersection
<1>5. Cardinality(set) \in Nat /\ Cardinality(set \union range) \in Nat /\ Cardinality(set \cap range) \in Nat
  BY <1>3, <1>4, FS_CardinalityType
<1>6. set \cap range = {} => Cardinality(set \cap range) = 0
  BY FS_EmptySet
<1> QED
  BY <1>1, <1>2, <1>3, <1>5, <1>6 DEF range

LEMMA TurnType ==
  ASSUME NEW bytes \in Seq(Byte), NEW read \in ReadStates \union {None}
  PROVE  Turn(bytes, read) \in ReadStates \union {None}
<1> DEFINE start == decode_ber_length(bytes, read.off)
           count == decode_ber_length(bytes, start.next)
           total == read.total + count.value + 1
           inserted == read.wallets \union (start.value .. start.value + count.value)
<1>1. CASE read = None \/ read.off > Len(bytes)
  BY <1>1, Zenon DEF Turn
<1>2. CASE /\ read # None /\ ~(read.off > Len(bytes))
           /\ start # None /\ count # None /\ Allowed(count.value, total)
  <2>1. Turn(bytes, read) = [off |-> count.next, total |-> total, wallets |-> inserted]
    BY <1>2, Zenon DEF Turn, Read
  <2>2. /\ read.off \in Nat \ {0} /\ read.total \in Nat /\ read.wallets \in SUBSET Nat
        /\ IsFiniteSet(read.wallets) /\ Cardinality(read.wallets) <= read.total
    BY <1>2 DEF ReadStates
  <2>3. start.value \in Nat /\ start.next \in Nat \ {0}
    BY <1>2, <2>2, DecodeType
  <2>4. count.value \in Nat /\ count.next \in Nat \ {0}
    BY <1>2, <2>3, DecodeType
  <2> HIDE DEF start, count
  <2>5. /\ inserted \in SUBSET Nat /\ IsFiniteSet(inserted)
        /\ Cardinality(read.wallets) \in Nat /\ Cardinality(inserted) \in Nat
        /\ Cardinality(inserted) <= Cardinality(read.wallets) + count.value + 1
    BY <2>2, <2>3, <2>4, InsertRange
  <2> HIDE DEF inserted
  <2>6. total \in Nat /\ total <= MaxTotal /\ Cardinality(inserted) <= total
    BY <1>2, <2>2, <2>4, <2>5, SizesAssumption DEF Allowed
  <2> HIDE DEF total
  <2> QED
    BY <2>1, <2>4, <2>5, <2>6 DEF ReadStates
<1>3. CASE /\ read # None /\ ~(read.off > Len(bytes))
           /\ ~(start # None /\ count # None /\ Allowed(count.value, total))
  BY <1>3, Zenon DEF Turn, Read
<1> QED
  BY <1>1, <1>2, <1>3

TurnOf(bytes) == [p \in (ReadStates \union {None}) \X Nat |-> Turn(bytes, p[1])]

NothingRead(from) == [off |-> from, total |-> 0, wallets |-> {}]

LEMMA TurnsDef ==
  ASSUME NEW bytes \in Seq(Byte), NEW from \in Nat \ {0}
  PROVE  /\ Turns(bytes, from) \in [0 .. Len(bytes) -> ReadStates \union {None}]
         /\ Turns(bytes, from)[0] = NothingRead(from)
         /\ \A i \in 1 .. Len(bytes) :
              Turns(bytes, from)[i] = Turn(bytes, Turns(bytes, from)[i - 1])
<1> DEFINE n == Len(bytes)
           S == ReadStates \union {None}
           N(f) == [i \in 0 .. n |-> IF i = 0 THEN NothingRead(from) ELSE Turn(bytes, f[i - 1])]
           g == TurnOf(bytes)
           D == Turns(bytes, from)
<1>1. n \in Nat
  BY LenProperties
<1>2. NothingRead(from) \in S
  <2>1. IsFiniteSet({}) /\ Cardinality({}) = 0 /\ MaxTotal \in Nat
    BY FS_EmptySet, SizesAssumption
  <2>2. /\ NothingRead(from) \in [off : Nat \ {0}, total : Nat, wallets : SUBSET Nat]
        /\ NothingRead(from).wallets = {} /\ NothingRead(from).total = 0
    BY DEF NothingRead
  <2>3. /\ IsFiniteSet(NothingRead(from).wallets) /\ NothingRead(from).total <= MaxTotal
        /\ Cardinality(NothingRead(from).wallets) <= NothingRead(from).total
    BY <2>1, <2>2
  <2> QED
    BY <2>2, <2>3, Zenon DEF ReadStates
<1>3. g \in [S \X Nat -> S]
  <2>1. \A p \in S \X Nat : Turn(bytes, p[1]) \in S
    BY TurnType
  <2> QED
    BY <2>1, Zenon DEF TurnOf
<1>4. \A s \in S, i \in Nat : g[<<s, i>>] = Turn(bytes, s)
  BY DEF TurnOf
<1> HIDE DEF S, g
<1>5. PICK f : Unfolds(f, n, S, NothingRead(from), g)
  BY <1>1, <1>2, <1>3, Recursion
<1>6. f = N(f)
  <2>1. \A i \in 1 .. n : i - 1 \in 0 .. n /\ i \in Nat
    BY <1>1
  <2> HIDE DEF n
  <2>2. \A i \in 1 .. n : f[i] = Turn(bytes, f[i - 1])
    BY <1>4, <1>5, <2>1 DEF Unfolds
  <2> QED
    BY <1>1, <1>5, <2>2 DEF Unfolds
<1>7. D = N(D)
  <2>1. D = CHOOSE h : h = N(h)
    BY Zenon DEF Turns, NothingRead
  <2> HIDE DEF N, D
  <2> QED
    BY <1>6, <2>1, Zenon
<1> HIDE DEF D, n
<1>8. D[0] = NothingRead(from) /\ \A i \in 1 .. n : D[i] = Turn(bytes, D[i - 1])
  BY <1>1, <1>7
<1>9. D = [i \in 0 .. n |-> D[i]]
  BY <1>7
<1>10. Unfolds(D, n, S, NothingRead(from), g)
  <2>1. \A i \in 1 .. n : D[i - 1] \in S => D[i] = g[<<D[i - 1], i>>]
    BY <1>1, <1>4, <1>8
  <2> QED
    BY <1>1, <1>2, <1>3, <1>8, <1>9, <2>1, Unfolding
<1> QED
  BY <1>8, <1>10 DEF Unfolds, D, n, S

\* What from_data returns, whatever the bytes.
LEMMA FromDataType ==
  ASSUME NEW bytes \in Seq(Byte), from_data(bytes) # None
  PROVE  /\ from_data(bytes).name \in Seq(Byte)
         /\ from_data(bytes).name = SubSeq(bytes, 2, (bytes[1] % Version1) + 1)
         /\ (bytes[1] % Version1) + 1 <= Len(bytes)
         /\ from_data(bytes).wallets = Decoded(bytes).wallets
         /\ Decoded(bytes) \in ReadStates
<1> DEFINE len == bytes[1] % Version1
           end == Decoded(bytes)
<1>1. /\ bytes # <<>> /\ ~(bytes[1] \div Version1 # 1 \/ len + 1 > Len(bytes)) /\ end # None
      /\ from_data(bytes) = [name |-> SubSeq(bytes, 2, len + 1), wallets |-> end.wallets]
  BY Zenon DEF from_data
<1>2. Len(bytes) \in Nat \ {0} /\ bytes[1] \in Nat
  <2>1. Len(bytes) \in Nat \ {0}
    BY <1>1, EmptySeq
  <2> QED
    BY <2>1, Powers DEF Byte
<1>3. len \in Nat /\ len < Version1
  BY <1>2, SizesAssumption
<1> HIDE DEF len
<1>4. SubSeq(bytes, 2, len + 1) \in Seq(Byte) /\ len + 1 <= Len(bytes)
  BY <1>1, <1>2, <1>3, SubSeqProperties
<1>5. end \in ReadStates
  <2>1. Turns(bytes, len + 2) \in [0 .. Len(bytes) -> ReadStates \union {None}]
    BY <1>3, TurnsDef
  <2>2. end = Turns(bytes, len + 2)[Len(bytes)]
    BY Zenon DEF Decoded, len
  <2> HIDE DEF end
  <2> QED
    BY <1>1, <1>2, <2>1, <2>2
<1> HIDE DEF end
<1> QED
  BY <1>1, <1>3, <1>4, <1>5 DEF len, end

-----------------------------------------------------------------------------
(***************************************************************************)
(* The encoder: the ranges of a set, and the buffer.                       *)
(***************************************************************************)

\* The numbers of the first i ranges.
Covered(runs, i) == UNION {runs[j].start .. runs[j].start + runs[j].count : j \in 1 .. i}

Ascending(runs) ==
  \A i, j \in 1 .. Len(runs) : i < j => runs[i].start + runs[i].count < runs[j].start

RunType == [start : Nat, count : Nat]

\* A state of the encoder's loop: the ranges cover what is not left, and what is
\* left is above all of them.
LoopStates(set) ==
  {loop \in [left : SUBSET set, runs : Seq(RunType)] :
     /\ Ascending(loop.runs)
     /\ Covered(loop.runs, Len(loop.runs)) = set \ loop.left
     /\ \A j \in 1 .. Len(loop.runs), w \in loop.left :
          loop.runs[j].start + loop.runs[j].count < w}

LEMMA LeastIsLeast ==
  ASSUME NEW set \in SUBSET Nat, set # {}
  PROVE  Least(set) \in set /\ \A w \in set : Least(set) <= w
BY LeastNatural DEF Least

\* One more wallet, above all the ranges: they stay in order and cover it.
LEMMA ExtendType ==
  ASSUME NEW runs \in Seq(RunType), NEW w \in Nat, Ascending(runs),
         \A j \in 1 .. Len(runs) : runs[j].start + runs[j].count < w
  PROVE  /\ Extend(runs, w) \in Seq(RunType)
         /\ Ascending(Extend(runs, w))
         /\ Covered(Extend(runs, w), Len(Extend(runs, w))) = Covered(runs, Len(runs)) \union {w}
         /\ \A j \in 1 .. Len(Extend(runs, w)) :
              Extend(runs, w)[j].start + Extend(runs, w)[j].count <= w
<1> DEFINE n == Len(runs)
           more == Extend(runs, w)
<1>1. n \in Nat /\ \A j \in 1 .. n : runs[j] \in RunType /\ runs[j].start \in Nat /\ runs[j].count \in Nat
  <2>1. n \in Nat
    BY LenProperties
  <2>2. \A j \in 1 .. n : runs[j] \in RunType
    BY ElementOfSeq
  <2> QED
    BY <2>1, <2>2 DEF RunType
<1>2. CASE runs # <<>> /\ w = runs[n].start + runs[n].count + 1
  <2>1. n \in 1 .. n
    BY <1>2, EmptySeq
  <2> DEFINE last == Run(runs[n].start, runs[n].count + 1)
  <2>2. last \in RunType /\ last.start = runs[n].start /\ last.count = runs[n].count + 1
    BY <1>1, <2>1 DEF Run, RunType
  <2>3. more = [runs EXCEPT ![n] = last]
    <3>1. last = [runs[n] EXCEPT !.count = @ + 1]
      BY <1>1, <2>1 DEF Run, RunType
    <3>2. more = [runs EXCEPT ![n].count = @ + 1]
      BY <1>2, Zenon DEF Extend
    <3>3. n \in DOMAIN runs
      BY <2>1, LenProperties
    <3> HIDE DEF last, more
    <3> QED
      BY <3>1, <3>2, <3>3
  <2> HIDE DEF more, last
  <2>4. /\ more \in Seq(RunType) /\ Len(more) = n
        /\ \A j \in 1 .. n : more[j] = IF j = n THEN last ELSE runs[j]
    BY <2>1, <2>2, <2>3, ExceptSeq
  <2>5. more[n].start = runs[n].start /\ more[n].count = runs[n].count + 1 /\ more[n].start + more[n].count = w
    <3>1. more[n] = last
      BY <2>1, <2>4
    <3>2. runs[n].start \in Nat /\ runs[n].count \in Nat
      BY <1>1, <2>1
    <3> QED
      BY <1>2, <2>2, <3>1, <3>2
  <2>6. \A j \in 1 .. n : j # n => more[j] = runs[j]
    BY <2>4
  <2>7. Ascending(more)
    BY <1>1, <2>1, <2>4, <2>5, <2>6 DEF Ascending
  <2>8. Covered(more, n) = Covered(runs, n) \union {w}
    <3>1. more[n].start .. more[n].start + more[n].count
            = (runs[n].start .. runs[n].start + runs[n].count) \union {w}
      BY <1>1, <1>2, <2>1, <2>5
    <3> QED
      BY <2>1, <2>6, <3>1 DEF Covered
  <2>9. \A j \in 1 .. n : more[j].start + more[j].count <= w
    BY <1>1, <2>5, <2>6
  <2> QED
    BY <2>4, <2>7, <2>8, <2>9 DEF more
<1>3. CASE ~(runs # <<>> /\ w = runs[n].start + runs[n].count + 1)
  <2>1. more = Append(runs, Run(w, 0))
    BY <1>3, Zenon DEF Extend
  <2>2. Run(w, 0) \in RunType /\ Run(w, 0).start = w /\ Run(w, 0).count = 0
    BY DEF Run, RunType
  <2> HIDE DEF more
  <2>3. /\ more \in Seq(RunType) /\ Len(more) = n + 1 /\ more[n + 1] = Run(w, 0)
        /\ \A j \in 1 .. n : more[j] = runs[j]
    BY <2>1, <2>2, AppendProperties
  <2>4. Ascending(more)
    <3> SUFFICES ASSUME NEW i \in 1 .. n + 1, NEW j \in 1 .. n + 1, i < j
                 PROVE  more[i].start + more[i].count < more[j].start
      BY <2>3 DEF Ascending
    <3>1. i \in 1 .. n /\ more[i] = runs[i]
      BY <1>1, <2>3
    <3>2. CASE j = n + 1
      <4>1. more[j].start = w
        BY <2>2, <2>3, <3>2
      <4> QED
        BY <3>1, <4>1
    <3>3. CASE j # n + 1
      <4>1. j \in 1 .. n /\ more[j] = runs[j]
        BY <1>1, <2>3, <3>3
      <4> QED
        BY <3>1, <4>1 DEF Ascending
    <3> QED
      BY <3>2, <3>3
  <2>5. Covered(more, n + 1) = Covered(runs, n) \union {w}
    <3>1. more[n + 1].start .. more[n + 1].start + more[n + 1].count = {w}
      BY <2>2, <2>3
    <3>2. 1 .. n + 1 = (1 .. n) \union {n + 1}
      BY <1>1
    <3> QED
      BY <1>1, <2>3, <3>1, <3>2 DEF Covered
  <2>6. \A j \in 1 .. n + 1 : more[j].start + more[j].count <= w
    BY <1>1, <2>2, <2>3
  <2> QED
    BY <2>3, <2>4, <2>5, <2>6 DEF more
<1> QED
  BY <1>2, <1>3

LEMMA CompressType ==
  ASSUME NEW set \in SUBSET Nat, NEW loop \in LoopStates(set)
  PROVE  /\ Compress(loop) \in LoopStates(set)
         /\ \/ loop.left = {}
            \/ \E w \in loop.left : Compress(loop).left = loop.left \ {w}
<1> DEFINE w == Least(loop.left)
           runs == Extend(loop.runs, w)
<1>1. CASE loop.left = {}
  BY <1>1, Zenon DEF Compress
<1>2. CASE loop.left # {}
  <2>1. /\ loop.left \in SUBSET set /\ loop.runs \in Seq(RunType) /\ Ascending(loop.runs)
        /\ Covered(loop.runs, Len(loop.runs)) = set \ loop.left
        /\ \A j \in 1 .. Len(loop.runs), v \in loop.left :
             loop.runs[j].start + loop.runs[j].count < v
    BY DEF LoopStates
  <2>2. w \in loop.left /\ \A v \in loop.left : w <= v
    BY <1>2, <2>1, LeastIsLeast
  <2> DEFINE next == [left |-> loop.left \ {w}, runs |-> runs]
  <2>3. Compress(loop) = next
    BY <1>2, Zenon DEF Compress
  <2> HIDE DEF w
  <2>4. /\ runs \in Seq(RunType) /\ Ascending(runs)
        /\ Covered(runs, Len(runs)) = Covered(loop.runs, Len(loop.runs)) \union {w}
        /\ \A j \in 1 .. Len(runs) : runs[j].start + runs[j].count <= w
    <3>1. w \in Nat /\ \A j \in 1 .. Len(loop.runs) : loop.runs[j].start + loop.runs[j].count < w
      BY <2>1, <2>2
    <3> QED
      BY <2>1, <3>1, ExtendType, Zenon
  <2> HIDE DEF runs
  <2>5. Covered(runs, Len(runs)) = set \ (loop.left \ {w})
    BY <2>1, <2>2, <2>4
  <2>6. \A j \in 1 .. Len(runs), v \in loop.left \ {w} : runs[j].start + runs[j].count < v
    <3>1. \A j \in 1 .. Len(runs) : runs[j].start \in Nat /\ runs[j].count \in Nat
      <4>1. \A j \in 1 .. Len(runs) : runs[j] \in RunType
        BY <2>4, ElementOfSeq
      <4> QED
        BY <4>1 DEF RunType
    <3>2. \A v \in loop.left \ {w} : w \in Nat /\ v \in Nat /\ w < v
      <4>1. loop.left \subseteq Nat
        BY <2>1
      <4>2. \A v \in loop.left : v \in Nat
        BY <4>1
      <4> QED
        BY <4>2, <2>2
    <3> QED
      BY <2>4, <3>1, <3>2
  <2>7. next \in LoopStates(set)
    <3>1. next.left = loop.left \ {w} /\ next.runs = runs
      OBVIOUS
    <3>2. next \in [left : SUBSET set, runs : Seq(RunType)]
      BY <2>1, <2>4
    <3> HIDE DEF next
    <3> QED
      BY <2>4, <2>5, <2>6, <3>1, <3>2, Zenon DEF LoopStates
  <2> QED
    BY <2>2, <2>3, <2>7
<1> QED
  BY <1>1, <1>2

CompressOf(set) == [p \in LoopStates(set) \X Nat |-> Compress(p[1])]

NothingCovered(set) == [left |-> set, runs |-> <<>>]

LEMMA CompressedDef ==
  ASSUME NEW set \in SUBSET Nat, IsFiniteSet(set)
  PROVE  /\ Compressed(set) \in [0 .. Cardinality(set) -> LoopStates(set)]
         /\ Compressed(set)[0] = NothingCovered(set)
         /\ \A i \in 1 .. Cardinality(set) : Compressed(set)[i] = Compress(Compressed(set)[i - 1])
<1> DEFINE n == Cardinality(set)
           S == LoopStates(set)
           N(f) == [i \in 0 .. n |-> IF i = 0 THEN NothingCovered(set) ELSE Compress(f[i - 1])]
           g == CompressOf(set)
           D == Compressed(set)
<1>1. n \in Nat
  BY FS_CardinalityType
<1>2. NothingCovered(set) \in S
  <2> DEFINE first == NothingCovered(set)
  <2>1. first.left = set /\ first.runs = <<>> /\ Len(first.runs) = 0
    BY DEF NothingCovered
  <2>2. first \in [left : SUBSET set, runs : Seq(RunType)]
    BY EmptySeq DEF NothingCovered
  <2> HIDE DEF first
  <2>3. 1 .. Len(first.runs) = {}
    BY <2>1
  <2>4. Covered(first.runs, Len(first.runs)) = set \ first.left
    BY <2>1, <2>3, Zenon DEF Covered
  <2>5. first \in LoopStates(set)
    BY <2>2, <2>3, <2>4, Zenon DEF LoopStates, Ascending
  <2> QED
    BY <2>5 DEF first
<1>3. g \in [S \X Nat -> S]
  <2>1. \A p \in S \X Nat : Compress(p[1]) \in S
    BY CompressType
  <2> QED
    BY <2>1, Zenon DEF CompressOf
<1>4. \A s \in S, i \in Nat : g[<<s, i>>] = Compress(s)
  BY DEF CompressOf
<1> HIDE DEF S, g
<1>5. PICK f : Unfolds(f, n, S, NothingCovered(set), g)
  BY <1>1, <1>2, <1>3, Recursion
<1>6. f = N(f)
  <2>1. \A i \in 1 .. n : i - 1 \in 0 .. n /\ i \in Nat
    BY <1>1
  <2> HIDE DEF n
  <2>2. \A i \in 1 .. n : f[i] = Compress(f[i - 1])
    BY <1>4, <1>5, <2>1 DEF Unfolds
  <2> QED
    BY <1>1, <1>5, <2>2 DEF Unfolds
<1>7. D = N(D)
  <2>1. D = CHOOSE h : h = N(h)
    BY Zenon DEF Compressed, NothingCovered
  <2> HIDE DEF N, D
  <2> QED
    BY <1>6, <2>1, Zenon
<1> HIDE DEF D, n
<1>8. D[0] = NothingCovered(set) /\ \A i \in 1 .. n : D[i] = Compress(D[i - 1])
  BY <1>1, <1>7
<1>9. D = [i \in 0 .. n |-> D[i]]
  BY <1>7
<1>10. Unfolds(D, n, S, NothingCovered(set), g)
  <2>1. \A i \in 1 .. n : D[i - 1] \in S => D[i] = g[<<D[i - 1], i>>]
    BY <1>1, <1>4, <1>8
  <2> QED
    BY <1>1, <1>2, <1>3, <1>8, <1>9, <2>1, Unfolding
<1> QED
  BY <1>8, <1>10 DEF Unfolds, D, n, S

\* The ranges of a finite set are in order, and they cover it.
LEMMA RangesCover ==
  ASSUME NEW set \in SUBSET Nat, IsFiniteSet(set)
  PROVE  /\ ranges(set) \in Seq(RunType)
         /\ Ascending(ranges(set))
         /\ Covered(ranges(set), Len(ranges(set))) = set
<1> DEFINE n == Cardinality(set)
           D == Compressed(set)
           T == {i \in 0 .. n : IsFiniteSet(D[i].left) /\ Cardinality(D[i].left) = n - i}
<1>1. n \in Nat
  BY FS_CardinalityType
<1>2. /\ D \in [0 .. n -> LoopStates(set)] /\ D[0] = NothingCovered(set)
      /\ \A i \in 1 .. n : D[i] = Compress(D[i - 1])
  BY CompressedDef
<1> HIDE DEF D, n
<1>3. 0 \in T
  BY <1>1, <1>2 DEF NothingCovered, n
<1>4. ASSUME NEW i \in 1 .. n, i - 1 \in T PROVE i \in T
  <2>1. IsFiniteSet(D[i - 1].left) /\ Cardinality(D[i - 1].left) = n - i + 1
    BY <1>1, <1>4
  <2>2. D[i - 1] \in LoopStates(set) /\ D[i] = Compress(D[i - 1])
    <3>1. i - 1 \in 0 .. n
      BY <1>1
    <3> QED
      BY <1>2, <3>1
  <2>3. D[i - 1].left # {}
    BY <1>1, <2>1, FS_EmptySet
  <2>4. PICK w \in D[i - 1].left : D[i].left = D[i - 1].left \ {w}
    BY <2>2, <2>3, CompressType
  <2>5. IsFiniteSet(D[i].left) /\ Cardinality(D[i].left) = Cardinality(D[i - 1].left) - 1
    BY <2>1, <2>4, FS_RemoveElement
  <2> QED
    BY <1>1, <2>1, <2>5
<1> HIDE DEF T
<1>5. n \in T
  BY <1>1, <1>3, <1>4, Induction
<1>6. D[n].left = {} /\ D[n] \in LoopStates(set)
  BY <1>1, <1>2, <1>5, FS_EmptySet DEF T
<1>7. D[n].runs \in Seq(RunType) /\ Ascending(D[n].runs) /\ Covered(D[n].runs, Len(D[n].runs)) = set
  BY <1>6 DEF LoopStates
<1> QED
  BY <1>7 DEF ranges, D, n

\* The bytes from the header on.
Headed(name) == <<Header(name)>> \o name

PutRange(buf, run) == buf \o write_num(run.start) \o write_num(run.count)

\* What is left of the start of a range when it is written.
CutStart(run) == run.start % U32

LEMMA U32IsPositive == U32 > 0
<1>1. \A x, y \in Nat : x > 0 /\ y > 0 => x * y > 0
  OBVIOUS
<1>2. Base > 0 /\ Base * Base > 0 /\ Base * Base * Base > 0
  BY <1>1, Powers
<1> QED
  BY <1>1, <1>2, Powers DEF U32

LEMMA WrittenType ==
  ASSUME NEW n \in Nat
  PROVE  /\ write_num(n) \in Seq(Byte) /\ Len(write_num(n)) \in 1 .. 5
         /\ write_num(n) = encode_ber_length(n % U32)
         /\ n % U32 \in Nat /\ n % U32 < U32
         /\ n < U32 => n % U32 = n
<1>1. U32 \in Nat /\ U32 > 0
  BY Powers, U32IsPositive
<1>2. n % U32 \in Nat /\ n % U32 < U32 /\ (n < U32 => n % U32 = n)
  BY <1>1
<1> QED
  BY <1>2, CodeType, Zenon DEF write_num

\* Adding a multiple of u does not change what is left modulo u.
LEMMA MultipleVanishes ==
  ASSUME NEW u \in Nat, u > 0, NEW q \in Nat, NEW m \in Nat
  PROVE  (q * u + m) % u = m % u
<1> DEFINE r == m % u
           d == m \div u
           x == q * u + m
<1>1. r \in 0 .. u - 1 /\ d \in Nat /\ m = d * u + r
  OBVIOUS
<1>2. (q + d) * u = q * u + d * u
  BY <1>1
<1> HIDE DEF r, d
<1>3. x = (q + d) * u + r /\ q + d \in Nat /\ x \in Nat
  BY <1>1, <1>2, Products
<1> HIDE DEF x
<1>4. x % u = r
  BY <1>1, <1>3
<1> QED
  BY <1>4 DEF x, r

LEMMA HeaderBits ==
  ASSUME NEW b \in Nat, NEW r \in Nat, r < b
  PROVE  (b + r) % b = r /\ (b + r) \div b = 1
OBVIOUS

\* A number is its quotient and its remainder.
LEMMA Divided ==
  ASSUME NEW a \in Nat, NEW u \in Nat, u > 0
  PROVE  a \div u \in Nat /\ a % u \in 0 .. u - 1 /\ a = (a \div u) * u + (a % u)
OBVIOUS

LEMMA Monotonic ==
  ASSUME NEW x \in Nat, NEW y \in Nat, NEW v \in Nat, x <= y
  PROVE  x * v <= y * v
OBVIOUS

Multiple(b, v) == \E m \in Nat : b = m * v

\* The remainder modulo a divisor of b is not changed by cutting to b.
LEMMA CutKeepsLow ==
  ASSUME NEW a \in Nat, NEW b \in Nat, NEW v \in Nat, v > 0, b > 0, Multiple(b, v)
  PROVE  (a % b) % v = a % v
<1> PICK m \in Nat : b = m * v
  BY DEF Multiple
<1> DEFINE q == a \div b
           low == a % b
<1>1. q \in Nat /\ low \in Nat /\ a = q * b + low
  BY Divided
<1> HIDE DEF q, low
<1>2. q * b = (q * m) * v /\ q * m \in Nat
  BY <1>1, Products
<1>3. ((q * m) * v + low) % v = low % v
  BY <1>1, <1>2, MultipleVanishes
<1> QED
  BY <1>1, <1>2, <1>3 DEF low

\* Two headers' worth of bytes are a whole number of times in the values of a byte.
LEMMA ByteIsWhole ==
  \E k \in Nat : k >= 1 /\ Base = k * (2 * Version1) /\ Base = (2 * k) * Version1
<1> DEFINE k == Base \div (2 * Version1)
<1>1. Base \in Nat /\ Base > 0 /\ Version1 \in Nat /\ 2 * Version1 \in Nat /\ 2 * Version1 > 0
  BY Powers, SizesAssumption
<1>2. k \in Nat /\ Base = k * (2 * Version1)
  BY <1>1, Divided, SizesAssumption
<1> HIDE DEF k
<1>3. k >= 1
  BY <1>1, <1>2
<1>4. k * (2 * Version1) = (2 * k) * Version1
  BY <1>1, <1>2
<1> QED
  BY <1>2, <1>3, <1>4

\* The header is a byte, whatever the name; its low bits are those of the
\* name's length, and all of it if there is room for it.
LEMMA HeaderByte ==
  ASSUME NEW name \in Seq(Byte)
  PROVE  /\ Header(name) \in Byte
         /\ Header(name) % Version1 = Len(name) % Version1
         /\ Len(name) < Version1 => Header(name) = Version1 + Len(name)
<1> DEFINE v == Version1
           low == Len(name) % Base
           q == low \div v
           r == low % v
<1>1. PICK k \in Nat : k >= 1 /\ Base = (2 * k) * v
  BY ByteIsWhole
<1>2. Len(name) \in Nat /\ Base \in Nat /\ Base > 0 /\ v \in Nat /\ v > 0
  BY LenProperties, Powers, SizesAssumption
<1>3. low \in Nat /\ low < Base
  BY <1>2
<1>4. Header(name) = IF q % 2 = 1 THEN low ELSE low + v
  BY DEF Header, Low
<1>5. low % v = Len(name) % v
  <2>1. 2 * k \in Nat
    BY <1>1
  <2>2. Multiple(Base, v)
    BY <1>1, <2>1, Zenon DEF Multiple
  <2> QED
    BY <1>2, <2>2, CutKeepsLow, Zenon
<1>6. (low + v) % v = low % v
  <2>1. low + v = 1 * v + low
    BY <1>2, <1>3
  <2> HIDE DEF low, v
  <2>2. (1 * v + low) % v = low % v
    BY <1>2, <1>3, MultipleVanishes
  <2> QED
    BY <2>1, <2>2
<1>7. ASSUME q % 2 # 1 PROVE low + v < Base
  <2>1. q \in Nat /\ r \in Nat /\ r < v /\ low = q * v + r
    BY <1>2, <1>3, Divided
  <2> HIDE DEF q, r
  <2>2. q < 2 * k
    <3>1. SUFFICES ASSUME 2 * k <= q PROVE FALSE
      BY <2>1
    <3>2. (2 * k) * v <= q * v
      BY <1>2, <2>1, <3>1, Monotonic
    <3>3. q * v \in Nat
      BY <1>2, <2>1, Products
    <3> QED
      BY <1>1, <1>2, <1>3, <2>1, <3>2, <3>3
  <2>3. q + 2 <= 2 * k
    BY <1>7, <2>1, <2>2
  <2>4. (q + 2) * v <= (2 * k) * v
    BY <1>2, <2>1, <2>3, Monotonic
  <2>5. (q + 2) * v = q * v + v + v /\ q * v \in Nat
    BY <1>2, <2>1, Products
  <2> QED
    BY <1>1, <1>2, <1>3, <2>1, <2>4, <2>5
<1>8. ASSUME Len(name) < v PROVE low = Len(name) /\ q = 0
  <2>1. Len(name) < Base
    <3>1. 1 * v <= (2 * k) * v
      BY <1>1, <1>2, Monotonic
    <3> QED
      BY <1>1, <1>2, <1>8, <3>1
  <2>2. low = Len(name)
    BY <1>2, <2>1
  <2> HIDE DEF low
  <2> QED
    BY <1>2, <1>8, <2>2
<1> HIDE DEF q, low
<1>9. Header(name) \in Byte
  BY <1>2, <1>3, <1>4, <1>7 DEF Byte
<1>10. Header(name) % v = Len(name) % v
  BY <1>4, <1>5, <1>6
<1>11. Len(name) < v => Header(name) = v + Len(name)
  <2>1. 0 % 2 # 1
    OBVIOUS
  <2> QED
    BY <1>2, <1>4, <1>8, <2>1
<1> QED
  BY <1>9, <1>10, <1>11

LEMMA HeaderType ==
  ASSUME NEW name \in Seq(Byte)
  PROVE  /\ Headed(name) \in Seq(Byte) /\ Len(Headed(name)) = Len(name) + 1
         /\ Headed(name)[1] = Header(name)
         /\ \A j \in 1 .. Len(name) : Headed(name)[j + 1] = name[j]
<1> DEFINE h == Header(name)
<1>1. Len(name) \in Nat /\ h \in Byte
  BY LenProperties, HeaderByte
<1> HIDE DEF h, Byte
<1>2. <<h>> \in Seq(Byte) /\ Len(<<h>>) = 1 /\ <<h>>[1] = h
  BY <1>1
<1>3. Headed(name) = <<h>> \o name
  BY Zenon DEF Headed, h
<1>4. /\ <<h>> \o name \in Seq(Byte) /\ Len(<<h>> \o name) = 1 + Len(name)
      /\ \A j \in 1 .. 1 + Len(name) :
           (<<h>> \o name)[j] = IF j <= 1 THEN <<h>>[j] ELSE name[j - 1]
  BY <1>2, ConcatProperties
<1>5. (<<h>> \o name)[1] = h
  BY <1>1, <1>2, <1>4
<1>6. ASSUME NEW j \in 1 .. Len(name) PROVE (<<h>> \o name)[j + 1] = name[j]
  BY <1>1, <1>4
<1> QED
  BY <1>1, <1>3, <1>4, <1>5, <1>6 DEF h

LEMMA PutType ==
  ASSUME NEW buf \in Seq(Byte), NEW run \in RunType
  PROVE  /\ PutRange(buf, run) \in Seq(Byte)
         /\ Len(PutRange(buf, run))
              = Len(buf) + Len(write_num(run.start)) + Len(write_num(run.count))
         /\ \A j \in 1 .. Len(buf) : PutRange(buf, run)[j] = buf[j]
         /\ \A j \in 1 .. Len(write_num(run.start)) :
              PutRange(buf, run)[Len(buf) + j] = write_num(run.start)[j]
         /\ \A j \in 1 .. Len(write_num(run.count)) :
              PutRange(buf, run)[Len(buf) + Len(write_num(run.start)) + j] = write_num(run.count)[j]
<1> DEFINE s == write_num(run.start)
           c == write_num(run.count)
           b == buf \o s
<1>1. run.start \in Nat /\ run.count \in Nat
  BY DEF RunType
<1>2. s \in Seq(Byte) /\ c \in Seq(Byte) /\ Len(s) \in Nat /\ Len(c) \in Nat /\ Len(buf) \in Nat
  BY <1>1, WrittenType, LenProperties
<1> HIDE DEF s, c
<1>3. /\ b \in Seq(Byte) /\ Len(b) = Len(buf) + Len(s)
      /\ \A j \in 1 .. Len(buf) + Len(s) :
           b[j] = IF j <= Len(buf) THEN buf[j] ELSE s[j - Len(buf)]
  BY <1>2, ConcatProperties
<1> HIDE DEF b
<1>4. /\ b \o c \in Seq(Byte) /\ Len(b \o c) = Len(b) + Len(c)
      /\ \A j \in 1 .. Len(b) + Len(c) :
           (b \o c)[j] = IF j <= Len(b) THEN b[j] ELSE c[j - Len(b)]
  BY <1>2, <1>3, ConcatProperties
<1>5. PutRange(buf, run) = b \o c
  BY Zenon DEF PutRange, b, s, c
<1> DEFINE p == PutRange(buf, run)
<1> HIDE DEF p
<1>6. /\ p \in Seq(Byte) /\ Len(p) = Len(buf) + Len(s) + Len(c)
      /\ \A j \in 1 .. Len(buf) + Len(s) + Len(c) :
           p[j] = IF j <= Len(buf) + Len(s) THEN b[j] ELSE c[j - (Len(buf) + Len(s))]
  BY <1>2, <1>3, <1>4, <1>5 DEF p
<1>7. \A j \in 1 .. Len(buf) : p[j] = buf[j]
  BY <1>2, <1>3, <1>6
<1>8. \A j \in 1 .. Len(s) : p[Len(buf) + j] = s[j]
  BY <1>2, <1>3, <1>6
<1>9. ASSUME NEW j \in 1 .. Len(c) PROVE p[Len(buf) + Len(s) + j] = c[j]
  <2> DEFINE m == Len(buf) + Len(s) + j
  <2>1. /\ m \in 1 .. Len(buf) + Len(s) + Len(c) /\ ~(m <= Len(buf) + Len(s))
        /\ m - (Len(buf) + Len(s)) = j
    BY <1>2
  <2> HIDE DEF m
  <2>2. p[m] = c[j]
    BY <1>6, <2>1
  <2> QED
    BY <2>2 DEF m
<1> QED
  BY <1>6, <1>7, <1>8, <1>9 DEF p, s, c

PutOf(runs) == [p \in Seq(Byte) \X Nat |-> IF p[2] \in 1 .. Len(runs) THEN PutRange(p[1], runs[p[2]]) ELSE p[1]]

LEMMA BufferDef ==
  ASSUME NEW name \in Seq(Byte), NEW runs \in Seq(RunType)
  PROVE  /\ Buffer(name, runs) \in [0 .. Len(runs) -> Seq(Byte)]
         /\ Buffer(name, runs)[0] = Headed(name)
         /\ \A i \in 1 .. Len(runs) :
              Buffer(name, runs)[i] = PutRange(Buffer(name, runs)[i - 1], runs[i])
<1> DEFINE n == Len(runs)
           S == Seq(Byte)
           N(f) == [i \in 0 .. n |-> IF i = 0 THEN Headed(name) ELSE PutRange(f[i - 1], runs[i])]
           g == PutOf(runs)
           D == Buffer(name, runs)
<1>1. n \in Nat
  BY LenProperties
<1>2. Headed(name) \in S
  BY HeaderType
<1>3. g \in [S \X Nat -> S]
  <2>1. \A p \in S \X Nat : p[2] \in 1 .. Len(runs) => PutRange(p[1], runs[p[2]]) \in S
    <3>1. \A i \in 1 .. Len(runs) : runs[i] \in RunType
      BY ElementOfSeq
    <3> QED
      BY <3>1, PutType
  <2>2. \A p \in S \X Nat : p[1] \in S
    OBVIOUS
  <2> QED
    BY <2>1, <2>2, Zenon DEF PutOf
<1>4. \A s \in S, i \in 1 .. n : g[<<s, i>>] = PutRange(s, runs[i])
  BY <1>1 DEF PutOf
<1> HIDE DEF S, g
<1>5. PICK f : Unfolds(f, n, S, Headed(name), g)
  BY <1>1, <1>2, <1>3, Recursion
<1>6. f = N(f)
  <2>1. \A i \in 1 .. n : i - 1 \in 0 .. n
    BY <1>1
  <2> HIDE DEF n
  <2>2. \A i \in 1 .. n : f[i] = PutRange(f[i - 1], runs[i])
    BY <1>4, <1>5, <2>1 DEF Unfolds
  <2> QED
    BY <1>1, <1>5, <2>2 DEF Unfolds
<1>7. D = N(D)
  <2>1. D = CHOOSE h : h = N(h)
    BY Zenon DEF Buffer, Headed, PutRange
  <2> HIDE DEF N, D
  <2> QED
    BY <1>6, <2>1, Zenon
<1> HIDE DEF D, n
<1>8. D[0] = Headed(name) /\ \A i \in 1 .. n : D[i] = PutRange(D[i - 1], runs[i])
  BY <1>1, <1>7
<1>9. D = [i \in 0 .. n |-> D[i]]
  BY <1>7
<1>10. Unfolds(D, n, S, Headed(name), g)
  <2>1. \A i \in 1 .. n : D[i - 1] \in S => D[i] = g[<<D[i - 1], i>>]
    BY <1>1, <1>4, <1>8
  <2> QED
    BY <1>1, <1>2, <1>3, <1>8, <1>9, <2>1, Unfolding
<1> QED
  BY <1>8, <1>10 DEF Unfolds, D, n, S

-----------------------------------------------------------------------------
(***************************************************************************)
(* The decoder on what the encoder made, turn by turn.                     *)
(***************************************************************************)
Prefix(a, b) == Len(a) <= Len(b) /\ \A j \in 1 .. Len(a) : b[j] = a[j]

\* The codes of a range that was put after buf are where the decoder looks for them.
LEMMA PutIsEncoded ==
  ASSUME NEW bytes \in Seq(Byte), NEW buf \in Seq(Byte), NEW run \in RunType,
         run.count < U32, Prefix(PutRange(buf, run), bytes)
  PROVE  LET next == Len(buf) + 1 + Len(encode_ber_length(CutStart(run)))
         IN  /\ EncodedAt(bytes, Len(buf) + 1, CutStart(run))
             /\ EncodedAt(bytes, next, run.count)
             /\ Len(buf) + 1 <= Len(bytes)
             /\ next \in Nat \ {0}
             /\ next + Len(encode_ber_length(run.count)) = Len(PutRange(buf, run)) + 1
<1> DEFINE s == encode_ber_length(CutStart(run))
           c == encode_ber_length(run.count)
           p == PutRange(buf, run)
           next == Len(buf) + 1 + Len(s)
<1>1. run.start \in Nat /\ run.count \in Nat
  BY DEF RunType
<1>2. write_num(run.start) = s /\ write_num(run.count) = c /\ Len(s) \in 1 .. 5 /\ Len(c) \in 1 .. 5
  BY <1>1, WrittenType DEF CutStart
<1>3. Len(buf) \in Nat /\ Len(bytes) \in Nat
  BY LenProperties
<1>4. /\ Len(p) = Len(buf) + Len(s) + Len(c)
      /\ \A j \in 1 .. Len(s) : p[Len(buf) + j] = s[j]
      /\ \A j \in 1 .. Len(c) : p[Len(buf) + Len(s) + j] = c[j]
  <2> DEFINE ws == write_num(run.start)
             wc == write_num(run.count)
  <2>1. /\ Len(p) = Len(buf) + Len(ws) + Len(wc)
        /\ \A j \in 1 .. Len(ws) : p[Len(buf) + j] = ws[j]
        /\ \A j \in 1 .. Len(wc) : p[Len(buf) + Len(ws) + j] = wc[j]
    BY PutType
  <2>2. ws = s /\ wc = c
    BY <1>2
  <2> HIDE DEF ws, wc, s, c, p
  <2> QED
    BY <2>1, <2>2
<1>5. Len(p) <= Len(bytes) /\ \A j \in 1 .. Len(p) : bytes[j] = p[j]
  BY DEF Prefix
<1> HIDE DEF s, c, p
<1>6. next \in Nat \ {0} /\ next + Len(c) = Len(p) + 1 /\ Len(buf) + 1 <= Len(bytes)
  <2>1. Len(s) \in Nat /\ Len(s) >= 1 /\ Len(c) \in Nat
    <3>1. \A x \in 1 .. 5 : x \in Nat /\ x >= 1
      OBVIOUS
    <3> QED
      BY <1>2, <3>1, Zenon
  <2>2. Len(p) = Len(buf) + Len(s) + Len(c) /\ Len(p) <= Len(bytes)
    BY <1>4, <1>5
  <2> QED
    BY <1>3, <2>1, <2>2
<1>7. ASSUME NEW j \in 1 .. Len(s) PROVE bytes[Len(buf) + 1 + j - 1] = s[j]
  <2>1. Len(buf) + 1 + j - 1 = Len(buf) + j /\ Len(buf) + j \in 1 .. Len(p)
    BY <1>2, <1>3, <1>4
  <2> QED
    BY <1>4, <1>5, <2>1
<1>8. ASSUME NEW j \in 1 .. Len(c) PROVE bytes[next + j - 1] = c[j]
  <2>1. next + j - 1 = Len(buf) + Len(s) + j /\ Len(buf) + Len(s) + j \in 1 .. Len(p)
    BY <1>2, <1>3, <1>4
  <2> QED
    BY <1>4, <1>5, <2>1
<1>9. Len(buf) + 1 + Len(s) - 1 <= Len(bytes) /\ next + Len(c) - 1 <= Len(bytes)
  BY <1>2, <1>3, <1>4, <1>5
<1>10. EncodedAt(bytes, Len(buf) + 1, CutStart(run))
  BY <1>7, <1>9 DEF EncodedAt, s
<1>11. EncodedAt(bytes, next, run.count)
  BY <1>8, <1>9 DEF EncodedAt, c
<1> QED
  BY <1>6, <1>10, <1>11 DEF s, c, p

ReadState(off, total, set) == [off |-> off, total |-> total, wallets |-> set]

\* A turn of the decoder takes it from the end of buf to the end of what a turn
\* of the encoder made of it.
ReadsRange(bytes, buf, run, total, before) ==
  Turn(bytes, ReadState(Len(buf) + 1, total, before))
    = ReadState(Len(PutRange(buf, run)) + 1, total + run.count + 1,
                before \union (CutStart(run) .. CutStart(run) + run.count))

\* A turn of the decoder reads the range that a turn of the encoder wrote.
LEMMA TurnReadsRange ==
  ASSUME NEW bytes \in Seq(Byte), NEW buf \in Seq(Byte), NEW run \in RunType,
         run.count < U32, Prefix(PutRange(buf, run), bytes),
         NEW total \in Nat, NEW before, Allowed(run.count, total + run.count + 1)
  PROVE  ReadsRange(bytes, buf, run, total, before)
<1> DEFINE off == Len(buf) + 1
           next == off + Len(encode_ber_length(CutStart(run)))
           read == ReadState(off, total, before)
           start == [value |-> CutStart(run), next |-> next]
           count == [value |-> run.count, next |-> Len(PutRange(buf, run)) + 1]
<1>1. run.start \in Nat /\ run.count \in Nat /\ off \in Nat \ {0} /\ Len(bytes) \in Nat
  BY LenProperties DEF RunType
<1>2. CutStart(run) \in Nat /\ CutStart(run) < U32
  BY <1>1, WrittenType, Zenon DEF CutStart
<1>3. /\ EncodedAt(bytes, off, CutStart(run)) /\ EncodedAt(bytes, next, run.count)
      /\ off <= Len(bytes) /\ next \in Nat \ {0}
      /\ next + Len(encode_ber_length(run.count)) = Len(PutRange(buf, run)) + 1
  BY PutIsEncoded
<1> HIDE DEF off, next
<1>4. decode_ber_length(bytes, off) = start
  <2> DEFINE cut == CutStart(run)
  <2>1. cut \in Nat /\ cut < U32 /\ EncodedAt(bytes, off, cut)
    BY <1>3, <1>2
  <2> HIDE DEF cut
  <2>2. decode_ber_length(bytes, off) = [value |-> cut, next |-> off + Len(encode_ber_length(cut))]
    BY <1>1, <2>1, DecodeEncoded
  <2> QED
    BY <2>2 DEF cut, next
<1>5. decode_ber_length(bytes, next) = count
  <2> DEFINE c == run.count
  <2>1. c \in Nat /\ c < U32 /\ EncodedAt(bytes, next, c) /\ next \in Nat \ {0}
    BY <1>1, <1>3
  <2> HIDE DEF c
  <2>2. decode_ber_length(bytes, next) = [value |-> c, next |-> next + Len(encode_ber_length(c))]
    BY <2>1, DecodeEncoded
  <2> QED
    BY <1>3, <2>2 DEF c
<1>6. read.off = off /\ read.total = total /\ read.wallets = before /\ read # None
  BY DEF ReadState, None
<1>7. start.next = next /\ start.value = CutStart(run) /\ start # None
  BY DEF None
<1>8. count.next = Len(PutRange(buf, run)) + 1 /\ count.value = run.count /\ count # None
  BY DEF None
<1> HIDE DEF start, count, read
<1>9. Turn(bytes, read) = Read(bytes, read)
  <2>1. ~(read.off > Len(bytes))
    BY <1>1, <1>3, <1>6
  <2> QED
    BY <1>6, <2>1, Zenon DEF Turn
<1>10. Read(bytes, read) = ReadState(count.next, total + count.value + 1,
                                    before \union (start.value .. start.value + count.value))
  BY <1>4, <1>5, <1>6, <1>7, <1>8, Zenon DEF Read, ReadState
<1> QED
  BY <1>7, <1>8, <1>9, <1>10 DEF ReadsRange, read, off

LEMMA PutGrows ==
  ASSUME NEW buf \in Seq(Byte), NEW run \in RunType
  PROVE  Prefix(buf, PutRange(buf, run)) /\ Len(PutRange(buf, run)) >= Len(buf) + 2
<1> DEFINE p == PutRange(buf, run)
           s == write_num(run.start)
           c == write_num(run.count)
<1>1. Len(p) = Len(buf) + Len(s) + Len(c) /\ \A j \in 1 .. Len(buf) : p[j] = buf[j]
  BY PutType
<1>2. Len(s) \in 1 .. 5 /\ Len(c) \in 1 .. 5 /\ Len(buf) \in Nat
  BY WrittenType, LenProperties DEF RunType
<1> HIDE DEF p, s, c
<1>3. Len(s) \in Nat /\ Len(s) >= 1 /\ Len(c) \in Nat /\ Len(c) >= 1
  <2>1. \A x \in 1 .. 5 : x \in Nat /\ x >= 1
    OBVIOUS
  <2> QED
    BY <1>2, <2>1, Zenon
<1>4. Len(p) >= Len(buf) + 2 /\ Len(buf) <= Len(p)
  BY <1>1, <1>2, <1>3
<1> QED
  BY <1>1, <1>4, Zenon DEF Prefix, p

LEMMA PrefixTransitive ==
  ASSUME NEW a \in Seq(Byte), NEW b \in Seq(Byte), NEW c \in Seq(Byte), Prefix(a, b), Prefix(b, c)
  PROVE  Prefix(a, c)
<1>1. Len(a) \in Nat /\ Len(b) \in Nat /\ Len(c) \in Nat /\ Len(a) <= Len(b) /\ Len(b) <= Len(c)
  BY LenProperties DEF Prefix
<1>2. ASSUME NEW j \in 1 .. Len(a) PROVE c[j] = a[j]
  <2>1. j \in 1 .. Len(b)
    BY <1>1
  <2> QED
    BY <2>1 DEF Prefix
<1> QED
  BY <1>1, <1>2 DEF Prefix

\* What the encoder has written it keeps: every buffer is a prefix of the last
\* one, and every range makes it longer.
LEMMA BufferGrows ==
  ASSUME NEW name \in Seq(Byte), NEW runs \in Seq(RunType), NEW i \in 0 .. Len(runs)
  PROVE  /\ Prefix(Buffer(name, runs)[i], Buffer(name, runs)[Len(runs)])
         /\ i + 1 <= Len(Buffer(name, runs)[i])
<1> DEFINE n == Len(runs)
           D == Buffer(name, runs)
           T == {k \in 0 .. n : /\ k + 1 <= Len(D[k])
                                /\ \A j \in 0 .. k : Prefix(D[j], D[k])}
<1>1. n \in Nat
  BY LenProperties
<1>2. /\ D \in [0 .. n -> Seq(Byte)] /\ D[0] = Headed(name)
      /\ \A k \in 1 .. n : D[k] = PutRange(D[k - 1], runs[k])
  BY BufferDef
<1> HIDE DEF n, D
<1>3. 0 \in T
  <2>1. Len(D[0]) = Len(name) + 1 /\ Len(name) \in Nat
    BY <1>2, HeaderType, LenProperties
  <2>2. Prefix(D[0], D[0])
    BY <2>1 DEF Prefix
  <2>3. \A j \in 0 .. 0 : j = 0
    OBVIOUS
  <2> QED
    BY <1>1, <2>1, <2>2, <2>3
<1>4. ASSUME NEW k \in 1 .. n, k - 1 \in T PROVE k \in T
  <2>1. k - 1 \in 0 .. n /\ k \in 0 .. n
    BY <1>1
  <2>2. D[k - 1] \in Seq(Byte) /\ D[k] \in Seq(Byte) /\ D[k] = PutRange(D[k - 1], runs[k])
    BY <1>2, <2>1
  <2>3. runs[k] \in RunType
    BY ElementOfSeq DEF n
  <2>4. Prefix(D[k - 1], D[k]) /\ Len(D[k]) >= Len(D[k - 1]) + 2
    BY <2>2, <2>3, PutGrows
  <2>5. Len(D[k - 1]) \in Nat /\ Len(D[k]) \in Nat
    BY <2>2, LenProperties
  <2>6. k <= Len(D[k - 1])
    BY <1>4
  <2>8. Prefix(D[k - 1], D[k])
    BY <2>4
  <2>9. k + 1 <= Len(D[k])
    BY <2>4, <2>5, <2>6
  <2>10. ASSUME NEW j \in 0 .. k PROVE Prefix(D[j], D[k])
    <3>1. CASE j = k
      <4>1. Len(D[k]) \in Nat
        BY <2>2, LenProperties
      <4> QED
        BY <3>1, <4>1 DEF Prefix
    <3>2. CASE j # k
      <4>1. j \in 0 .. k - 1 /\ j \in 0 .. n
        BY <1>1, <3>2
      <4>2. D[j] \in Seq(Byte) /\ Prefix(D[j], D[k - 1])
        BY <1>2, <1>4, <4>1
      <4> QED
        BY <2>2, <2>8, <4>2, PrefixTransitive
    <3> QED
      BY <3>1, <3>2
  <2> QED
    BY <2>1, <2>9, <2>10
<1> HIDE DEF T
<1>5. \A k \in 0 .. n : k \in T
  BY <1>1, <1>3, <1>4, Induction
<1>6. n \in T /\ i \in T
  BY <1>1, <1>5 DEF n
<1> QED
  BY <1>6 DEF T, D, n

\* The range that follows the first i - 1 is apart from what they cover.
LEMMA NextIsApart ==
  ASSUME NEW runs \in Seq(RunType), Ascending(runs), NEW i \in 1 .. Len(runs)
  PROVE  /\ Covered(runs, i) = Covered(runs, i - 1) \union (runs[i].start .. runs[i].start + runs[i].count)
         /\ Covered(runs, i - 1) \cap (runs[i].start .. runs[i].start + runs[i].count) = {}
         /\ Covered(runs, i) \subseteq Covered(runs, Len(runs))
<1> DEFINE R(j) == runs[j].start .. runs[j].start + runs[j].count
<1>1. Len(runs) \in Nat /\ \A j \in 1 .. Len(runs) : runs[j].start \in Nat /\ runs[j].count \in Nat
  <2>1. \A j \in 1 .. Len(runs) : runs[j] \in RunType
    BY ElementOfSeq
  <2> QED
    BY <2>1, LenProperties DEF RunType
<1>2. 1 .. i = (1 .. i - 1) \union {i}
  OBVIOUS
<1>3. 1 .. i \subseteq 1 .. Len(runs)
  BY <1>1
<1>4. Covered(runs, i) = Covered(runs, i - 1) \union R(i)
  BY <1>2 DEF Covered
<1>5. \A j \in 1 .. i - 1 : R(j) \cap R(i) = {}
  <2>1. \A j \in 1 .. i - 1 : /\ runs[j].start + runs[j].count < runs[i].start
                              /\ runs[j].start \in Nat /\ runs[j].count \in Nat
    BY <1>1 DEF Ascending
  <2> QED
    BY <1>1, <2>1
<1>6. Covered(runs, i) \subseteq Covered(runs, Len(runs))
  BY <1>3 DEF Covered
<1> HIDE DEF R
<1>7. Covered(runs, i - 1) = UNION {R(j) : j \in 1 .. i - 1}
  BY DEF Covered, R
<1>8. Covered(runs, i - 1) \cap R(i) = {}
  BY <1>5, <1>7
<1> QED
  BY <1>4, <1>6, <1>8 DEF R

\* The numbers of the first i ranges as they are written.
CutCovered(runs, i) ==
  UNION {CutStart(runs[j]) .. CutStart(runs[j]) + runs[j].count : j \in 1 .. i}

\* The state of the decoder's loop that fits the i-th buffer of the encoder.  It
\* counts what the encoder was given and holds what the encoder wrote.
Fitting(name, runs, i) ==
  ReadState(Len(Buffer(name, runs)[i]) + 1, Cardinality(Covered(runs, i)), CutCovered(runs, i))

\* The sets of wallets that are not too large for the decoder.
Fits(set) == set \in SUBSET Nat /\ IsFiniteSet(set) /\ Cardinality(set) <= MaxTotal

LEMMA TurnFollows ==
  ASSUME NEW name \in Seq(Byte), NEW set, Fits(set),
         NEW i \in 1 .. Len(ranges(set))
  PROVE  Turn(to_bytes(name, set), Fitting(name, ranges(set), i - 1)) = Fitting(name, ranges(set), i)
<1> DEFINE runs == ranges(set)
           n == Len(runs)
           D == Buffer(name, runs)
           run == runs[i]
<1>1. /\ runs \in Seq(RunType) /\ Ascending(runs) /\ Covered(runs, n) = set
      /\ set \in SUBSET Nat /\ IsFiniteSet(set) /\ Cardinality(set) <= MaxTotal
  BY RangesCover DEF Fits
<1>2. n \in Nat /\ run \in RunType /\ run.start \in Nat /\ run.count \in Nat
  <2>1. n \in Nat /\ run \in RunType
    BY <1>1, LenProperties, ElementOfSeq
  <2> QED
    BY <2>1 DEF RunType
<1>3. /\ D[n] \in Seq(Byte) /\ D[i - 1] \in Seq(Byte) /\ D[i] \in Seq(Byte)
      /\ D[i] = PutRange(D[i - 1], run) /\ Prefix(D[i], D[n])
  <2>1. i \in 0 .. n /\ i - 1 \in 0 .. n /\ n \in 0 .. n
    BY <1>2
  <2>2. D \in [0 .. n -> Seq(Byte)] /\ D[i] = PutRange(D[i - 1], run)
    BY <1>1, BufferDef
  <2>3. Prefix(D[i], D[n])
    BY <1>1, <2>1, BufferGrows
  <2> QED
    BY <2>1, <2>2, <2>3
<1>4. to_bytes(name, set) = D[n]
  BY DEF to_bytes
<1> DEFINE before == Covered(runs, i - 1)
           after == Covered(runs, i)
           read == CutCovered(runs, i - 1)
           next == CutCovered(runs, i)
<1>5. /\ after = before \union (run.start .. run.start + run.count)
      /\ before \cap (run.start .. run.start + run.count) = {}
      /\ after \subseteq set
  BY <1>1, NextIsApart
<1>6. next = read \union (CutStart(run) .. CutStart(run) + run.count)
  <2>1. 1 .. i = (1 .. i - 1) \union {i}
    OBVIOUS
  <2> QED
    BY <2>1 DEF CutCovered
<1> HIDE DEF runs, n, D, run, before, after, read, next
<1>7. before \in SUBSET Nat /\ after \in SUBSET set /\ before \in SUBSET set
  BY <1>1, <1>5
<1>8. /\ IsFiniteSet(before) /\ Cardinality(before) \in Nat
      /\ Cardinality(after) \in Nat /\ Cardinality(after) <= Cardinality(set) /\ Cardinality(set) \in Nat
  BY <1>1, <1>7, FS_Subset, FS_CardinalityType
<1>9. Cardinality(after) = Cardinality(before) + run.count + 1
  BY <1>2, <1>5, <1>7, <1>8, InsertRange
<1>10. run.count < U32
  BY <1>1, <1>2, <1>8, <1>9, Powers, SizesAssumption
<1>11. Allowed(run.count, Cardinality(before) + run.count + 1)
  BY <1>1, <1>2, <1>8, <1>9, SizesAssumption DEF Allowed
<1>12. Turn(D[n], ReadState(Len(D[i - 1]) + 1, Cardinality(before), read))
         = ReadState(Len(D[i]) + 1, Cardinality(before) + run.count + 1,
                     read \union (CutStart(run) .. CutStart(run) + run.count))
  <2> DEFINE buf == D[i - 1]
             bytes == D[n]
             total == Cardinality(before)
  <2>1. /\ buf \in Seq(Byte) /\ bytes \in Seq(Byte) /\ run \in RunType /\ total \in Nat
        /\ Prefix(PutRange(buf, run), bytes) /\ Allowed(run.count, total + run.count + 1)
    BY <1>2, <1>3, <1>8, <1>11
  <2> HIDE DEF buf, bytes, total
  <2>2. ReadsRange(bytes, buf, run, total, read)
    BY <1>10, <2>1, TurnReadsRange
  <2> QED
    BY <1>3, <2>2, Zenon DEF ReadsRange, buf, bytes, total
<1>13. Turn(D[n], ReadState(Len(D[i - 1]) + 1, Cardinality(before), read))
         = ReadState(Len(D[i]) + 1, Cardinality(after), next)
  BY <1>6, <1>9, <1>12
<1> QED
  BY <1>4, <1>13 DEF Fitting, runs, n, D, before, after, read, next

\* The decoder's loop ends where the encoder's did.
TurnsEnd(name, set) ==
  Turns(to_bytes(name, set), Len(name) + 2)[Len(to_bytes(name, set))]
    = Fitting(name, ranges(set), Len(ranges(set)))

LEMMA TurnsFollow ==
  ASSUME NEW name \in Seq(Byte), NEW set, Fits(set)
  PROVE  TurnsEnd(name, set)
<1> DEFINE bytes == to_bytes(name, set)
           m == Len(bytes)
           n == Len(ranges(set))
           E == Turns(bytes, Len(name) + 2)
           F(i) == Fitting(name, ranges(set), i)
           T == {i \in 0 .. m : E[i] = IF i <= n THEN F(i) ELSE F(n)}
<1>1. /\ bytes \in Seq(Byte) /\ m \in Nat /\ n \in Nat /\ n < m /\ Len(name) + 2 \in Nat \ {0}
      /\ bytes = Buffer(name, ranges(set))[n]
  <2>1. ranges(set) \in Seq(RunType)
    BY RangesCover DEF Fits
  <2>2. n \in Nat /\ n \in 0 .. n /\ Len(name) \in Nat
    BY <2>1, LenProperties
  <2>3. bytes = Buffer(name, ranges(set))[n]
    BY DEF to_bytes
  <2>4. Buffer(name, ranges(set)) \in [0 .. n -> Seq(Byte)] /\ n + 1 <= Len(Buffer(name, ranges(set))[n])
    BY <2>1, <2>2, BufferDef, BufferGrows
  <2> HIDE DEF n
  <2>5. bytes \in Seq(Byte) /\ n + 1 <= m
    BY <2>2, <2>3, <2>4
  <2>6. m \in Nat
    BY <2>5, LenProperties
  <2> HIDE DEF m
  <2> QED
    BY <2>2, <2>3, <2>5, <2>6
<1>2. E[0] = NothingRead(Len(name) + 2) /\ \A i \in 1 .. m : E[i] = Turn(bytes, E[i - 1])
  BY <1>1, TurnsDef
<1>3. E[0] = F(0)
  <2>1. ranges(set) \in Seq(RunType)
    BY RangesCover DEF Fits
  <2>2. Len(Buffer(name, ranges(set))[0]) = Len(name) + 1 /\ Len(name) \in Nat
    BY <2>1, BufferDef, HeaderType, LenProperties
  <2>3. Covered(ranges(set), 0) = {} /\ CutCovered(ranges(set), 0) = {}
    BY DEF Covered, CutCovered
  <2>4. Cardinality({}) = 0
    BY FS_EmptySet
  <2> HIDE DEF E
  <2>5. Len(Buffer(name, ranges(set))[0]) + 1 = Len(name) + 2
    BY <2>2
  <2> QED
    BY <1>2, <2>3, <2>4, <2>5, Zenon DEF Fitting, ReadState, NothingRead
<1>4. \A i \in 1 .. n : Turn(bytes, F(i - 1)) = F(i)
  BY TurnFollows
<1>5. Turn(bytes, F(n)) = F(n)
  <2>1. F(n).off = m + 1 /\ F(n) # None
    BY <1>1 DEF Fitting, ReadState, None
  <2>2. F(n).off > Len(bytes)
    BY <1>1, <2>1
  <2> HIDE DEF F
  <2> QED
    BY <2>1, <2>2, Zenon DEF Turn
<1> HIDE DEF bytes, m, n, E, F
<1>6. 0 \in T
  BY <1>1, <1>3
<1>7. ASSUME NEW i \in 1 .. m, i - 1 \in T PROVE i \in T
  <2>1. E[i] = Turn(bytes, E[i - 1]) /\ E[i - 1] = IF i - 1 <= n THEN F(i - 1) ELSE F(n)
    BY <1>2, <1>7
  <2>2. CASE i <= n
    <3>1. i \in 1 .. n /\ i - 1 <= n
      BY <1>1, <2>2
    <3>2. E[i] = F(i)
      BY <1>4, <2>1, <3>1
    <3> QED
      BY <1>1, <2>2, <3>2
  <2>3. CASE ~(i <= n)
    <3>1. E[i - 1] = F(n)
      <4>1. CASE i - 1 = n
        BY <1>1, <2>1, <4>1
      <4>2. CASE i - 1 # n
        <5>1. ~(i - 1 <= n)
          BY <1>1, <2>3, <4>2
        <5> QED
          BY <2>1, <5>1
      <4> QED
        BY <4>1, <4>2
    <3>2. E[i] = F(n)
      BY <1>5, <2>1, <3>1
    <3> QED
      BY <1>1, <2>3, <3>2
  <2> QED
    BY <2>2, <2>3
<1> HIDE DEF T
<1>8. m \in T
  <2>1. \A i \in 0 .. m : i \in T
    BY <1>1, <1>6, <1>7, Induction
  <2> QED
    BY <1>1, <2>1
<1>9. E[m] = F(n)
  BY <1>1, <1>8 DEF T
<1> QED
  BY <1>9, Zenon DEF TurnsEnd, E, m, F, n, bytes

\* What to_bytes makes begins with the header and the name.
LEMMA BlobBegins ==
  ASSUME NEW name \in Seq(Byte), NEW set \in SUBSET Nat, IsFiniteSet(set)
  PROVE  LET bytes == to_bytes(name, set)
         IN  /\ bytes \in Seq(Byte)
             /\ Len(bytes) \in Nat /\ Len(name) \in Nat /\ Len(name) + 1 <= Len(bytes)
             /\ bytes[1] = Header(name)
             /\ \A k \in 0 .. Len(name) : SubSeq(bytes, 2, k + 1) = SubSeq(name, 1, k)
<1> DEFINE bytes == to_bytes(name, set)
           n == Len(ranges(set))
           D == Buffer(name, ranges(set))
<1>1. ranges(set) \in Seq(RunType)
  BY RangesCover
<1>2. n \in Nat /\ Len(name) \in Nat
  BY <1>1, LenProperties
<1>3. /\ bytes = D[n] /\ D[0] = Headed(name) /\ bytes \in Seq(Byte) /\ Prefix(D[0], bytes)
  <2>1. D \in [0 .. n -> Seq(Byte)] /\ D[0] = Headed(name)
    BY <1>1, BufferDef
  <2>2. 0 \in 0 .. n
    BY <1>2
  <2>3. Prefix(D[0], D[n])
    BY <1>1, <2>2, BufferGrows
  <2> QED
    BY <1>2, <2>1, <2>3 DEF to_bytes
<1> HIDE DEF bytes, D, n
<1>4. /\ Len(Headed(name)) = Len(name) + 1
      /\ Headed(name)[1] = Header(name)
      /\ \A j \in 1 .. Len(name) : Headed(name)[j + 1] = name[j]
  BY HeaderType
<1>5. /\ Len(bytes) \in Nat /\ Len(name) + 1 <= Len(bytes)
      /\ bytes[1] = Header(name) /\ \A j \in 1 .. Len(name) : bytes[j + 1] = name[j]
  <2>1. Len(bytes) \in Nat /\ Len(name) + 1 <= Len(bytes)
    BY <1>3, <1>4, LenProperties DEF Prefix
  <2>2. \A j \in 1 .. Len(name) + 1 : bytes[j] = Headed(name)[j]
    BY <1>3, <1>4 DEF Prefix
  <2>3. \A j \in 1 .. Len(name) : j + 1 \in 1 .. Len(name) + 1
    BY <1>2
  <2> QED
    BY <1>2, <1>4, <2>1, <2>2, <2>3
<1>6. ASSUME NEW k \in 0 .. Len(name) PROVE SubSeq(bytes, 2, k + 1) = SubSeq(name, 1, k)
  <2> DEFINE s == SubSeq(bytes, 2, k + 1)
             t == SubSeq(name, 1, k)
  <2>1. s \in Seq(Byte) /\ Len(s) = k /\ \A j \in 1 .. k : s[j] = bytes[j + 1]
    BY <1>2, <1>3, <1>5, SubSeqProperties
  <2>2. t \in Seq(Byte) /\ Len(t) = k /\ \A j \in 1 .. k : t[j] = name[j]
    BY <1>2, SubSeqProperties
  <2>3. \A j \in 1 .. k : j \in 1 .. Len(name)
    BY <1>2
  <2> HIDE DEF s, t
  <2>4. s = t
    BY <1>5, <2>1, <2>2, <2>3, SeqEqual
  <2> QED
    BY <2>4 DEF s, t
<1> QED
  BY <1>2, <1>3, <1>5, <1>6 DEF bytes

\* What from_data returns of what to_bytes wrote.
ReadBack(name, set) ==
  from_data(to_bytes(name, set))
    = [name |-> name, wallets |-> CutCovered(ranges(set), Len(ranges(set)))]

\* from_data returns what to_bytes wrote, if the header had room for the name.
LEMMA ReadsBack ==
  ASSUME NEW name \in Seq(Byte), Len(name) < Version1, NEW set, Fits(set)
  PROVE  ReadBack(name, set)
<1> DEFINE bytes == to_bytes(name, set)
           n == Len(ranges(set))
           len == bytes[1] % Version1
           end == Decoded(bytes)
<1>1. /\ Len(bytes) \in Nat /\ Len(name) \in Nat /\ Len(name) + 1 <= Len(bytes)
      /\ bytes[1] = Header(name) /\ SubSeq(bytes, 2, Len(name) + 1) = SubSeq(name, 1, Len(name))
  <2>1. Len(name) \in 0 .. Len(name)
    BY LenProperties
  <2> QED
    BY <2>1, BlobBegins DEF Fits
<1>2. TurnsEnd(name, set)
  BY TurnsFollow
<1> HIDE DEF bytes, n
<1>3. bytes[1] = Version1 + Len(name)
  BY <1>1, HeaderByte
<1>4. len = Len(name) /\ bytes[1] \div Version1 = 1
  BY <1>1, <1>3, HeaderBits, SizesAssumption
<1> HIDE DEF len
<1>5. end = Fitting(name, ranges(set), n)
  BY <1>2, <1>4, Zenon DEF TurnsEnd, Decoded, bytes, n, len, end
<1> HIDE DEF end
<1>6. end # None /\ end.wallets = CutCovered(ranges(set), n)
  BY <1>5 DEF Fitting, ReadState, None
<1>7. SubSeq(bytes, 2, len + 1) = name
  <2>1. SubSeq(name, 1, Len(name)) = name
    <3> DEFINE t == SubSeq(name, 1, Len(name))
    <3>1. t \in Seq(Byte) /\ Len(t) = Len(name) /\ \A j \in 1 .. Len(name) : t[j] = name[j]
      BY <1>1, SubSeqProperties
    <3> HIDE DEF t
    <3>2. t = name
      BY <3>1, SeqEqual
    <3> QED
      BY <3>2 DEF t
  <2> QED
    BY <1>1, <1>4, <2>1
<1>8. bytes # <<>> /\ ~(bytes[1] \div Version1 # 1 \/ len + 1 > Len(bytes))
  BY <1>1, <1>4
<1>9. from_data(bytes) = [name |-> SubSeq(bytes, 2, len + 1), wallets |-> end.wallets]
  BY <1>6, <1>8, Zenon DEF from_data, end, len
<1> QED
  BY <1>6, <1>7, <1>9, Zenon DEF ReadBack, bytes, n

\* Of a name for which the header had no room, what its length there says, if anything.
LEMMA CutNameReadsBack ==
  ASSUME NEW name \in Seq(Byte), NEW set \in SUBSET Nat, IsFiniteSet(set),
         from_data(to_bytes(name, set)) # None
  PROVE  from_data(to_bytes(name, set)).name = SubSeq(name, 1, Len(name) % Version1)
<1> DEFINE bytes == to_bytes(name, set)
           k == Len(name) % Version1
<1>1. /\ bytes \in Seq(Byte) /\ Len(name) \in Nat /\ bytes[1] = Header(name)
      /\ \A i \in 0 .. Len(name) : SubSeq(bytes, 2, i + 1) = SubSeq(name, 1, i)
  BY BlobBegins
<1>2. from_data(bytes).name = SubSeq(bytes, 2, (bytes[1] % Version1) + 1)
  BY <1>1, FromDataType
<1> HIDE DEF bytes
<1>3. bytes[1] % Version1 = k
  BY <1>1, HeaderByte
<1>4. k \in 0 .. Len(name)
  BY <1>1, SizesAssumption
<1> HIDE DEF k
<1>5. from_data(bytes).name = SubSeq(name, 1, k)
  BY <1>1, <1>2, <1>3, <1>4
<1> QED
  BY <1>5 DEF bytes, k

-----------------------------------------------------------------------------
(***************************************************************************)
(* What cutting the numbers to 32 bits does to a set of them.              *)
(***************************************************************************)

\* A range that is cut holds the same numbers modulo u, from its start on.
LEMMA CutKeepsSum ==
  ASSUME NEW u \in Nat, u > 0, NEW a \in Nat, NEW i \in Nat
  PROVE  ((a % u) + i) % u = (a + i) % u
<1>1. a \div u \in Nat /\ a % u \in Nat /\ a = (a \div u) * u + (a % u)
  OBVIOUS
<1> DEFINE q == a \div u
           m == (a % u) + i
<1>2. q \in Nat /\ m \in Nat /\ a + i = q * u + m
  BY <1>1, Products
<1> HIDE DEF q, m
<1>3. (q * u + m) % u = m % u
  BY <1>2, MultipleVanishes
<1> QED
  BY <1>2, <1>3 DEF m

\* The numbers that do not fit are written as others, equal to them modulo 2^32;
\* those that fit are written as they are.
LEMMA CutLosesWideOnes ==
  ASSUME NEW set, Fits(set)
  PROVE  LET cut == CutCovered(ranges(set), Len(ranges(set)))
         IN  /\ {w % U32 : w \in cut} = {w % U32 : w \in set}
             /\ \A w \in set : w < U32 => w \in cut
             /\ (\A w \in set : w < U32) => cut = set
<1> DEFINE runs == ranges(set)
           n == Len(runs)
           Start(j) == runs[j].start
           Cut(j) == CutStart(runs[j])
           Count(j) == runs[j].count
           cut == CutCovered(runs, n)
<1>1. /\ set = UNION {Start(j) .. Start(j) + Count(j) : j \in 1 .. n}
      /\ cut = UNION {Cut(j) .. Cut(j) + Count(j) : j \in 1 .. n}
  BY RangesCover DEF Fits, Covered, CutCovered
<1>2. \A j \in 1 .. n : Start(j) \in Nat /\ Count(j) \in Nat
  <2>1. \A j \in 1 .. n : runs[j] \in RunType
    BY RangesCover, ElementOfSeq DEF Fits
  <2> QED
    BY <2>1 DEF RunType
<1>3. \A j \in 1 .. n : Cut(j) = Start(j) % U32
  BY DEF CutStart
<1> HIDE DEF runs, n, Start, Cut, Count, cut
<1>4. \A j \in 1 .. n : Cut(j) \in Nat /\ (Start(j) < U32 => Cut(j) = Start(j))
  BY <1>2, <1>3, WrittenType
<1>5. U32 \in Nat /\ U32 > 0
  BY Powers, U32IsPositive
<1>6. ASSUME NEW j \in 1 .. n, NEW i \in 0 .. Count(j)
      PROVE  /\ Start(j) + i \in set /\ Cut(j) + i \in cut
             /\ (Cut(j) + i) % U32 = (Start(j) + i) % U32
  <2>1. i \in Nat /\ Start(j) + i \in Start(j) .. Start(j) + Count(j)
        /\ Cut(j) + i \in Cut(j) .. Cut(j) + Count(j)
    BY <1>2, <1>4
  <2>2. (Cut(j) + i) % U32 = (Start(j) + i) % U32
    BY <1>2, <1>3, <1>5, <2>1, CutKeepsSum
  <2> QED
    BY <1>1, <2>1, <2>2
<1>7. ASSUME NEW w \in set PROVE \E j \in 1 .. n : \E i \in 0 .. Count(j) : w = Start(j) + i
  <2>1. PICK j \in 1 .. n : w \in Start(j) .. Start(j) + Count(j)
    BY <1>1
  <2>2. w - Start(j) \in 0 .. Count(j) /\ w = Start(j) + (w - Start(j))
    BY <1>2, <2>1
  <2> QED
    BY <2>2
<1>8. ASSUME NEW w \in cut PROVE \E j \in 1 .. n : \E i \in 0 .. Count(j) : w = Cut(j) + i
  <2>1. PICK j \in 1 .. n : w \in Cut(j) .. Cut(j) + Count(j)
    BY <1>1
  <2>2. w - Cut(j) \in 0 .. Count(j) /\ w = Cut(j) + (w - Cut(j))
    BY <1>2, <1>4, <2>1
  <2> QED
    BY <2>2
<1>9. ASSUME NEW w \in set PROVE \E v \in cut : v % U32 = w % U32
  BY <1>6, <1>7
<1>10. ASSUME NEW w \in cut PROVE \E v \in set : v % U32 = w % U32
  BY <1>6, <1>8
<1>11. {w % U32 : w \in cut} = {w % U32 : w \in set}
  BY <1>9, <1>10
<1>12. ASSUME NEW w \in set, w < U32 PROVE w \in cut
  <2>1. PICK j \in 1 .. n : \E i \in 0 .. Count(j) : w = Start(j) + i
    BY <1>7
  <2> PICK i \in 0 .. Count(j) : w = Start(j) + i
    BY <2>1
  <2>2. Start(j) < U32
    BY <1>2, <1>5, <1>12, <2>1
  <2>3. w = Cut(j) + i
    BY <1>4, <2>1, <2>2
  <2> QED
    BY <1>6, <2>1, <2>3
<1>13. ASSUME \A w \in set : w < U32, NEW w \in cut PROVE w \in set
  <2>1. PICK j \in 1 .. n : \E i \in 0 .. Count(j) : w = Cut(j) + i
    BY <1>8
  <2> PICK i \in 0 .. Count(j) : w = Cut(j) + i
    BY <2>1
  <2>2. 0 \in 0 .. Count(j) /\ Start(j) + 0 = Start(j)
    BY <1>2
  <2>3. Start(j) < U32
    BY <1>6, <1>13, <2>2
  <2> QED
    BY <1>4, <1>6, <2>1, <2>3
<1> QED
  BY <1>11, <1>12, <1>13 DEF cut, n, runs

-----------------------------------------------------------------------------
(***************************************************************************)
(* The specification.                                                      *)
(***************************************************************************)

\* The metadata in memory is a finite set of wallets and a name of any length; if
\* the bytes on the card are ours, they are what to_bytes made.
IInv ==
  /\ TypeOK
  /\ IsFiniteSet(wallets)
  /\ saved # None =>
       /\ IsFiniteSet(saved.wallets)
       /\ blob = to_bytes(saved.name, saved.wallets)

LEMMA ToBytesType ==
  ASSUME NEW name \in Seq(Byte), NEW set \in SUBSET Nat, IsFiniteSet(set)
  PROVE  to_bytes(name, set) \in Seq(Byte)
<1>1. ranges(set) \in Seq(RunType)
  BY RangesCover
<1>2. Len(ranges(set)) \in 0 .. Len(ranges(set))
  BY <1>1, LenProperties
<1>3. Buffer(name, ranges(set)) \in [0 .. Len(ranges(set)) -> Seq(Byte)]
  BY <1>1, BufferDef
<1> QED
  BY <1>2, <1>3 DEF to_bytes

LEMMA InitIInv == Init => IInv
<1> SUFFICES ASSUME Init PROVE IInv
  OBVIOUS
<1>1. card_name \in Seq(Byte)
  BY SizesAssumption DEF Init
<1>2. wallets = {} /\ blob = <<>> /\ saved = None
  BY DEF Init
<1>3. IsFiniteSet({}) /\ <<>> \in Seq(Byte)
  BY FS_EmptySet, EmptySeq
<1> QED
  BY <1>1, <1>2, <1>3 DEF IInv, TypeOK

LEMMA NextIInv == IInv /\ [Next]_vars => IInv'
<1> SUFFICES ASSUME IInv, [Next]_vars PROVE IInv'
  OBVIOUS
<1>1. /\ card_name \in Seq(Byte)
      /\ wallets \in SUBSET Nat /\ IsFiniteSet(wallets) /\ blob \in Seq(Byte)
      /\ saved \in [name : Seq(Byte), wallets : SUBSET Nat] \union {None}
  BY DEF IInv, TypeOK
<1>2. ASSUME NEW name \in Names, set_card_name(name) PROVE IInv'
  <2>1. name \in Seq(Byte)
    BY SizesAssumption
  <2> QED
    BY <1>1, <1>2, <2>1 DEF IInv, TypeOK, set_card_name
<1>3. ASSUME NEW id \in Ids, add_wallet(id) PROVE IInv'
  <2>1. wallets' \in SUBSET Nat
    BY <1>1, <1>3, SizesAssumption DEF add_wallet
  <2>2. IsFiniteSet(wallets')
    BY <1>1, <1>3, FS_AddElement DEF add_wallet
  <2> QED
    BY <1>1, <1>3, <2>1, <2>2 DEF IInv, TypeOK, add_wallet
<1>4. ASSUME NEW id \in Ids, remove_wallet(id) PROVE IInv'
  <2>1. wallets' \in SUBSET Nat
    BY <1>1, <1>4 DEF remove_wallet
  <2>2. IsFiniteSet(wallets')
    BY <1>1, <1>4, FS_RemoveElement DEF remove_wallet
  <2> QED
    BY <1>1, <1>4, <2>1, <2>2 DEF IInv, TypeOK, remove_wallet
<1>5. ASSUME store PROVE IInv'
  <2>1. /\ blob' = to_bytes(card_name, wallets) /\ saved' = [name |-> card_name, wallets |-> wallets]
        /\ card_name' = card_name /\ wallets' = wallets
    BY <1>5 DEF store
  <2>2. blob' \in Seq(Byte)
    BY <1>1, <2>1, ToBytesType
  <2>3. /\ saved' \in [name : Seq(Byte), wallets : SUBSET Nat]
        /\ saved'.name = card_name /\ saved'.wallets = wallets
    BY <1>1, <2>1
  <2> QED
    BY <1>1, <2>1, <2>2, <2>3 DEF IInv, TypeOK
<1>6. ASSUME store_other PROVE IInv'
  BY <1>1, <1>6, SizesAssumption DEF IInv, TypeOK, store_other
<1>7. ASSUME load PROVE IInv'
  <2>1. /\ from_data(blob).name \in Seq(Byte)
        /\ from_data(blob).wallets \in SUBSET Nat /\ IsFiniteSet(from_data(blob).wallets)
    <3>1. /\ from_data(blob).name \in Seq(Byte) /\ Decoded(blob) \in ReadStates
          /\ from_data(blob).wallets = Decoded(blob).wallets
      BY <1>1, <1>7, FromDataType DEF load
    <3> QED
      BY <3>1 DEF ReadStates
  <2>2. /\ card_name' = from_data(blob).name /\ wallets' = from_data(blob).wallets
        /\ blob' = blob /\ saved' = saved
    BY <1>7 DEF load
  <2> QED
    BY <1>1, <2>1, <2>2 DEF IInv, TypeOK
<1>8. CASE UNCHANGED vars
  BY <1>8 DEF IInv, TypeOK, vars
<1> QED
  BY <1>2, <1>3, <1>4, <1>5, <1>6, <1>7, <1>8 DEF Next

LEMMA IInvHolds == Spec => []IInv
<1> QED
  BY InitIInv, NextIInv, PTL DEF Spec

\* What is stored on the card are bytes, the header's too, whatever the length of
\* the name that new was given.
THEOREM MetadataTyped == Spec => []TypeOK
<1>1. IInv => TypeOK
  BY DEF IInv
<1> QED
  BY <1>1, IInvHolds, PTL

\* No bytes on the card make from_data insert more than the limit, in overlapping
\* ranges or not, and what it counts is no less than the wallets that come of it.
THEOREM InsertsAreBounded == Spec => []Bounded
<1>1. IInv => Bounded
  <2>1. ASSUME IInv, from_data(blob) # None
        PROVE  /\ Decoded(blob) \in ReadStates
               /\ from_data(blob).wallets = Decoded(blob).wallets
    BY <2>1, FromDataType DEF IInv, TypeOK
  <2> QED
    BY <2>1 DEF Bounded, ReadStates
<1> QED
  BY <1>1, IInvHolds, PTL

\* What was stored comes back, for every name that fits the header and every
\* set of 32-bit wallet numbers that is no larger than from_data accepts.  Of a
\* longer name comes back what the header still says of its length, or the blob is
\* refused; never other bytes.
THEOREM StoredComesBack == Spec => []RoundTrip
<1>1. ASSUME IInv, saved # None, Len(saved.name) < Version1, saved.wallets \subseteq 0 .. U32 - 1,
             Cardinality(saved.wallets) <= MaxTotal
      PROVE  from_data(blob) = saved
  <2>1. saved \in [name : Seq(Byte), wallets : SUBSET Nat]
    BY <1>1 DEF IInv, TypeOK
  <2>2. IsFiniteSet(saved.wallets) /\ blob = to_bytes(saved.name, saved.wallets)
    BY <1>1 DEF IInv
  <2>3. \A w \in saved.wallets : w < U32
    BY <1>1, Powers
  <2>4. Fits(saved.wallets) /\ saved.name \in Seq(Byte)
    BY <1>1, <2>1, <2>2, <2>3 DEF Fits
  <2> DEFINE runs == ranges(saved.wallets)
             cut == CutCovered(runs, Len(runs))
  <2>5. from_data(blob) = [name |-> saved.name, wallets |-> cut]
    BY <1>1, <2>2, <2>4, ReadsBack DEF ReadBack
  <2>6. cut = saved.wallets
    BY <2>3, <2>4, CutLosesWideOnes
  <2> HIDE DEF cut
  <2> QED
    BY <2>1, <2>5, <2>6
<1>2. ASSUME IInv, saved # None, from_data(blob) # None
      PROVE  from_data(blob).name = SubSeq(saved.name, 1, Len(saved.name) % Version1)
  <2>1. /\ saved.name \in Seq(Byte) /\ saved.wallets \in SUBSET Nat /\ IsFiniteSet(saved.wallets)
        /\ blob = to_bytes(saved.name, saved.wallets)
    BY <1>2 DEF IInv, TypeOK
  <2> QED
    BY <1>2, <2>1, CutNameReadsBack
<1>3. IInv => RoundTrip
  BY <1>1, <1>2 DEF RoundTrip
<1> QED
  BY <1>3, IInvHolds, PTL

\* Wallet numbers of more than 32 bits, which to_bytes cuts: the name and the
\* numbers that fit come back all the same, a wide one comes back as a number
\* equal to it modulo 2^32, and nothing else appears.
THEOREM WideOnesAreCut == Spec => []OnlyWideOnesAreLost
<1>1. ASSUME IInv, saved # None, Len(saved.name) < Version1,
             Cardinality(saved.wallets) <= MaxTotal
      PROVE  /\ from_data(blob) # None
             /\ from_data(blob).name = saved.name
             /\ saved.wallets \cap (0 .. U32 - 1) \subseteq from_data(blob).wallets
             /\ {w % U32 : w \in from_data(blob).wallets} = {w % U32 : w \in saved.wallets}
  <2>1. saved \in [name : Seq(Byte), wallets : SUBSET Nat]
    BY <1>1 DEF IInv, TypeOK
  <2>2. IsFiniteSet(saved.wallets) /\ blob = to_bytes(saved.name, saved.wallets)
    BY <1>1 DEF IInv
  <2>3. Fits(saved.wallets) /\ saved.name \in Seq(Byte)
    BY <1>1, <2>1, <2>2 DEF Fits
  <2> DEFINE runs == ranges(saved.wallets)
             cut == CutCovered(runs, Len(runs))
  <2>4. from_data(blob) = [name |-> saved.name, wallets |-> cut]
    BY <1>1, <2>2, <2>3, ReadsBack DEF ReadBack
  <2>5. /\ {w % U32 : w \in cut} = {w % U32 : w \in saved.wallets}
        /\ \A w \in saved.wallets : w < U32 => w \in cut
    BY <2>3, CutLosesWideOnes
  <2>6. \A w \in 0 .. U32 - 1 : w < U32
    BY Powers
  <2> HIDE DEF cut
  <2>7. from_data(blob) # None /\ from_data(blob).name = saved.name /\ from_data(blob).wallets = cut
    BY <2>4 DEF None
  <2>8. saved.wallets \cap (0 .. U32 - 1) \subseteq from_data(blob).wallets
    BY <2>5, <2>6, <2>7
  <2> QED
    BY <2>5, <2>7, <2>8
<1>2. IInv => OnlyWideOnesAreLost
  BY <1>1 DEF OnlyWideOnesAreLost
<1> QED
  BY <1>2, IInvHolds, PTL
============================================================================
