-------------------------- MODULE NdefStorage_proofs --------------------------
(***************************************************************************)
(* Proofs about NdefStorage, for any sizes that stand in the relations the *)
(* assumptions name.                                                       *)
(***************************************************************************)
EXTENDS NdefStorage, SequenceTheorems, TLAPS

-----------------------------------------------------------------------------
(***************************************************************************)
(* Arithmetic.                                                             *)
(***************************************************************************)
LEMMA Division ==
  ASSUME NEW n \in Nat, NEW d \in Nat \ {0}
  PROVE  /\ n \div d \in Nat /\ n % d \in 0 .. d - 1
         /\ n = d * (n \div d) + (n % d)
  OBVIOUS

LEMMA Monotone ==
  ASSUME NEW a \in Nat, NEW b \in Nat, a < b, NEW d \in Nat \ {0}
  PROVE  d * a + d <= d * b
  OBVIOUS

LEMMA Quotient ==
  ASSUME NEW q \in Nat, NEW d \in Nat \ {0}, NEW r \in 0 .. d - 1
  PROVE  /\ (d * q + r) \div d = q
         /\ (d * q + r) % d = r
  OBVIOUS
\* The parts of a number of two digits.
LEMMA TwoDigits ==
  ASSUME NEW n \in Nat, n < Base * Base
  PROVE  /\ (n \div Base) % Base \in Byte /\ n % Base \in Byte
         /\ ((n \div Base) % Base) * Base + (n % Base) = n
<1>1. Base \in Nat \ {0}
  BY SizesAssumption
<1>2. /\ n \div Base \in Nat /\ n % Base \in 0 .. Base - 1
      /\ n = Base * (n \div Base) + (n % Base)
  BY <1>1, Division
<1>3. n \div Base < Base
  <2> SUFFICES ASSUME Base <= n \div Base PROVE FALSE
    BY <1>1, <1>2
  <2>1. Base * Base <= Base * (n \div Base)
    BY <1>1, <1>2
  <2> QED BY <1>1, <1>2, <2>1
<1>4. (n \div Base) % Base = n \div Base
  BY <1>1, <1>2, <1>3
<1> QED BY <1>1, <1>2, <1>3, <1>4 DEF Byte

\* A digit is a byte, whatever the number.
LEMMA Digits ==
  ASSUME NEW n \in Nat
  PROVE  (n \div Base) % Base \in Byte /\ n % Base \in Byte
<1>1. Base \in Nat \ {0}
  BY SizesAssumption
<1>2. n \div Base \in Nat /\ n % Base \in 0 .. Base - 1
  BY <1>1, Division
<1>3. (n \div Base) % Base \in 0 .. Base - 1
  BY <1>1, <1>2, Division
<1> QED BY <1>2, <1>3 DEF Byte

\* A chunk is framed on every channel (FramingAssumption).
LEMMA RoomForOverhead ==
  ASSUME NEW c \in {"none", "V1", "V2"}, NEW n \in 0 .. ChunkSize
  PROVE  Framed(c, n)
<1> USE SizesAssumption
<1>1. n \in Nat /\ Padded(n) \in Nat /\ Padded(n) <= n + Block
  <2>1. /\ n \in Nat /\ n \div Block \in Nat /\ n % Block \in 0 .. Block - 1
        /\ n = Block * (n \div Block) + (n % Block)
    <3>1. n \in Nat /\ Block \in Nat \ {0}
      OBVIOUS
    <3> QED BY <3>1, Division
  <2>2. Padded(n) = Block * (n \div Block) + Block
    BY <2>1 DEF Padded
  <2>3. Block * (n \div Block) \in Nat
    BY <2>1
  <2> HIDE DEF Padded
  <2> QED BY <2>1, <2>2, <2>3
<1>2. SealedLength(c, n) \in 0 .. Base - 1
  <2>1. CASE c = "none"
    BY <1>1, <2>1, FramingAssumption DEF SealedLength
  <2>2. CASE c = "V1"
    BY <1>1, <2>2, FramingAssumption DEF SealedLength
  <2>3. CASE c = "V2"
    BY <1>1, <2>3, FramingAssumption DEF SealedLength
  <2> QED BY <2>1, <2>2, <2>3
<1>3. SealedLength(c, n) % Base = SealedLength(c, n)
  BY <1>2
<1>4. ~TooLarge(c, n)
  BY <1>1, <1>2, FramingAssumption DEF TooLarge
<1> QED BY <1>3, <1>4 DEF Framed, LC
-----------------------------------------------------------------------------
\* A call in progress is at the beginning of a chunk, within what the card
\* holds; the one command of an older applet is sent once.
AtChunk ==
  result = "busy" =>
    /\ \E k \in Nat : off = ChunkSize * k
    /\ off <= Capacity
    /\ ~applet.above_2 => off = 0

\* A call that has stored its record has sent all of it, and it fitted.
SentWhole == result = "ok" => off = Len(data) /\ off <= Capacity

IInv == TypeOK /\ AtChunk /\ SentWhole /\ TornInOrder

\* A prefix is two bytes.
LEMMA Prefixes ==
  ASSUME NEW r \in Seq(Byte)
  PROVE  /\ Prefix(r) \o r \in Seq(Byte) /\ Len(Prefix(r) \o r) = Len(r) + 2
         /\ (Prefix(r) \o r)[1] = (Len(r) \div Base) % Base
         /\ (Prefix(r) \o r)[2] = Len(r) % Base
         /\ \A i \in 1 .. Len(r) : (Prefix(r) \o r)[i + 2] = r[i]
<1>1. (Len(r) \div Base) % Base \in Byte /\ Len(r) % Base \in Byte
  BY Digits
<1>2. Prefix(r) \in Seq(Byte) /\ Len(Prefix(r)) = 2
      /\ Prefix(r)[1] = (Len(r) \div Base) % Base /\ Prefix(r)[2] = Len(r) % Base
  <2>1. ASSUME NEW a \in Byte, NEW b \in Byte
        PROVE  <<a, b>> \in Seq(Byte) /\ Len(<<a, b>>) = 2 /\ <<a, b>>[1] = a /\ <<a, b>>[2] = b
    OBVIOUS
  <2> QED BY <1>1, <2>1 DEF Prefix
<1> HIDE DEF Prefix
<1> QED
  <2>1. ASSUME NEW p \in Seq(Byte), Len(p) = 2
        PROVE  /\ p \o r \in Seq(Byte) /\ Len(p \o r) = Len(r) + 2
               /\ (p \o r)[1] = p[1] /\ (p \o r)[2] = p[2]
               /\ \A i \in 1 .. Len(r) : (p \o r)[i + 2] = r[i]
    <3>1. /\ p \o r \in Seq(Byte) /\ Len(p \o r) = 2 + Len(r)
          /\ \A i \in 1 .. 2 + Len(r) : (p \o r)[i] = IF i <= 2 THEN p[i] ELSE r[i - 2]
      <4>1. /\ p \o r \in Seq(Byte) /\ Len(p \o r) = Len(p) + Len(r)
            /\ \A i \in 1 .. Len(p) + Len(r) :
                 (p \o r)[i] = IF i <= Len(p) THEN p[i] ELSE r[i - Len(p)]
        BY <2>1, ConcatProperties
      <4> QED BY <2>1, <4>1, Zenon
    <3>2. Len(r) \in Nat
      OBVIOUS
    <3> QED BY <3>1, <3>2
  <2> QED BY <1>2, <2>1

\* What is sent are bytes.
LEMMA DataTyped ==
  ASSUME ndef \in Seq(Byte)
  PROVE  data \in Seq(Byte) /\ Len(data) \in Nat
  BY Prefixes DEF data

\* The callers' records are bytes too.
LEMMA RecordsTyped == Records \subseteq Seq(Byte)
<1>1. ASSUME NEW n \in Lengths, NEW b \in Contents PROVE Body(n, b) \in Seq(Byte)
  <2>1. n \in Nat /\ b \in Byte
    BY SizesAssumption
  <2>2. Body(n, b) \in [1 .. n -> Byte]
    BY <2>1 DEF Body
  <2> QED BY <2>1, <2>2
<1>2. ASSUME NEW n \in Lengths, NEW b \in Contents
      PROVE  Prefix(Body(n, b)) \o Body(n, b) \in Seq(Byte)
  BY <1>1, Prefixes
<1> HIDE DEF Prefix, Body
<1> QED
  <2> SUFFICES ASSUME NEW record \in Records PROVE record \in Seq(Byte)
    OBVIOUS
  <2>1. PICK n \in Lengths, b \in Contents :
             record \in {Body(n, b), Prefix(Body(n, b)) \o Body(n, b)}
    BY DEF Records
  <2> QED BY <1>1, <1>2, <2>1

\* P2 addresses the chunk: no multiple of the chunk is where P2 wraps.
LEMMA InPlace ==
  ASSUME IInv, result = "busy"
  PROVE  P2 * Unit = off
<1>1. Base \in Nat \ {0} /\ Unit \in Nat \ {0} /\ ChunkSize \in Nat \ {0} /\ Capacity \in Nat
  BY SizesAssumption
<1>2. PICK k \in Nat : off = ChunkSize * k
  BY DEF IInv, AtChunk
<1>3. off \in Nat /\ off <= Capacity
  BY DEF IInv, TypeOK, AtChunk
<1>4. off < Unit * Base
  <2>1. off <= Unit * Base /\ Unit * Base \in Nat
    BY <1>1, <1>3, OffsetsAssumption
  <2>2. 0 \in 0 .. ChunkSize - 1
    BY <1>1
  <2>3. ChunkSize * k + 0 = off
    BY <1>1, <1>2, <1>3
  <2>4. off % ChunkSize = 0
    BY <1>1, <2>2, <2>3, Quotient
  <2>5. off # Unit * Base
    BY <2>4, OffsetsAssumption
  <2> QED BY <1>3, <2>1, <2>5
<1> DEFINE q == ChunkSize \div Unit
           j == q * k
<1>5. q \in Nat /\ ChunkSize = Unit * q
  <2>1. q \in Nat /\ ChunkSize = Unit * q + (ChunkSize % Unit)
    BY <1>1, Division
  <2>2. ChunkSize % Unit = 0
    BY OffsetsAssumption
  <2> QED BY <1>1, <2>1, <2>2
<1> HIDE DEF q
<1>6. j \in Nat /\ off = Unit * j
  BY <1>1, <1>2, <1>5
<1> HIDE DEF j
<1>7. off \div Unit = j
  <2>1. 0 \in 0 .. Unit - 1 /\ Unit * j + 0 = off
    BY <1>1, <1>3, <1>6
  <2> QED BY <1>1, <1>6, <2>1, Quotient
<1>8. j < Base
  <2> SUFFICES ASSUME Base <= j PROVE FALSE
    BY <1>1, <1>6
  <2>1. Unit * Base <= Unit * j
    BY <1>1, <1>6
  <2> QED BY <1>1, <1>4, <1>6, <2>1
<1>9. P2 = j
  BY <1>1, <1>6, <1>7, <1>8 DEF P2
<1> QED BY <1>1, <1>6, <1>9

\* A chunk is a part of what is sent, no longer than a chunk may be; it is
\* shorter only at the end.
LEMMA ChunkBounds ==
  ASSUME IInv
  PROVE  /\ ChunkEnd \in Nat /\ off <= ChunkEnd /\ ChunkEnd <= Len(data)
         /\ applet.above_2 => ChunkEnd <= off + ChunkSize
         /\ ChunkEnd # Len(data) => applet.above_2 /\ ChunkEnd = off + ChunkSize
         /\ Chunk \in Nat /\ ChunkEnd = off + Chunk
         /\ applet.above_2 => Chunk \in 0 .. ChunkSize
<1>1. off \in Nat /\ off <= Len(data) /\ Len(data) \in Nat /\ ChunkSize \in Nat
  BY SizesAssumption, DataTyped DEF IInv, TypeOK
<1>2. /\ ChunkEnd \in Nat /\ off <= ChunkEnd /\ ChunkEnd <= Len(data)
      /\ applet.above_2 => ChunkEnd <= off + ChunkSize
      /\ ChunkEnd # Len(data) => applet.above_2 /\ ChunkEnd = off + ChunkSize
  BY <1>1 DEF ChunkEnd
<1> HIDE DEF ChunkEnd
<1> QED BY <1>1, <1>2 DEF Chunk

\* The card, given a chunk, replaces the bytes of that chunk and no others.
LEMMA WrittenInPlace ==
  ASSUME IInv, result = "busy"
  PROVE  /\ Written \in [Cells -> Byte]
         /\ \A i \in Cells :
              Written[i] = IF off <= i /\ i < ChunkEnd THEN data[i + 1] ELSE store[i]
         /\ Fits => ChunkEnd <= Capacity
<1>1. /\ off \in Nat /\ Chunk \in Nat /\ ChunkEnd = off + Chunk /\ ChunkEnd <= Len(data)
      /\ store \in [Cells -> Byte]
      /\ P2 * Unit = off
  BY ChunkBounds, InPlace DEF IInv, TypeOK
<1>2. data \in Seq(Byte) /\ Capacity \in Nat /\ Cells \subseteq Nat
  BY DataTyped, SizesAssumption DEF IInv, TypeOK, Cells
<1> HIDE DEF data, Chunk, ChunkEnd, P2
<1>3. Written = [i \in Cells |-> IF i \in off .. off + Chunk - 1
                                   THEN data[off + i - off + 1] ELSE store[i]]
  BY <1>1 DEF Written
<1>4. ASSUME NEW i \in Cells
      PROVE  /\ Written[i] = IF off <= i /\ i < ChunkEnd THEN data[i + 1] ELSE store[i]
             /\ Written[i] \in Byte
  <2>1. CASE off <= i /\ i < ChunkEnd
    <3>1. i \in off .. off + Chunk - 1 /\ off + i - off + 1 = i + 1 /\ i + 1 \in 1 .. Len(data)
      BY <1>1, <1>2, <2>1
    <3> QED BY <1>2, <1>3, <2>1, <3>1
  <2>2. CASE ~(off <= i /\ i < ChunkEnd)
    <3>1. i \notin off .. off + Chunk - 1
      BY <1>1, <1>2, <2>2
    <3> QED BY <1>1, <1>3, <2>2, <3>1
  <2> QED BY <2>1, <2>2
<1>5. Written \in [Cells -> Byte]
  BY <1>3, <1>4
<1>6. Fits => ChunkEnd <= Capacity
  BY <1>1 DEF Fits
<1> QED BY <1>4, <1>5, <1>6
-----------------------------------------------------------------------------
\* The initial states satisfy the invariant: nothing was sent.
LEMMA InitIInv == Init => IInv
<1> SUFFICES ASSUME Init PROVE IInv
  OBVIOUS
<1> USE SizesAssumption
<1>1. ndef \in Seq(Byte)
  BY DEF Init
<1>2. 0 <= Len(data)
  BY <1>1, DataTyped
<1>3. 0 \in Byte /\ Cells \subseteq Nat
  BY DEF Byte, Cells
<1>4. TypeOK
  BY <1>1, <1>2, <1>3 DEF Init, TypeOK
<1>5. TornInOrder
  BY <1>3 DEF Init, TornInOrder
<1> QED BY <1>4, <1>5 DEF Init, IInv, AtChunk, SentWhole

\* Every step preserves the invariant.
LEMMA NextIInv == IInv /\ [Next]_vars => IInv'
<1> SUFFICES ASSUME IInv, [Next]_vars PROVE IInv'
  OBVIOUS
<1>1. CASE UNCHANGED vars
  <2>1. data' = data
    BY <1>1 DEF vars, data, Prefixed, Prefix
  <2> HIDE DEF data
  <2> QED BY <1>1, <2>1 DEF vars, IInv, TypeOK, AtChunk, SentWhole, TornInOrder
<1>2. ASSUME NEW record \in Records, set_ndef(record)
      PROVE  IInv'
  <2>1. /\ ndef' = record /\ off' = 0 /\ before' = store /\ result' = "busy"
        /\ UNCHANGED <<applet, store>>
    BY <1>2 DEF set_ndef
  <2>2. ndef' \in Seq(Byte)
    BY <1>2, <2>1, RecordsTyped
  <2>3. data' \in Seq(Byte)
    BY <2>2, Prefixes DEF data
  <2>4. Len(data') \in Nat
    BY <2>3
  <2> HIDE DEF data
  <2>5. TypeOK'
    BY <2>1, <2>2, <2>4 DEF IInv, TypeOK
  <2>6. AtChunk' /\ SentWhole'
    <3>1. 0 \in Nat /\ ChunkSize * 0 = 0 /\ 0 <= Capacity
      BY SizesAssumption
    <3> QED BY <2>1, <3>1 DEF AtChunk, SentWhole
  <2>7. TornInOrder'
    BY <2>1, SizesAssumption DEF TornInOrder, Cells
  <2> QED BY <2>5, <2>6, <2>7 DEF IInv
<1>3. CASE store_data
  <2>1. result = "busy" /\ UNCHANGED <<applet, before, ndef>>
    BY <1>3 DEF store_data
  <2>2. data' = data
    BY <2>1 DEF data, Prefixed, Prefix
  <2>3. /\ ChunkEnd \in Nat /\ off <= ChunkEnd /\ ChunkEnd <= Len(data)
        /\ applet.above_2 => ChunkEnd <= off + ChunkSize
        /\ ChunkEnd # Len(data) => applet.above_2 /\ ChunkEnd = off + ChunkSize
    BY ChunkBounds
  <2>4. /\ Written \in [Cells -> Byte]
        /\ \A i \in Cells :
             Written[i] = IF off <= i /\ i < ChunkEnd THEN data[i + 1] ELSE store[i]
        /\ Fits => ChunkEnd <= Capacity
    BY <2>1, WrittenInPlace
  <2>5. /\ off \in Nat /\ off <= Len(data) /\ Cells \subseteq Nat
        /\ Len(data) \in Nat /\ ChunkSize \in Nat \ {0}
    BY SizesAssumption, DataTyped DEF IInv, TypeOK, Cells
  <2>6. PICK k \in Nat : off = ChunkSize * k
    BY <2>1 DEF IInv, AtChunk
  <2> HIDE DEF data, ChunkEnd, Written, Fits
  <2>7. ASSUME store' \in {store, Written}, UNCHANGED off, result' \in {"status", "error"}
        PROVE  IInv'
    <3>1. TypeOK'
      BY <2>1, <2>2, <2>4, <2>7 DEF IInv, TypeOK
    <3>2. TornInOrder'
      <4>1. CASE store' = store
        BY <2>1, <2>2, <2>7, <4>1 DEF IInv, TornInOrder
      <4>2. CASE store' = Written
        BY <2>1, <2>2, <2>3, <2>4, <2>5, <2>7, <4>2 DEF IInv, TornInOrder
      <4> QED BY <2>7, <4>1, <4>2
    <3> QED BY <2>7, <3>1, <3>2 DEF IInv, AtChunk, SentWhole
  <2>8. CASE Stored
    <3>1. /\ Fits /\ store' = Written /\ off' = ChunkEnd
          /\ result' = IF ChunkEnd = Len(data) THEN "ok" ELSE "busy"
      BY <2>8 DEF Stored
    <3>2. TypeOK'
      BY <2>1, <2>2, <2>3, <2>4, <3>1 DEF IInv, TypeOK
    <3>3. TornInOrder'
      <4>1. ASSUME NEW i \in Cells, i < ChunkEnd PROVE store'[i] = data[i + 1]
        BY <2>4, <2>5, <3>1, <4>1 DEF IInv, TornInOrder
      <4>2. ASSUME NEW i \in Cells, applet.above_2, i >= ChunkEnd + ChunkSize
            PROVE  store'[i] = before[i]
        <5>1. ~(i < ChunkEnd) /\ i >= off + ChunkSize
          BY <2>3, <2>5, <4>2
        <5> QED BY <2>4, <3>1, <4>2, <5>1 DEF IInv, TornInOrder
      <4> QED BY <2>1, <2>2, <3>1, <4>1, <4>2 DEF TornInOrder
    <3>4. AtChunk'
      <4>1. CASE ChunkEnd = Len(data)
        BY <3>1, <4>1 DEF AtChunk
      <4>2. CASE ChunkEnd # Len(data)
        <5>1. ChunkEnd = ChunkSize * (k + 1) /\ k + 1 \in Nat
          BY <2>3, <2>5, <2>6, <4>2
        <5> QED BY <2>1, <2>3, <2>4, <3>1, <4>2, <5>1 DEF AtChunk
      <4> QED BY <4>1, <4>2
    <3>5. SentWhole'
      BY <2>2, <2>4, <3>1 DEF SentWhole
    <3> QED BY <3>2, <3>3, <3>4, <3>5 DEF IInv
  <2>9. CASE Refused
    BY <2>7, <2>9 DEF Refused
  <2>10. CASE SendFails
    BY <2>7, <2>10 DEF SendFails
  <2> QED BY <1>3, <2>8, <2>9, <2>10 DEF store_data
<1> QED BY <1>1, <1>2, <1>3 DEF Next

LEMMA Invariant == Spec => []IInv
  BY InitIInv, NextIInv, PTL DEF Spec
-----------------------------------------------------------------------------
\* The call, its record and the card keep their type.
THEOREM StorageTyped == Spec => []TypeOK
<1>1. IInv => TypeOK
  BY DEF IInv
<1> QED BY <1>1, Invariant, PTL

\* Whenever a call of set_ndef is torn, the card has the new record up to some
\* chunk and its earlier bytes after it: off as u16 / 4 as u8 never points
\* anywhere but to the chunk that follows what was stored.
THEOREM TornOnlyInOrder == Spec => []TornInOrder
<1>1. IInv => TornInOrder
  BY DEF IInv
<1> QED BY <1>1, Invariant, PTL

\* The chunks of set_ndef fit their APDU on every channel, for any sizes that
\* leave the channels' overhead room.
THEOREM EveryChunkFramed == Spec => []ChunksAreFramed
<1>1. IInv => ChunksAreFramed
  <2> SUFFICES ASSUME IInv, applet.above_2 PROVE Framed(applet.channel, Chunk)
    BY DEF ChunksAreFramed
  <2>1. applet.channel \in {"none", "V1", "V2"}
    BY DEF IInv, TypeOK, Applets
  <2> QED BY <2>1, ChunkBounds, RoomForOverhead
<1> QED BY <1>1, Invariant, PTL

\* After Ok with SW 9000 the card shows the record and nothing else, for
\* records of any length and contents.
THEOREM WholeWhenOk == Spec => []StoredWhole
<1>1. IInv => StoredWhole
  <2> SUFFICES ASSUME IInv, result = "ok", applet.above_2 \/ Prefixed(ndef)
               PROVE  LET body == IF Prefixed(ndef) THEN SubSeq(ndef, 3, Len(ndef)) ELSE ndef
                      IN  /\ Shown(Len(body)) /\ Len(body) + 2 <= Capacity
                          /\ \A i \in 1 .. Len(body) : store[i + 1] = body[i]
    BY DEF StoredWhole
  <2>1. /\ ndef \in Seq(Byte) /\ Len(ndef) \in Nat
        /\ Len(data) \in Nat /\ Len(data) <= Capacity /\ Capacity \in Nat
        /\ \A i \in Cells : i < Len(data) => store[i] = data[i + 1]
    BY SizesAssumption, DataTyped DEF IInv, TypeOK, SentWhole, TornInOrder
  <2>2. 2 <= Len(data) => /\ store[0] = data[1] /\ store[1] = data[2]
    BY <2>1 DEF Cells
  <2>3. CASE Prefixed(ndef)
    <3>1. data = ndef /\ 2 <= Len(ndef) /\ ndef[1] * Base + ndef[2] = Len(ndef) - 2
      BY <2>3 DEF data, Prefixed
    <3> DEFINE body == SubSeq(ndef, 3, Len(ndef))
    <3>2. /\ Len(body) = Len(ndef) - 2
          /\ \A i \in 1 .. Len(body) : body[i] = ndef[i + 2]
      <4>1. \A i \in 3 .. Len(ndef) : ndef[i] \in Byte
        BY <2>1
      <4>2. /\ Len(body) = IF 3 <= Len(ndef) THEN Len(ndef) - 3 + 1 ELSE 0
            /\ \A i \in 1 .. Len(ndef) - 3 + 1 : body[i] = ndef[3 + i - 1]
        <5>1. 3 \in Int /\ Len(ndef) \in Int
          BY <2>1
        <5> QED BY <4>1, <5>1, SubSeqProperties
      <4> HIDE DEF body
      <4>3. Len(body) = Len(ndef) - 2 /\ Len(ndef) \in Nat
        <5>1. Len(ndef) \in Nat /\ 2 <= Len(ndef)
          BY <2>1, <3>1
        <5>2. CASE 3 <= Len(ndef)
          <6>1. Len(body) = Len(ndef) - 3 + 1
            BY <4>2, <5>2
          <6> QED BY <5>1, <6>1
        <5>3. CASE Len(ndef) = 2
          <6>1. Len(body) = 0
            BY <4>2, <5>3
          <6> QED BY <5>1, <5>3, <6>1
        <5>4. \A n \in Nat : 2 <= n => n = 2 \/ 3 <= n
          OBVIOUS
        <5> QED BY <5>1, <5>2, <5>3, <5>4, Zenon
      <4>4. ASSUME NEW i \in 1 .. Len(body) PROVE body[i] = ndef[i + 2]
        <5>1. i \in 1 .. Len(ndef) - 3 + 1 /\ 3 + i - 1 = i + 2
          BY <4>3
        <5> QED BY <4>2, <5>1
      <4> QED BY <4>3, <4>4
    <3>3. Shown(Len(body)) /\ Len(body) + 2 <= Capacity
      BY <2>1, <2>2, <3>1, <3>2 DEF Shown
    <3> HIDE DEF body
    <3>4. ASSUME NEW i \in 1 .. Len(body) PROVE store[i + 1] = body[i]
      <4>1. i + 1 \in Cells /\ i + 1 < Len(data)
        BY <2>1, <3>1, <3>2 DEF Cells
      <4> QED BY <2>1, <3>1, <3>2, <4>1
    <3> QED BY <2>3, <3>3, <3>4 DEF body
  <2>4. CASE ~Prefixed(ndef)
    <3>1. data = Prefix(ndef) \o ndef
      BY <2>4 DEF data
    <3>2. /\ Len(data) = Len(ndef) + 2
          /\ data[1] = (Len(ndef) \div Base) % Base /\ data[2] = Len(ndef) % Base
          /\ \A i \in 1 .. Len(ndef) : data[i + 2] = ndef[i]
      BY <2>1, <3>1, Prefixes
    <3> HIDE DEF data
    <3>3. Len(ndef) < Base * Base
      <4>1. Len(ndef) < Unit * Base
        BY <2>1, <3>2, OffsetsAssumption, SizesAssumption
      <4> QED BY <2>1, <4>1, OffsetsAssumption, SizesAssumption
    <3>4. Shown(Len(ndef)) /\ Len(ndef) + 2 <= Capacity
      BY <2>1, <2>2, <3>2, <3>3, TwoDigits DEF Shown
    <3>5. ASSUME NEW i \in 1 .. Len(ndef) PROVE store[i + 1] = ndef[i]
      <4>1. i + 1 \in Cells /\ i + 1 < Len(data)
        BY <2>1, <3>2 DEF Cells
      <4> QED BY <2>1, <3>2, <4>1
    <3> QED BY <2>4, <3>4, <3>5
  <2> QED BY <2>3, <2>4
<1> QED BY <1>1, Invariant, PTL
=============================================================================
