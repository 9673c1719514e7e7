---------------------------- MODULE NdefStorage ----------------------------
(***************************************************************************)
(* set_ndef of keycard.rs.  For applets above version 2 the NDEF record is *)
(* given a length prefix if it has none and written with one STORE DATA    *)
(* per chunk; older ones get it as it is, with one SET NDEF.  The card,    *)
(* external, writes a chunk at the offset it finds in P2, which counts     *)
(* units of four bytes in one byte, and a reader may be shown the record   *)
(* between any two exchanges.                                              *)
(*                                                                         *)
(* The length of a command is one byte of its APDU: both secure channels   *)
(* make a command longer before apdu.rs counts it.  Every exchange may be  *)
(* lost on its way or on its way back, or refused.                         *)
(*                                                                         *)
(* An operator named Bug... is a plausible mistake in the definition that  *)
(* follows it, used to show that a property would notice.                  *)
(***************************************************************************)
EXTENDS Naturals, Sequences

CONSTANTS
  Base,       \* values of a byte: 256
  ChunkSize,  \* NDEF_MAX_CHUNK_SIZE: 220
  Unit,       \* bytes per step of P2: 4
  Block,      \* SC_BLOCK_SIZE of V1, and the length of its MAC: 16
  Header,     \* bytes V2 puts before the data: 5
  Tag,        \* and after it: 16
  Capacity,   \* bytes the card holds
  Contents,   \* bytes the callers' records are made of
  Lengths     \* bound: the lengths of the callers' records

Byte == 0 .. Base - 1

ASSUME SizesAssumption ==
  /\ Base \in Nat \ {0, 1} /\ Unit \in Nat \ {0} /\ ChunkSize \in Nat \ {0}
  /\ Block \in Nat \ {0} /\ Header \in Nat /\ Tag \in Nat
  /\ Capacity \in Nat /\ Lengths \subseteq Nat
  /\ Contents \subseteq Byte

\* 220 is a multiple of 4, 1024 is none of 220, and the card holds no more than
\* P2 can address.
ASSUME OffsetsAssumption ==
  /\ ChunkSize % Unit = 0
  /\ (Unit * Base) % ChunkSize # 0
  /\ 2 <= Capacity /\ Capacity <= Unit * Base
  /\ Unit * Base < Base * Base

\* A chunk leaves room for what the channels put around it: 252 and 241 of 255.
ASSUME FramingAssumption ==
  ChunkSize + 2 * Block < Base /\ Header + ChunkSize + Tag < Base

VARIABLES
  applet,  \* is it above version 2, and the channel its commands take
  store,   \* the bytes on the card
  before,  \* the same when the last call began
  ndef,    \* the record of the last call
  off,     \* set_ndef's off
  result   \* of the last call: Ok with SW 9000 or another, Err, or "busy"

vars == <<applet, store, before, ndef, off, result>>

Cells == 0 .. Capacity - 1

Prefixed(record) ==
  Len(record) >= 2 /\ record[1] * Base + record[2] = Len(record) - 2

Prefix(record) == <<(Len(record) \div Base) % Base, Len(record) % Base>>

\* What is sent.
data == IF ~applet.above_2 \/ Prefixed(ndef) THEN ndef ELSE Prefix(ndef) \o ndef

\* No applet of version 2 or below has Secure Channel V2.
Applets == [above_2 : {TRUE}, channel : {"none", "V1", "V2"}]
           \union [above_2 : {FALSE}, channel : {"none", "V1"}]

TypeOK ==
  /\ applet \in Applets
  /\ store \in [Cells -> Byte] /\ before \in [Cells -> Byte]
  /\ ndef \in Seq(Byte)
  /\ off \in Nat /\ off <= Len(data)
  /\ result \in {"none", "busy", "ok", "status", "error"}

Init ==
  /\ applet \in Applets
  /\ store = [i \in Cells |-> 0] /\ before = store
  /\ ndef = <<>> /\ off = 0
  /\ result = "none"
-----------------------------------------------------------------------------
BugSetNdef(record) ==   \* takes up where a call that failed left off
  /\ result # "busy"
  /\ ndef' = record /\ before' = store
  /\ off' = IF result = "error" THEN off ELSE 0
  /\ result' = "busy"
  /\ UNCHANGED <<applet, store>>

set_ndef(record) ==
  /\ result # "busy"
  /\ ndef' = record /\ off' = 0 /\ before' = store
  /\ result' = "busy"
  /\ UNCHANGED <<applet, store>>

BugP2 == off % Base   \* the offset in bytes

\* (off as u16 / 4) as u8
P2 == (off \div Unit) % Base

BugChunkEnd ==   \* as much as one APDU takes
  IF applet.above_2 /\ off + Base - 1 <= Len(data) THEN off + Base - 1 ELSE Len(data)

\* SET NDEF is not chunked.
ChunkEnd ==
  IF applet.above_2 /\ off + ChunkSize <= Len(data) THEN off + ChunkSize ELSE Len(data)

Chunk == ChunkEnd - off

\* The card wrote the chunk where P2 says.
Fits == P2 * Unit + Chunk <= Capacity
Written ==
  [i \in Cells |-> IF i \in P2 * Unit .. P2 * Unit + Chunk - 1
                     THEN data[off + i - P2 * Unit + 1] ELSE store[i]]
-----------------------------------------------------------------------------
(***************************************************************************)
(* protected_command and serialize: the length of a command with so many   *)
(* bytes of data, the byte LC that says so, and which lengths a channel    *)
(* refuses: V1 what it sealed, V2 what it is to seal.                      *)
(***************************************************************************)
Padded(n) == (n \div Block + 1) * Block

SealedLength(channel, n) ==
  CASE channel = "none" -> n
    [] channel = "V1" -> Block + Padded(n)
    [] channel = "V2" -> Header + n + Tag

TooLarge(channel, n) ==
  \/ channel = "V1" /\ SealedLength(channel, n) > Base - 1
  \/ channel = "V2" /\ n > Base - 1

LC(channel, n) == SealedLength(channel, n) % Base

Framed(channel, n) == ~TooLarge(channel, n) /\ LC(channel, n) = SealedLength(channel, n)
-----------------------------------------------------------------------------
\* The loop's last pass is the one that leaves nothing to send.
Stored ==
  /\ Framed(applet.channel, Chunk)
  /\ Fits /\ store' = Written
  /\ off' = ChunkEnd
  /\ result' = IF ChunkEnd = Len(data) THEN "ok" ELSE "busy"

BugRefused ==   \* goes on with the next chunk
  /\ UNCHANGED store
  /\ off' = ChunkEnd
  /\ result' = IF ChunkEnd = Len(data) THEN "status" ELSE "busy"

\* The record is too long, the card cannot make out the command, or it has
\* another reason.
Refused ==
  /\ ~TooLarge(applet.channel, Chunk)
  /\ result' = "status" /\ UNCHANGED <<store, off>>

BugSendFails ==   \* starts over
  UNCHANGED <<store, result>> /\ off' = 0

\* The exchange was lost, or the channel refused it.
SendFails ==
  /\ store' \in {store} \union
                 IF Fits /\ Framed(applet.channel, Chunk) THEN {Written} ELSE {}
  /\ result' = "error" /\ UNCHANGED off

store_data ==
  /\ result = "busy"
  /\ Stored \/ Refused \/ SendFails
  /\ UNCHANGED <<applet, before, ndef>>

\* Records with and without a prefix of their own.
Body(n, byte) == [i \in 1 .. n |-> byte]
Records == {Body(n, b) : n \in Lengths, b \in Contents}
           \union {Prefix(Body(n, b)) \o Body(n, b) : n \in Lengths, b \in Contents}

Next == store_data \/ \E record \in Records : set_ndef(record)

\* Every exchange comes to an end: the call goes on until it returns.
Spec == Init /\ [][Next]_vars /\ WF_vars(store_data)
-----------------------------------------------------------------------------
(***************************************************************************)
(* Properties.                                                             *)
(***************************************************************************)

\* What a reader of the card is shown: as many bytes as the first two say.
Shown(n) == n = store[0] * Base + store[1]

\* After Ok with SW 9000 the card shows the record, all of it and nothing else,
\* whatever earlier calls left there and wherever they were torn; a record too
\* long for P2 to address is refused, never wrapped onto its own start.  (Older
\* applets are given no length: there the record must have its own.)
StoredWhole ==
  (result = "ok" /\ (applet.above_2 \/ Prefixed(ndef))) =>
    LET body == IF Prefixed(ndef) THEN SubSeq(ndef, 3, Len(ndef)) ELSE ndef
    IN  /\ Shown(Len(body)) /\ Len(body) + 2 <= Capacity
        /\ \A i \in 1 .. Len(body) : store[i + 1] = body[i]

\* At every moment of a call, and after one that failed, the card holds the new
\* record up to off and the earlier bytes beyond the chunk in flight: nothing is
\* written out of order, and no chunk follows one that failed.
TornInOrder ==
  \A i \in Cells :
    /\ i < off => store[i] = data[i + 1]
    /\ applet.above_2 /\ i >= off + ChunkSize => store[i] = before[i]

\* Whichever channel carries it, a chunk of a record neither makes the channel
\* refuse it nor, sealed, wraps the length byte of its APDU, so that only the card
\* decides whether the record is stored.
ChunksAreFramed ==
  (result = "busy" /\ applet.above_2) => Framed(applet.channel, Chunk)

\* set_ndef returns: a refusal or a failure in the middle ends the loop, and so
\* does the end of the record.
Returns == result = "busy" ~> result # "busy"
=============================================================================
