------------------------- MODULE KeyCommands_proofs -------------------------
(***************************************************************************)
(* Proofs about KeyCommands and KeyMaterial, for any set of path           *)
(* components and any limit on their number, any seeds, word indexes and   *)
(* issuers.                                                                *)
(*                                                                         *)
(* The first part is about which key a command works with, without what it *)
(* carries.  The second shows that a command with its data is the command  *)
(* without it, follows every parser through every response that the card   *)
(* has for it, and proves with that what the caller gets and loads.        *)
(***************************************************************************)
EXTENDS KeyMaterial, BerTlv_proofs, SequenceTheorems

IInv == TypeOK /\ KeyIsTheNamedOne /\ MovesAsAsked /\ PinlessIsMeant

Sources == {SOURCE_MASTER, SOURCE_PARENT, SOURCE_CURRENT}

\* A path is a first component and a sequence of numbers.
LEMMA PathType ==
  ASSUME NEW path \in Paths
  PROVE  path.first \in {"m", "..", ".", ""} /\ path.numbers \in Keys
<1>1. MaxComponents + 1 \in Nat
  BY BoundsAssumption
<1>2. BoundedSeq(Components, MaxComponents + 1) \subseteq Keys
  BY <1>1 DEF BoundedSeq, SeqOf, Keys
<1> QED BY <1>2 DEF Paths

\* Keys are closed under concatenation and under dropping the last component.
LEMMA ConcatType ==
  ASSUME NEW s \in Keys, NEW t \in Keys
  PROVE  s \o t \in Keys
  BY ConcatProperties DEF Keys

LEMMA FrontType ==
  ASSUME NEW s \in Keys
  PROVE  Front(s) \in Keys
<1>1. Len(s) \in Nat /\ \A i \in 1..Len(s) : s[i] \in Components
  BY LenProperties, ElementOfSeq DEF Keys
<1>2. Len(s) - 1 \in Int /\ \A i \in 1..(Len(s) - 1) : s[i] \in Components
  BY <1>1
<1> QED BY <1>2, SubSeqProperties DEF Front, Keys

\* The card reads from P1 the mode and the source that derive_p1 put there.
LEMMA P1RoundTrip ==
  ASSUME NEW src \in Sources, NEW make_current \in BOOLEAN
  PROVE  /\ Mode(derive_p1(src, make_current))
              = IF make_current THEN DERIVE_AND_MAKE_CURRENT ELSE DERIVE
         /\ Source(derive_p1(src, make_current)) = src
  BY DEF Sources, SOURCE_MASTER, SOURCE_PARENT, SOURCE_CURRENT, DERIVE,
         DERIVE_AND_MAKE_CURRENT, derive_p1, Mode, Source

\* Only a path that starts at "m" has the master key for its source.
LEMMA MasterSource ==
  ASSUME NEW path
  PROVE  source(path) \in Sources /\ (source(path) = SOURCE_MASTER => path.first = "m")
<1>1. SOURCE_PARENT # SOURCE_MASTER /\ SOURCE_CURRENT # SOURCE_MASTER
  BY DEF SOURCE_MASTER, SOURCE_PARENT, SOURCE_CURRENT
<1>2. CASE path.first = "m"
  BY <1>2 DEF source, Sources
<1>3. CASE path.first # "m"
  <2>1. source(path) \in {SOURCE_PARENT, SOURCE_CURRENT}
    BY <1>3 DEF source
  <2> QED BY <1>1, <2>1 DEF Sources
<1> QED BY <1>2, <1>3

\* The key that source(path) and the numbers lead the card to is the key the
\* path names.
LEMMA NamedKey ==
  ASSUME TypeOK, NEW path \in Paths, Resolvable(source(path))
  PROVE  /\ source(path) \in Sources
         /\ Named(path) = Base(source(path)) \o path.numbers
         /\ Named(path) \in Keys
<1>1. path.first \in {"m", "..", ".", ""} /\ path.numbers \in Keys /\ current \in Keys
  BY PathType DEF TypeOK
<1>2. CASE path.first = "m"
  <2>1. source(path) = SOURCE_MASTER /\ Named(path) = path.numbers
    BY <1>2 DEF source, Named
  <2>2. Base(source(path)) = <<>>
    BY <2>1 DEF Base
  <2> QED BY <1>1, <2>1, <2>2, ConcatEmptySeq DEF Keys, Sources
<1>3. CASE path.first = ".."
  <2>1. source(path) = SOURCE_PARENT
    BY <1>3 DEF source
  <2>2. current # <<>>
    BY <2>1 DEF Resolvable
  <2>3. Base(source(path)) = Front(current)
    BY <2>1 DEF Base, SOURCE_MASTER, SOURCE_PARENT
  <2>4. Named(path) = Front(current) \o path.numbers
    BY <1>3, <2>2 DEF Named
  <2>5. Front(current) \in Keys
    BY <1>1, FrontType
  <2>6. Front(current) \o path.numbers \in Keys
    BY <1>1, <2>5, ConcatType
  <2> QED BY <2>1, <2>3, <2>4, <2>6 DEF Sources
<1>4. CASE path.first \in {".", ""}
  <2>1. source(path) = SOURCE_CURRENT
    BY <1>4 DEF source
  <2>2. Base(source(path)) = current
    BY <2>1 DEF Base, SOURCE_MASTER, SOURCE_PARENT, SOURCE_CURRENT
  <2>3. Named(path) = current \o path.numbers
    BY <1>4 DEF Named
  <2>4. current \o path.numbers \in Keys
    BY <1>1, ConcatType
  <2> QED BY <2>1, <2>2, <2>3, <2>4 DEF Sources
<1> QED BY <1>1, <1>2, <1>3, <1>4

\* What the invariant says of the last command, the key it worked with included.
LastFine ==
  /\ last \in [asked : [op : Ops, named : Keys \union {None}, moves : BOOLEAN],
               used : Keys, moved : BOOLEAN]
  /\ last.asked.named = None => last.asked.op = "export_bip85"
  /\ KeyIsTheNamedOne
  /\ MovesAsAsked

\* The invariant, in two parts: the keys of the card and the last command.
LEMMA Parts ==
  IInv <=> /\ current \in Keys
           /\ pinless \in Keys \union {None} /\ meant \in Keys \union {None}
           /\ PinlessIsMeant
           /\ LastFine
  BY DEF IInv, TypeOK, LastFine

LEMMA PartsNext ==
  IInv' <=> /\ current' \in Keys
            /\ pinless' \in Keys \union {None} /\ meant' \in Keys \union {None}
            /\ PinlessIsMeant'
            /\ LastFine'
  BY DEF IInv, TypeOK, LastFine

\* The initial state satisfies the invariant.
LEMMA InitIInv == Init => IInv
<1> SUFFICES ASSUME Init PROVE IInv
  OBVIOUS
<1>1. <<>> \in Keys /\ <<>> # None
  BY EmptySeq, NoneAssumption DEF Keys
<1>2. last = [asked |-> [op |-> "none", named |-> <<>>, moves |-> FALSE],
              used |-> <<>>, moved |-> FALSE]
  BY DEF Init, Request
<1>3. "none" \in Ops
  BY DEF Ops
<1>4. last \in [asked : [op : Ops, named : Keys \union {None}, moves : BOOLEAN],
                used : Keys, moved : BOOLEAN]
  BY <1>1, <1>2, <1>3
<1>5. KeyIsTheNamedOne /\ MovesAsAsked /\ last.asked.named # None
  BY <1>1, <1>2 DEF KeyIsTheNamedOne, MovesAsAsked
<1> QED BY <1>1, <1>4, <1>5, Parts DEF Init, PinlessIsMeant, LastFine

\* What is left to show of a command: that it used the key that was named, and
\* did with it what was asked.
LEMMA ExecutePreserves ==
  ASSUME IInv, NEW op \in Ops, NEW named \in Keys \union {None}, NEW moves \in BOOLEAN,
         NEW key \in Keys,
         named = None => op = "export_bip85",
         op \notin {"export_current_key", "export_bip85"} => key = named,
         Execute(Request(op, named, moves), key, moves)
  PROVE  IInv'
<1>1. /\ last' = [asked |-> [op |-> op, named |-> named, moves |-> moves],
                  used |-> key, moved |-> moves]
      /\ current' = IF moves THEN key ELSE current
      /\ UNCHANGED <<pinless, meant>>
  BY DEF Execute, Request
<1>2. last' \in [asked : [op : Ops, named : Keys \union {None}, moves : BOOLEAN],
                 used : Keys, moved : BOOLEAN]
  BY <1>1
<1>3. last'.asked.named = None => last'.asked.op = "export_bip85"
  BY <1>1
<1>4. KeyIsTheNamedOne'
  BY <1>1 DEF KeyIsTheNamedOne
<1>5. MovesAsAsked'
  BY <1>1 DEF MovesAsAsked
<1>6. current' \in Keys
  BY <1>1, Parts
<1> QED BY <1>1, <1>2, <1>3, <1>4, <1>5, <1>6, Parts, PartsNext DEF LastFine, PinlessIsMeant

\* The modes of P1 exclude each other.
LEMMA Modes ==
  /\ Mode(CURRENT) = CURRENT /\ CURRENT \notin {DERIVE, DERIVE_AND_MAKE_CURRENT, PINLESS}
  /\ Mode(PINLESS) = PINLESS /\ PINLESS \notin {DERIVE, DERIVE_AND_MAKE_CURRENT, CURRENT}
  /\ \A mode \in {DERIVE, DERIVE_AND_MAKE_CURRENT} : mode \notin {CURRENT, PINLESS}
  /\ DERIVE # DERIVE_AND_MAKE_CURRENT
  BY DEF Mode, CURRENT, DERIVE, DERIVE_AND_MAKE_CURRENT, PINLESS

\* A command whose P1 was composed by derive_p1 is executed with the key that
\* the source and the numbers lead to.
LEMMA Derived ==
  ASSUME NEW asked, NEW make_current \in BOOLEAN, NEW src \in Sources, NEW data,
         ExecuteP1(asked, derive_p1(src, make_current), data)
  PROVE  Resolvable(src) /\ Execute(asked, Base(src) \o data, make_current)
<1>1. CASE make_current
  <2>1. /\ Mode(derive_p1(src, make_current)) = DERIVE_AND_MAKE_CURRENT
        /\ Source(derive_p1(src, make_current)) = src
    BY <1>1, P1RoundTrip
  <2> QED BY <1>1, <2>1, Modes, Zenon DEF ExecuteP1, Execute
<1>2. CASE ~make_current
  <2>1. /\ Mode(derive_p1(src, make_current)) = DERIVE
        /\ Source(derive_p1(src, make_current)) = src
    BY <1>2, P1RoundTrip
  <2> QED BY <1>2, <2>1, Modes, Zenon DEF ExecuteP1, Execute
<1> QED BY <1>1, <1>2

\* Every step preserves the invariant.
LEMMA NextIInv == IInv /\ [Next]_vars => IInv'
<1> SUFFICES ASSUME IInv, [Next]_vars PROVE IInv'
  OBVIOUS
<1>1. TypeOK /\ current \in Keys
  BY DEF IInv, TypeOK
<1>2. CASE UNCHANGED vars
  BY <1>2 DEF vars, IInv, TypeOK, KeyIsTheNamedOne, MovesAsAsked, PinlessIsMeant
<1>3. CASE sign
  <2>1. Execute(Request("sign", current, FALSE), current, FALSE)
    BY <1>3, Modes, Zenon DEF sign, ExecuteP1
  <2>2. "sign" \in Ops /\ current # None
    BY <1>1, NoneAssumption DEF Ops, Keys
  <2> QED BY <1>1, <2>1, <2>2, ExecutePreserves, Zenon
<1>4. CASE sign_pinless
  <2>1. Execute(Request("sign_pinless", meant, FALSE), pinless, FALSE) /\ pinless # None
    BY <1>4, Modes, Zenon DEF sign_pinless, ExecuteP1
  <2>2. pinless \in Keys /\ meant = pinless
    BY <2>1 DEF IInv, TypeOK, PinlessIsMeant
  <2>3. "sign_pinless" \in Ops
    BY DEF Ops
  <2> QED BY <2>1, <2>2, <2>3, ExecutePreserves, Zenon
<1>5. CASE reset_pinless_path
  BY <1>5 DEF reset_pinless_path, set_pinless_path_raw, IInv, TypeOK, KeyIsTheNamedOne, MovesAsAsked, PinlessIsMeant
<1>6. ASSUME NEW op \in Ops, NEW named \in Keys, NEW make_current \in BOOLEAN,
             NEW src \in Sources, NEW data \in Keys,
             Resolvable(src) => Base(src) \o data \in Keys,
             op # "export_current_key" /\ Resolvable(src) => named = Base(src) \o data,
             ExecuteP1(Request(op, named, make_current), derive_p1(src, make_current), data)
      PROVE  IInv'
  <2>1. Resolvable(src) /\ Execute(Request(op, named, make_current), Base(src) \o data, make_current)
    BY <1>6, Derived
  <2> QED BY <1>6, <2>1, ExecutePreserves, NoneAssumption DEF Keys
<1>7. CASE export_current_key
  <2>1. CURRENT = SOURCE_MASTER /\ SOURCE_MASTER \in Sources /\ Base(SOURCE_MASTER) = <<>>
    BY DEF CURRENT, SOURCE_MASTER, Sources, Base
  <2>2. <<>> \in Keys /\ <<>> \o <<>> \in Keys
    BY DEF Keys
  <2>3. ExecuteP1(Request("export_current_key", current, FALSE),
                  derive_p1(SOURCE_MASTER, FALSE), <<>>)
    BY <1>7, <2>1 DEF export_current_key, export_key_raw
  <2> QED BY <1>1, <1>6, <2>1, <2>2, <2>3 DEF Ops
<1>8. CASE load_key
  BY <1>8 DEF load_key, IInv, TypeOK, Keys, KeyIsTheNamedOne, MovesAsAsked, PinlessIsMeant
<1>9. ASSUME NEW path \in Paths, NEW make_current \in BOOLEAN,
             sign_with_path(path, make_current) \/ export_key(path, make_current)
      PROVE  IInv'
  <2> DEFINE P1 == derive_p1(source(path), make_current)
  <2>1. PICK op \in {"sign_with_path", "export_key"} :
          ExecuteP1(Request(op, Named(path), make_current), P1, path.numbers)
    BY <1>9 DEF sign_with_path, export_key, export_key_raw
  <2>2. source(path) \in Sources /\ path.numbers \in Keys
    BY PathType, MasterSource
  <2>3. Resolvable(source(path))
    BY <2>1, <2>2, Derived
  <2>4. Named(path) = Base(source(path)) \o path.numbers /\ Named(path) \in Keys
    BY <1>1, <2>3, NamedKey
  <2> QED BY <1>6, <2>1, <2>2, <2>4 DEF Ops
<1>10. ASSUME NEW path \in Paths, NEW op \in {"derive_key", "export_lee_key"},
              NEW moves \in BOOLEAN,
              ExecuteFrom(Request(op, Named(path), moves), source(path), path.numbers, moves)
       PROVE  IInv'
  <2>1. /\ Resolvable(source(path))
        /\ Execute(Request(op, Named(path), moves), Base(source(path)) \o path.numbers, moves)
    BY <1>10 DEF ExecuteFrom
  <2>2. Named(path) = Base(source(path)) \o path.numbers /\ Named(path) \in Keys
    BY <1>1, <2>1, NamedKey
  <2> QED BY <2>1, <2>2, ExecutePreserves, NoneAssumption DEF Ops, Keys
<1>11. ASSUME NEW path \in Paths, set_pinless_path(path)
       PROVE  IInv'
  <2>1. path.first = "m"
    BY <1>11, MasterSource DEF set_pinless_path
  <2>2. Named(path) = path.numbers /\ path.numbers \in Keys
    BY <2>1, PathType DEF Named
  <2> QED
    BY <1>11, <2>2
       DEF set_pinless_path, set_pinless_path_raw, IInv, TypeOK, KeyIsTheNamedOne, MovesAsAsked, PinlessIsMeant
<1>12. ASSUME NEW path \in Paths, export_bip85(path)
       PROVE  IInv'
  <2>1. Base(SOURCE_MASTER) = <<>> /\ path.numbers \in Keys
    BY PathType DEF Base
  <2>2. <<>> \o path.numbers \in Keys
    BY <2>1 DEF Keys
  <2>3. Named(path) \in Keys \union {None}
    BY <1>1, <2>1, FrontType, ConcatType DEF Named
  <2>4. Execute(Request("export_bip85", Named(path), FALSE), <<>> \o path.numbers, FALSE)
    BY <1>12, <2>1 DEF export_bip85, ExecuteFrom
  <2> QED BY <2>2, <2>3, <2>4, ExecutePreserves DEF Ops
<1>13. ASSUME NEW path \in Paths, ecdh(path)
       PROVE  IInv'
  <2>1. path.first = "m"
    BY <1>13, MasterSource DEF ecdh
  <2>2. Named(path) = path.numbers /\ path.numbers \in Keys
    BY <2>1, PathType DEF Named
  <2>3. derive_p1(SOURCE_MASTER, FALSE) = DERIVE /\ SOURCE_MASTER \in Sources
        /\ Base(SOURCE_MASTER) \o path.numbers = path.numbers
    BY <2>2 DEF derive_p1, SOURCE_MASTER, DERIVE, Sources, Base, Keys
  <2>4. ExecuteP1(Request("ecdh", Named(path), FALSE), derive_p1(SOURCE_MASTER, FALSE), path.numbers)
    BY <1>13, <2>3 DEF ecdh
  <2> QED BY <1>6, <2>2, <2>3, <2>4 DEF Ops
<1>14. ASSUME NEW path \in Paths, derive_key(path) \/ export_lee_key(path)
       PROVE  IInv'
  BY <1>10, <1>14 DEF derive_key, export_lee_key
<1> QED BY <1>2, <1>3, <1>4, <1>5, <1>7, <1>8, <1>9, <1>11, <1>12, <1>13, <1>14 DEF Next

LEMMA Invariant == Spec => []IInv
  BY InitIInv, NextIInv, PTL DEF Spec

\* The state of the card's keys and the record of the last command keep their
\* type; only EXPORT BIP85 is executed for a path that names no key.
THEOREM KeyTypes == Spec => []TypeOK
<1>1. IInv => TypeOK
  BY DEF IInv
<1> QED BY <1>1, Invariant, PTL

\* Every command but export_current_key and export_bip85 works with the key its
\* path names, for all paths (KeyPath and the P1 of SIGN, EXPORT KEY, DERIVE KEY,
\* EXPORT LEE and ECDH).
THEOREM NamedKeyIsUsed == Spec => []KeyIsTheNamedOne
<1>1. IInv => KeyIsTheNamedOne
  BY DEF IInv
<1> QED BY <1>1, Invariant, PTL

\* The current key moves exactly when the caller asked for it.
THEOREM MovesOnlyAsAsked == Spec => []MovesAsAsked
<1>1. IInv => MovesAsAsked
  BY DEF IInv
<1> QED BY <1>1, Invariant, PTL

\* The PIN-less path is the path the caller named.
THEOREM PinlessAbsolute == Spec => []PinlessIsMeant
<1>1. IInv => PinlessIsMeant
  BY DEF IInv
<1> QED BY <1>1, Invariant, PTL
-----------------------------------------------------------------------------
(***************************************************************************)
(* KeyMaterial: a command with its data is the command.                    *)
(***************************************************************************)

\* The second sequence of a concatenation.
LEMMA SecondPart ==
  ASSUME NEW S, NEW a \in Seq(S), NEW b \in Seq(S)
  PROVE  /\ SubSeq(a \o b, Len(a) + 1, Len(a \o b)) = b
         /\ Len(a \o b) = Len(a) + Len(b)
  OBVIOUS

\* How many parts of the data the card signs.
Signed(algo) == IF algo = BIP340_SCHNORR THEN 2 ELSE 1

\* The card finds the path behind the hash, and for Schnorr the tweak.
LEMMA DataParts ==
  ASSUME NEW given, NEW algo, NEW numbers \in Seq(Components),
         given = <<"hash">> \/ given = <<"hash", "tweak">>,
         Len(given) = 1 \/ algo = BIP340_SCHNORR
  PROVE  LET data == Padded(given, algo) \o numbers
         IN  /\ SubSeq(data, Signed(algo) + 1, Len(data)) = numbers
             /\ data[1] = "hash"
<1> DEFINE S == Components \union {"hash", "tweak", "zeroes"}
           head == Padded(given, algo)
           parts == Signed(algo)
           data == head \o numbers
<1>1. head \in Seq(S) /\ Len(head) = parts /\ head[1] = "hash"
  <2>1. CASE algo = BIP340_SCHNORR /\ given = <<"hash">>
    <3> DEFINE first == <<"hash">>
               second == <<"zeroes">>
    <3>1. /\ first \in Seq(S) /\ Len(first) = 1 /\ first[1] = "hash"
          /\ second \in Seq(S) /\ Len(second) = 1
      OBVIOUS
    <3>2. head = first \o second
      BY <2>1, <3>1, Zenon DEF Padded
    <3>3. parts = 2
      BY <2>1 DEF Signed
    <3> HIDE DEF S, head, first, second, parts
    <3> QED BY <3>1, <3>2, <3>3, ConcatProperties
  <2>2. CASE given = <<"hash", "tweak">>
    <3>1. Len(given) = 2
      BY <2>2
    <3>2. algo = BIP340_SCHNORR
      BY <3>1
    <3>3. head = <<"hash", "tweak">>
      BY <2>2, <3>1 DEF Padded
    <3> QED BY <3>2, <3>3 DEF Signed
  <2>3. CASE algo # BIP340_SCHNORR /\ given = <<"hash">>
    <3>1. head = <<"hash">>
      BY <2>3 DEF Padded
    <3>2. parts = 1
      BY <2>3 DEF Signed
    <3> HIDE DEF head, parts
    <3> QED BY <3>1, <3>2
  <2> QED BY <2>1, <2>2, <2>3
<1>2. numbers \in Seq(S)
  OBVIOUS
<1>3. parts \in {1, 2}
  BY DEF Signed
<1> HIDE DEF S, head, parts
<1>4. SubSeq(data, parts + 1, Len(data)) = numbers
  BY <1>1, <1>2, SecondPart
<1>5. data[1] = "hash"
  BY <1>1, <1>2, <1>3
<1> QED BY <1>4, <1>5 DEF head, parts, data

\* A command with its data is the command.
LEMMA SignCurrentIsSign == SignCurrent => sign
<1>1. SubSeq(<<"hash">>, 2, 1) = <<>>
  OBVIOUS
<1>2. SignCurrent => ExecuteP1(Request("sign", current, FALSE), CURRENT, SubSeq(<<"hash">>, 2, 1))
  <2>1. (IF ECDSA = BIP340_SCHNORR THEN 2 ELSE 1) = 1 /\ Len(<<"hash">>) = 1 /\ 1 + 1 = 2
    BY DEF ECDSA, BIP340_SCHNORR
  <2> QED BY <2>1, Zenon DEF SignCurrent, sign_raw
<1> QED BY <1>1, <1>2 DEF sign

LEMMA SignPinlessIsSign == SignPinless => sign_pinless
<1>1. SubSeq(<<"hash">>, 2, 1) = <<>>
  OBVIOUS
<1>2. SignPinless => ExecuteP1(Request("sign_pinless", meant, FALSE), PINLESS, SubSeq(<<"hash">>, 2, 1))
  <2>1. (IF ECDSA = BIP340_SCHNORR THEN 2 ELSE 1) = 1 /\ Len(<<"hash">>) = 1 /\ 1 + 1 = 2
    BY DEF ECDSA, BIP340_SCHNORR
  <2> QED BY <2>1, Zenon DEF SignPinless, sign_raw
<1> QED BY <1>1, <1>2 DEF sign_pinless

LEMMA SignWithPathIsSign ==
  ASSUME NEW path \in Paths, NEW algo, NEW make_current,
         NEW given, given = <<"hash">> \/ given = <<"hash", "tweak">>,
         sign_with_path_and_algo(given, path, algo, make_current)
  PROVE  sign_with_path(path, make_current)
<1> DEFINE data == Padded(given, algo) \o path.numbers
           parts == Signed(algo)
           asked == Request("sign_with_path", Named(path), make_current)
           p1 == derive_p1(source(path), make_current)
<1>1. SubSeq(data, parts + 1, Len(data)) = path.numbers
  <2>1. Len(given) = 1 \/ algo = BIP340_SCHNORR
    BY DEF sign_with_path_and_algo
  <2>2. path.numbers \in Seq(Components)
    BY PathType DEF Keys
  <2>3. given = <<"hash">> \/ given = <<"hash", "tweak">>
    OBVIOUS
  <2> DEFINE numbers == path.numbers
  <2>4. numbers \in Seq(Components)
    BY <2>2
  <2> HIDE DEF numbers, parts, data
  <2>5. SubSeq(Padded(given, algo) \o numbers, Signed(algo) + 1, Len(Padded(given, algo) \o numbers)) = numbers
    BY <2>1, <2>3, <2>4, DataParts
  <2> QED BY <2>5 DEF numbers, parts, data
<1>2. Parses(path) /\ sign_raw(asked, data, p1, algo)
  BY DEF sign_with_path_and_algo
<1> HIDE DEF data, asked, p1
<1>3. ExecuteP1(asked, p1, SubSeq(data, parts + 1, Len(data)))
  BY <1>2 DEF sign_raw, Signed
<1> HIDE DEF parts
<1>4. ExecuteP1(asked, p1, path.numbers)
  BY <1>1, <1>3
<1> QED BY <1>2, <1>4 DEF sign_with_path, asked, p1

\* Every step of KeyMaterial is one of KeyCommands, or changes nothing of it.
LEMMA MaterialStep == [MaterialNext]_material_vars => [Next]_vars
<1> SUFFICES ASSUME [MaterialNext]_material_vars PROVE [Next]_vars
  OBVIOUS
<1>1. CASE UNCHANGED material_vars
  BY <1>1 DEF material_vars
<1>2. CASE SignCurrent
  BY <1>2, SignCurrentIsSign DEF Next
<1>3. CASE SignPinless
  BY <1>3, SignPinlessIsSign DEF Next
<1>4. ASSUME NEW path \in Paths, NEW algo, NEW make_current \in BOOLEAN,
             NEW hash, hash = <<"hash">> \/ hash = <<"hash", "tweak">>,
             sign_with_path_and_algo(hash, path, algo, make_current)
      PROVE  Next
  BY <1>4, SignWithPathIsSign DEF Next
<1>5. ASSUME NEW path \in Paths, sign_bip341_schnorr("hash", "tweak", path) PROVE Next
  <2>1. sign_with_path_and_algo(<<"hash", "tweak">>, path, BIP340_SCHNORR, FALSE)
    BY <1>5 DEF sign_bip341_schnorr
  <2> QED BY <1>4, <2>1
<1>6. ASSUME NEW path \in Paths, export_lee_key_parsed(path) PROVE Next
  BY <1>6 DEF export_lee_key_parsed, Next
<1>7. CASE Export
  BY <1>7 DEF Export, Next
<1>8. CASE Plain
  BY <1>8 DEF Plain, Next
<1>9. CASE Pinless
  BY <1>9 DEF Pinless, Next
<1>10. CASE identify_card \/ generate_mnemonic
  BY <1>10 DEF identify_card, generate_mnemonic
<1>11. ASSUME NEW intended, NEW loaded, Load(intended, loaded) PROVE [Next]_vars
  BY <1>11 DEF Load, Next
<1>12. ASSUME NEW seed, load_key_seed(seed) \/ load_lee_key(seed) PROVE [Next]_vars
  BY <1>11, <1>12 DEF load_key_seed, load_lee_key, load_key_raw
<1>13. ASSUME NEW pair, NEW omit_public, load_key_bip32(pair, omit_public) PROVE [Next]_vars
  BY <1>11, <1>13 DEF load_key_bip32, load_key_raw
<1>14. CASE generate_key
  BY <1>14 DEF generate_key, Next
<1> QED BY <1>1, <1>2, <1>3, <1>4, <1>5, <1>6, <1>7, <1>8, <1>9, <1>10, <1>12, <1>13, <1>14
    DEF MaterialNext
-----------------------------------------------------------------------------
(***************************************************************************)
(* Key templates: what the card and to_tlv write, and who reads it.        *)
(***************************************************************************)
IsValue(v) == \E size \in Nat : \E of : v = Bytes(size, of)

LEMMA ValueFacts ==
  ASSUME NEW v, IsValue(v)
  PROVE  v # Err /\ v # Absent /\ v.size \in Nat /\ v = Bytes(v.size, v.of)
<1>1. PICK size \in Nat : \E of : v = Bytes(size, of)
  BY DEF IsValue
<1>3. PICK of : v = Bytes(size, of)
  BY <1>1
<1>2. v.size = size /\ v.of = of
  BY <1>3 DEF Bytes
<1> QED BY <1>1, <1>2, <1>3, NoErr

\* A field that is there unless its value is Absent.
LEMMA FieldIfAny ==
  ASSUME NEW S, NEW tag, NEW value, NEW rest \in Seq(S), NEW values, NEW sizes,
         value = Absent \/ (IsValue(value) /\ Item(tag, value) \in S /\ value.size \in sizes),
         value = Absent => ~next_tag_is(rest, tag)
  PROVE  Unread(When(value # Absent, write_primitive(tag, value)) \o rest, values)
           & Optional(tag, sizes)
         = Unread(rest, Append(values, value))
<1>1. CASE value = Absent
  <2>1. When(value # Absent, write_primitive(tag, value)) = <<>>
    BY <1>1 DEF When
  <2>2. <<>> \o rest = rest
    OBVIOUS
  <2>3. Unread(rest, values) & Optional(tag, sizes) = Unread(rest, Append(values, Absent))
    BY <1>1, FieldIsNotThere
  <2> QED BY <1>1, <2>1, <2>2, <2>3
<1>2. CASE value # Absent
  <2>1. IsValue(value) /\ Item(tag, value) \in S /\ value.size \in sizes
    BY <1>2
  <2>2. value = Bytes(value.size, value.of)
    BY <2>1, ValueFacts
  <2>3. When(value # Absent, write_primitive(tag, value)) \o rest
          = <<Item(tag, Bytes(value.size, value.of))>> \o rest
    BY <1>2, <2>2, Zenon DEF When, write_primitive
  <2>4. Optional(tag, sizes).tag = tag /\ Optional(tag, sizes).sizes = sizes
    BY DEF Optional
  <2> DEFINE size == value.size
             of == value.of
             field == Optional(tag, sizes)
  <2>5. Item(tag, Bytes(size, of)) \in S /\ field.tag = tag /\ size \in field.sizes
    BY <2>1, <2>2, <2>4
  <2> HIDE DEF size, of, field
  <2>6. Unread(<<Item(tag, Bytes(size, of))>> \o rest, values) & field
          = Unread(rest, Append(values, Bytes(size, of)))
    BY <2>5, FieldIsThere
  <2> QED BY <2>2, <2>3, <2>6 DEF size, of, field
<1> QED BY <1>1, <1>2

\* A template of a public key, a private key and a chain code, each of them Absent
\* or there.
KeyTemplate(pub, priv, code) ==
  write_constructed(TLV.KEY_TEMPLATE,
    When(pub # Absent, write_primitive(TLV.PUB_KEY, pub))
    \o When(priv # Absent, write_primitive(TLV.PRIV_KEY, priv))
    \o When(code # Absent, write_primitive(TLV.CHAIN_CODE, code)))

\* What the card reads of it that expects the private key: LoadedFrom.
CardReads(items) ==
  Start(items) & enter_constructed(TLV.KEY_TEMPLATE)
  & Optional(TLV.PUB_KEY, AnySize) & Required(TLV.PRIV_KEY, Sizes(32))

PartsAreRead(items, pub, priv, code) ==
  \E values : /\ read_key(items) = Unread(<<>>, values)
              /\ values[2] = pub /\ values[3] = priv /\ values[4] = code

PrivateKeyIsRead(items, priv, code) ==
  \E values :
    /\ values[3] = priv /\ Append(values, code)[3] = priv
    /\ CardReads(items)
         = Unread(When(code # Absent, write_primitive(TLV.CHAIN_CODE, code)), values)
    /\ code # Absent /\ code.size = 32 =>
         CardReads(items) & Required(TLV.CHAIN_CODE, Sizes(32)) = Unread(<<>>, Append(values, code))

LEMMA KeyTags ==
  /\ TLV.PUB_KEY # TLV.PRIV_KEY /\ TLV.PUB_KEY # TLV.CHAIN_CODE /\ TLV.PRIV_KEY # TLV.CHAIN_CODE
  BY DEF TLV

LEMMA KeyTemplateIsRead ==
  ASSUME NEW pub, NEW priv, NEW code,
         pub = Absent \/ IsValue(pub), priv = Absent \/ IsValue(priv),
         code = Absent \/ IsValue(code)
  PROVE  LET items == KeyTemplate(pub, priv, code)
         IN  /\ PartsAreRead(items, pub, priv, code)
             /\ priv = Absent => CardReads(items) = Err
             /\ priv # Absent /\ priv.size = 32 =>
                  PrivateKeyIsRead(items, priv, code)
<1> DEFINE none == <<>>
           S == {Item(TLV.PUB_KEY, pub), Item(TLV.PRIV_KEY, priv), Item(TLV.CHAIN_CODE, code)}
                \union {Item(TLV.KEY_TEMPLATE, Bytes(n, "content")) : n \in Nat}
           f2 == When(pub # Absent, write_primitive(TLV.PUB_KEY, pub))
           f3 == When(priv # Absent, write_primitive(TLV.PRIV_KEY, priv))
           f4 == When(code # Absent, write_primitive(TLV.CHAIN_CODE, code))
           r4 == f4 \o none
           r3 == f3 \o r4
           r2 == f2 \o r3
           content == Bytes(Len(r2), "content")
           r1 == write_primitive(TLV.KEY_TEMPLATE, content) \o r2
           items == KeyTemplate(pub, priv, code)
           w0 == <<>>
           w1 == Append(w0, content)
           w2 == Append(w1, pub)
           w3 == Append(w2, priv)
           w4 == Append(w3, code)
<1>8. /\ Item(TLV.PUB_KEY, pub) \in S /\ Item(TLV.PRIV_KEY, priv) \in S
      /\ Item(TLV.CHAIN_CODE, code) \in S
  OBVIOUS
<1>1. f2 \in Seq(S) /\ f3 \in Seq(S) /\ f4 \in Seq(S) /\ none \in Seq(S)
  <2> HIDE DEF S
  <2> QED BY <1>8 DEF When, write_primitive
<1>2. r4 = f4 /\ r4 \in Seq(S) /\ r3 \in Seq(S) /\ r2 \in Seq(S) /\ Len(r2) \in Nat
  <2> HIDE DEF S, f2, f3, f4
  <2>1. r4 = f4 /\ r4 \in Seq(S)
    BY <1>1
  <2> HIDE DEF r4
  <2>2. r3 \in Seq(S)
    BY <1>1, <2>1
  <2> HIDE DEF r3
  <2> QED BY <1>1, <2>1, <2>2
<1>3. items = r1
  <2>1. f2 \o f3 \o f4 = r2
    <3>1. r3 = f3 \o f4
      BY <1>2
    <3> HIDE DEF S, f2, f3, f4, r3
    <3>2. (f2 \o f3) \o f4 = f2 \o (f3 \o f4)
      <4>1. Cat(Cat(f2, f3), f4) = Cat(f2, Cat(f3, f4))
        BY <1>1, CatAssociates
      <4> QED BY <4>1 DEF Cat
    <3> QED BY <3>1, <3>2
  <2> HIDE DEF r2, f2, f3, f4
  <2>2. items = write_constructed(TLV.KEY_TEMPLATE, f2 \o f3 \o f4)
    BY DEF KeyTemplate, f2, f3, f4
  <2> QED BY <2>1, <2>2 DEF write_constructed, write_primitive
<1>4. Item(TLV.KEY_TEMPLATE, Bytes(Len(r2), "content")) \in S
  <2> HIDE DEF r2
  <2> QED BY <1>2
<1>5. Len(r2) \in AnySize
  <2> HIDE DEF r2
  <2> QED BY <1>2 DEF AnySize
<1>6. Unread(r1, w0) & enter_constructed(TLV.KEY_TEMPLATE) = Unread(r2, w1)
  <2> HIDE DEF S, r2, w0
  <2> QED BY <1>2, <1>4, <1>5, RequiredField DEF enter_constructed
<1>7. /\ ~next_tag_is(none, TLV.CHAIN_CODE) /\ ~next_tag_is(none, TLV.PRIV_KEY)
      /\ ~next_tag_is(none, TLV.PUB_KEY)
  BY DEF next_tag_is
<1>9. /\ Item(TLV.PUB_KEY, pub).tag = TLV.PUB_KEY /\ Item(TLV.PRIV_KEY, priv).tag = TLV.PRIV_KEY
      /\ Item(TLV.CHAIN_CODE, code).tag = TLV.CHAIN_CODE
  BY DEF Item
<1> HIDE DEF S, none
<1>10. ~next_tag_is(r4, TLV.PUB_KEY) /\ ~next_tag_is(r4, TLV.PRIV_KEY)
  <2> DEFINE i == Item(TLV.CHAIN_CODE, code)
             some == code # Absent
  <2>1. i \in S /\ i.tag = TLV.CHAIN_CODE /\ r4 = When(some, <<i>>) \o none
    BY <1>8, <1>9 DEF write_primitive
  <2> HIDE DEF i, r4, some
  <2>2. \A tag : next_tag_is(r4, tag) <=> IF some THEN i.tag = tag ELSE next_tag_is(none, tag)
    BY <1>1, <2>1, NextTagUnderCondition
  <2> QED BY <1>7, <2>1, <2>2, KeyTags
<1>11. ~next_tag_is(r3, TLV.PUB_KEY)
  <2> DEFINE i == Item(TLV.PRIV_KEY, priv)
             some == priv # Absent
  <2>1. i \in S /\ i.tag = TLV.PRIV_KEY /\ r3 = When(some, <<i>>) \o r4
    BY <1>8, <1>9 DEF write_primitive
  <2> HIDE DEF i, r3, r4, some
  <2>2. \A tag : next_tag_is(r3, tag) <=> IF some THEN i.tag = tag ELSE next_tag_is(r4, tag)
    BY <1>2, <2>1, NextTagUnderCondition
  <2> QED BY <1>10, <2>1, <2>2, KeyTags
<1>12. \A v : IsValue(v) => v.size \in AnySize
  BY ValueFacts DEF AnySize
<1>13. Unread(r2, w1) & Optional(TLV.PUB_KEY, AnySize) = Unread(r3, w2)
  <2> HIDE DEF r3, w1
  <2> QED BY <1>2, <1>8, <1>11, <1>12, FieldIfAny
<1>14. Unread(r3, w2) & Optional(TLV.PRIV_KEY, AnySize) = Unread(r4, w3)
  <2> HIDE DEF r4, w2
  <2> QED BY <1>2, <1>8, <1>10, <1>12, FieldIfAny
<1>15. Unread(r4, w3) & Optional(TLV.CHAIN_CODE, AnySize) = Unread(none, w4)
  <2> HIDE DEF w3
  <2> QED BY <1>1, <1>7, <1>8, <1>12, FieldIfAny
<1>16. w4[2] = pub /\ w4[3] = priv /\ w4[4] = code /\ w3[3] = priv
  <2> DEFINE V == {content, pub, priv, code}
             w5 == Append(w4, code)
  <2>1. content \in V /\ pub \in V /\ priv \in V /\ code \in V
    OBVIOUS
  <2>2. /\ w1 = Append(<<>>, content) /\ w2 = Append(w1, pub) /\ w3 = Append(w2, priv)
        /\ w4 = Append(w3, code) /\ w5 = Append(w4, code)
    OBVIOUS
  <2> HIDE DEF content, V, w1, w2, w3, w4, w5
  <2>3. w4[2] = pub /\ w4[3] = priv /\ w4[4] = code
    BY <2>1, <2>2, ValuesInOrder
  <2>4. w3[3] = priv
    BY <2>1, <2>2, ValuesInOrder
  <2> QED BY <2>3, <2>4
<1>17. read_key(r1) = Unread(none, w4)
  <2>1. read_key(r1) = Unread(r1, w0) & enter_constructed(TLV.KEY_TEMPLATE)
                       & Optional(TLV.PUB_KEY, AnySize) & Optional(TLV.PRIV_KEY, AnySize)
                       & Optional(TLV.CHAIN_CODE, AnySize)
    <3> HIDE DEF r1
    <3> QED BY StartIsUnread DEF read_key
  <2> HIDE DEF r1, r2, r3, r4, w0, w1, w2, w3, w4
  <2> QED BY <1>6, <1>13, <1>14, <1>15, <2>1
<1>18. CardReads(r1) = Unread(r3, w2) & Required(TLV.PRIV_KEY, Sizes(32))
  <2>1. CardReads(r1) = Unread(r1, w0) & enter_constructed(TLV.KEY_TEMPLATE)
                        & Optional(TLV.PUB_KEY, AnySize) & Required(TLV.PRIV_KEY, Sizes(32))
    <3> HIDE DEF r1
    <3> QED BY StartIsUnread DEF CardReads
  <2> HIDE DEF r1, r2, r3, w0, w1, w2
  <2> QED BY <1>6, <1>13, <2>1
<1>19. ASSUME priv = Absent PROVE CardReads(r1) = Err
  <2>1. r3 = r4
    <3>1. f3 = <<>>
      BY <1>19 DEF When
    <3> HIDE DEF r4
    <3> QED BY <1>2, <3>1
  <2> HIDE DEF r1, r3, r4, w2
  <2> QED BY <1>10, <1>18, <2>1, FieldIsMissing
<1>20. \A v : IsValue(v) => v = Bytes(v.size, v.of)
  BY ValueFacts
<1>21. 32 \in Sizes(32)
  BY DEF Sizes
<1>22. ASSUME priv # Absent, priv.size = 32 PROVE CardReads(r1) = Unread(r4, w3)
  <2>1. f3 = write_primitive(TLV.PRIV_KEY, priv) /\ priv = Bytes(32, priv.of)
    BY <1>20, <1>22 DEF When
  <2> DEFINE of == priv.of
  <2> HIDE DEF r1, r4, w2, f3, of
  <2>2. Item(TLV.PRIV_KEY, Bytes(32, of)) \in S /\ f3 = write_primitive(TLV.PRIV_KEY, Bytes(32, of))
    BY <1>8, <2>1 DEF of
  <2>3. Unread(r3, w2) & Required(TLV.PRIV_KEY, Sizes(32)) = Unread(r4, Append(w2, Bytes(32, of)))
    BY <1>2, <1>21, <2>2, RequiredField
  <2> QED BY <1>18, <2>1, <2>3 DEF of
<1>23. ASSUME code # Absent, code.size = 32
       PROVE  Unread(r4, w3) & Required(TLV.CHAIN_CODE, Sizes(32)) = Unread(none, w4)
  <2>1. f4 = write_primitive(TLV.CHAIN_CODE, code) /\ code = Bytes(32, code.of)
    BY <1>20, <1>23 DEF When
  <2> DEFINE of == code.of
  <2> HIDE DEF w3, f4, of
  <2>2. Item(TLV.CHAIN_CODE, Bytes(32, of)) \in S /\ f4 = write_primitive(TLV.CHAIN_CODE, Bytes(32, of))
    BY <1>8, <2>1 DEF of
  <2>3. Unread(r4, w3) & Required(TLV.CHAIN_CODE, Sizes(32)) = Unread(none, Append(w3, Bytes(32, of)))
    BY <1>1, <1>21, <2>2, RequiredField
  <2> QED BY <2>1, <2>3 DEF of
<1>27. Append(w3, code)[3] = priv
  BY <1>16
<1> HIDE DEF items, r1, w3
<1>24. ASSUME priv # Absent, priv.size = 32
       PROVE  PrivateKeyIsRead(items, priv, code)
  <2> HIDE DEF r4
  <2>1. CardReads(items) = Unread(f4, w3) /\ w3[3] = priv
    BY <1>2, <1>3, <1>16, <1>22, <1>24
  <2>2. code # Absent /\ code.size = 32 =>
          CardReads(items) & Required(TLV.CHAIN_CODE, Sizes(32)) = Unread(none, Append(w3, code))
    BY <1>2, <1>23, <2>1
  <2> QED BY <1>27, <2>1, <2>2 DEF PrivateKeyIsRead, none
<1>25. PartsAreRead(items, pub, priv, code)
  <2> HIDE DEF w4
  <2> QED BY <1>3, <1>16, <1>17 DEF PartsAreRead, none
<1>26. priv = Absent => CardReads(items) = Err
  BY <1>3, <1>19
<1> HIDE DEF w4
<1> QED BY <1>24, <1>25, <1>26 DEF none, items, f4

\* A key pair that the library can have: its private key is of 32 bytes, or of 33
\* with a leading zero, and it always has some public key.
IsKeyPair(pair) ==
  /\ pair.private_key = Absent
       \/ \E of : pair.private_key = Bytes(32, of) \/ pair.private_key = Bytes(33, of)
  /\ pair.chain_code = Absent \/ \E of : pair.chain_code = Bytes(32, of)
  /\ IsValue(pair.public_key)

LEMMA BytesAreValues == ASSUME NEW size \in Nat, NEW of PROVE IsValue(Bytes(size, of))
  BY DEF IsValue

LEMMA BytesFields == ASSUME NEW size, NEW of PROVE Bytes(size, of).size = size /\ Bytes(size, of).of = of
  BY DEF Bytes

LEMMA Stripped ==
  ASSUME NEW of
  PROVE  /\ strip_leading_zero(Bytes(32, of)) = Bytes(32, of)
         /\ strip_leading_zero(Bytes(33, of)) = Bytes(32, of)
<1>1. strip_leading_zero(Bytes(32, of)) = Bytes(32, of)
  BY BytesFields DEF strip_leading_zero
<1>2. [Bytes(33, of) EXCEPT !.size = @ - 1] = Bytes(32, of)
  BY DEF Bytes
<1>3. strip_leading_zero(Bytes(33, of)) = Bytes(32, of)
  BY <1>2, BytesFields DEF strip_leading_zero
<1> QED BY <1>1, <1>3

\* to_tlv writes a key template, the private key without its leading zero.
LEMMA Written ==
  ASSUME NEW pair, IsKeyPair(pair), NEW include_public \in BOOLEAN
  PROVE  to_tlv(pair, include_public)
           = KeyTemplate(IF include_public THEN pair.public_key ELSE Absent,
                         IF is_public_only(pair) THEN Absent ELSE strip_leading_zero(pair.private_key),
                         pair.chain_code)
<1> DEFINE pub == IF include_public THEN pair.public_key ELSE Absent
           priv == IF is_public_only(pair) THEN Absent ELSE strip_leading_zero(pair.private_key)
           code == pair.chain_code
<1>1. pair.public_key # Absent
  BY ValueFacts DEF IsKeyPair
<1>2. When(pub # Absent, write_primitive(TLV.PUB_KEY, pub))
        = When(include_public, write_primitive(TLV.PUB_KEY, pair.public_key))
  BY <1>1 DEF When
<1>3. ~is_public_only(pair) => strip_leading_zero(pair.private_key) # Absent
  <2> SUFFICES ASSUME ~is_public_only(pair) PROVE strip_leading_zero(pair.private_key) # Absent
    OBVIOUS
  <2>1. PICK of : pair.private_key = Bytes(32, of) \/ pair.private_key = Bytes(33, of)
    BY DEF IsKeyPair, is_public_only
  <2>2. strip_leading_zero(pair.private_key) = Bytes(32, of)
    BY <2>1, Stripped
  <2> QED BY <2>2, NoErr
<1>4. When(priv # Absent, write_primitive(TLV.PRIV_KEY, priv))
        = When(~is_public_only(pair),
               write_primitive(TLV.PRIV_KEY, strip_leading_zero(pair.private_key)))
  BY <1>3 DEF When
<1>5. When(code # Absent, write_primitive(TLV.CHAIN_CODE, code))
        = When(is_extended(pair), write_primitive(TLV.CHAIN_CODE, pair.chain_code))
  BY DEF is_extended
<1> HIDE DEF pub, priv, code
<1>6. to_tlv(pair, include_public) = KeyTemplate(pub, priv, code)
  BY <1>2, <1>4, <1>5 DEF to_tlv, KeyTemplate
<1> QED BY <1>6 DEF pub, priv, code

\* The card that is sent a key pair has its private key, and its chain code if it
\* has one; it refuses one without private key.
LEMMA PairIsLoaded ==
  ASSUME NEW pair, IsKeyPair(pair), NEW include_public \in BOOLEAN
  PROVE  LoadedFrom(load_key_p1(pair), to_tlv(pair, include_public))
           = IF is_public_only(pair) THEN Err
             ELSE [root |-> pair.private_key.of.key, extended |-> is_extended(pair), lee |-> FALSE]
<1> DEFINE pub == IF include_public THEN pair.public_key ELSE Absent
           priv == IF is_public_only(pair) THEN Absent ELSE strip_leading_zero(pair.private_key)
           code == pair.chain_code
           items == KeyTemplate(pub, priv, code)
           read == CardReads(items)
           p1 == load_key_p1(pair)
<1>1. to_tlv(pair, include_public) = items
  BY Written
<1>2. pub = Absent \/ IsValue(pub)
  BY DEF IsKeyPair
<1>3. code = Absent \/ (IsValue(code) /\ code.size = 32 /\ code # Absent)
  BY BytesAreValues, BytesFields, NoErr DEF IsKeyPair
<1>4. ASSUME ~is_public_only(pair)
      PROVE  IsValue(priv) /\ priv.size = 32 /\ priv.of = pair.private_key.of /\ priv # Absent
  <2>1. PICK of : pair.private_key = Bytes(32, of) \/ pair.private_key = Bytes(33, of)
    BY <1>4 DEF IsKeyPair, is_public_only
  <2>2. priv = Bytes(32, of)
    BY <1>4, <2>1, Stripped
  <2>3. pair.private_key.of = of
    BY <2>1, BytesFields
  <2> HIDE DEF priv
  <2> QED BY <2>2, <2>3, BytesAreValues, BytesFields, NoErr
<1>5. is_public_only(pair) => priv = Absent
  OBVIOUS
<1>6. is_extended(pair) <=> code # Absent
  BY DEF is_extended
<1>7. /\ p1 = (IF is_extended(pair) THEN EXT_EC ELSE EC) /\ EXT_EC # EC /\ EC # LEE /\ EXT_EC # LEE
      /\ p1 \notin {SEED, LEE}
  BY DEF load_key_p1, EC, EXT_EC, SEED, LEE
<1> HIDE DEF pub, priv, code, p1
<1>8. priv = Absent \/ IsValue(priv)
  BY <1>4, <1>5
<1>9. LoadedFrom(p1, items)
        = LET all == IF p1 = EC THEN read ELSE read & Required(TLV.CHAIN_CODE, Sizes(32))
          IN  IF all = Err THEN Err ELSE MasterKey(all.values[3].of.key, p1)
  BY <1>7, Zenon DEF LoadedFrom, PairLoaded, CardReads
<1> DEFINE all == IF p1 = EC THEN read ELSE read & Required(TLV.CHAIN_CODE, Sizes(32))
<1>10. CASE is_public_only(pair)
  <2>1. read = Err
    BY <1>2, <1>3, <1>5, <1>8, <1>10, KeyTemplateIsRead
  <2> HIDE DEF read
  <2>2. all = Err
    BY <2>1, ErrStays
  <2> HIDE DEF all
  <2>3. LoadedFrom(p1, items) = Err
    BY <1>9, <2>2 DEF all
  <2> QED BY <1>1, <1>10, <2>3 DEF p1
<1>11. CASE ~is_public_only(pair)
  <2>1. priv # Absent /\ priv.size = 32 /\ IsValue(priv)
    BY <1>4, <1>11
  <2> DEFINE rest == When(code # Absent, write_primitive(TLV.CHAIN_CODE, code))
             more == Required(TLV.CHAIN_CODE, Sizes(32))
  <2>5. PrivateKeyIsRead(items, priv, code)
    BY <1>2, <1>3, <2>1, KeyTemplateIsRead
  <2>2. PICK values : /\ values[3] = priv /\ Append(values, code)[3] = priv
                      /\ read = Unread(rest, values)
                      /\ code # Absent /\ code.size = 32 =>
                           read & more = Unread(<<>>, Append(values, code))
    BY <2>5 DEF PrivateKeyIsRead
  <2> HIDE DEF read, rest, more
  <2>3. CASE is_extended(pair)
    <3>1. p1 = EXT_EC /\ p1 # EC /\ p1 # LEE
      BY <1>7, <2>3
    <3>2. all = Unread(<<>>, Append(values, code))
      BY <1>3, <1>6, <2>2, <2>3, <3>1 DEF more
    <3> HIDE DEF all
    <3>3. all # Err /\ all.values[3] = priv
      BY <2>2, <3>2, NoErr DEF Unread
    <3>4. LoadedFrom(p1, items) = MasterKey(priv.of.key, p1)
      BY <1>9, <3>3 DEF all
    <3>5. MasterKey(priv.of.key, p1) = [root |-> priv.of.key, extended |-> TRUE, lee |-> FALSE]
      BY <3>1 DEF MasterKey
    <3> QED BY <1>1, <1>4, <1>11, <2>3, <3>4, <3>5 DEF p1
  <2>4. CASE ~is_extended(pair)
    <3>1. p1 = EC /\ p1 # LEE
      BY <1>7, <2>4
    <3>2. all = Unread(rest, values)
      BY <2>2, <3>1
    <3> HIDE DEF all
    <3>3. all # Err /\ all.values[3] = priv
      BY <2>2, <3>2, NoErr DEF Unread
    <3>4. LoadedFrom(p1, items) = MasterKey(priv.of.key, p1)
      BY <1>9, <3>3 DEF all
    <3>5. MasterKey(priv.of.key, p1) = [root |-> priv.of.key, extended |-> FALSE, lee |-> FALSE]
      BY <3>1 DEF MasterKey
    <3>6. is_extended(pair) = FALSE
      BY <2>4 DEF is_extended
    <3> QED BY <1>1, <1>4, <1>11, <3>4, <3>5, <3>6 DEF p1
  <2> QED BY <2>3, <2>4
<1> QED BY <1>10, <1>11
-----------------------------------------------------------------------------
(***************************************************************************)
(* The key pairs that the caller may have.                                 *)
(***************************************************************************)

\* What a key template is parsed to.
LEMMA TemplateIsParsed ==
  ASSUME NEW pub, NEW priv, NEW code,
         pub = Absent \/ IsValue(pub), priv = Absent \/ IsValue(priv),
         code = Absent \/ IsValue(code)
  PROVE  from_tlv(KeyTemplate(pub, priv, code)) = new(priv, code, pub)
<1> DEFINE items == KeyTemplate(pub, priv, code)
<1>1. PICK values : /\ read_key(items) = Unread(<<>>, values)
                    /\ values[2] = pub /\ values[3] = priv /\ values[4] = code
  <2>1. PartsAreRead(items, pub, priv, code)
    BY KeyTemplateIsRead
  <2> QED BY <2>1 DEF PartsAreRead
<1> DEFINE read == read_key(items)
<1> HIDE DEF items
<1>2. read # Err /\ read.values = values
  BY <1>1, NoErr DEF Unread
<1>3. from_tlv(items) = IF read = Err THEN Err ELSE new(read.values[3], read.values[4], read.values[2])
  BY Zenon DEF from_tlv
<1> HIDE DEF read
<1> QED BY <1>1, <1>2, <1>3 DEF items

\* A pair of this key: with the private key or without, its chain code maybe.
PairOf(pair, key, private) ==
  /\ IsKeyPair(pair) /\ pair # Err
  /\ pair.public_key.of = Part("public", key)
  /\ is_public_only(pair) <=> ~private
  /\ private => pair.private_key.of = Part("private", key)
  /\ is_extended(pair) => pair.chain_code.of = Part("chain", key)

LEMMA NewIsNoErr == \A priv, code, pub : new(priv, code, pub) # Err
<1> SUFFICES ASSUME NEW priv, NEW code, NEW pub PROVE new(priv, code, pub) # Err
  OBVIOUS
<1>1. "chain_code" \in DOMAIN new(priv, code, pub) /\ "chain_code" \notin DOMAIN Err
  BY DEF new, Err
<1> QED BY <1>1

\* The public key that is computed from a private one is that of the same key.
LEMMA PublicIsOf ==
  ASSUME NEW key, NEW size, size = 32 \/ size = 33
  PROVE  PublicOf(Bytes(size, Part("private", key))) = Bytes(33, Part("public", key))
<1> DEFINE of == Part("private", key)
           pk == Bytes(size, of)
<1>1. pk.of.key = key
  BY BytesFields DEF Part
<1> HIDE DEF of
<1>2. strip_leading_zero(pk) = Bytes(32, of)
  BY Stripped
<1> HIDE DEF pk
<1>3. PublicOf(pk) = Bytes(33, Part("public", key))
  BY <1>1, <1>2, BytesFields DEF PublicOf
<1> QED BY <1>3 DEF pk, of

\* An exported key, of which the public or the private key is there.
LEMMA NewIsPairOf ==
  ASSUME NEW key, NEW pub, NEW priv, NEW code, NEW private \in BOOLEAN,
         pub = Absent \/ pub = Bytes(65, Part("public", key)),
         priv = IF private THEN Bytes(32, Part("private", key)) ELSE Absent,
         code = Absent \/ code = Bytes(32, Part("chain", key)),
         pub = Absent => private
  PROVE  PairOf(new(priv, code, pub), key, private)
<1> DEFINE pair == new(priv, code, pub)
<1>1. pair.private_key = priv /\ pair.chain_code = code
  BY DEF new
<1>2. pub # Absent => pair.public_key = pub
  BY DEF new
<1>3. pub = Absent => pair.public_key = PublicOf(priv)
  <2>1. private => priv # Absent
    BY NoErr
  <2> QED BY <2>1 DEF new
<1> HIDE DEF pair
<1>4. pub = Absent => pair.public_key = Bytes(33, Part("public", key))
  BY <1>3, PublicIsOf
<1>5. IsValue(pair.public_key) /\ pair.public_key.of = Part("public", key)
  BY <1>2, <1>4, BytesAreValues, BytesFields
<1>6. is_public_only(pair) <=> ~private
  BY <1>1, NoErr DEF is_public_only
<1>7. private => pair.private_key.of = Part("private", key)
  BY <1>1, BytesFields
<1>8. is_extended(pair) => pair.chain_code.of = Part("chain", key)
  BY <1>1, BytesFields DEF is_extended
<1>9. IsKeyPair(pair)
  BY <1>1, <1>5 DEF IsKeyPair
<1>10. pair # Err
  BY NewIsNoErr DEF pair
<1> QED BY <1>5, <1>6, <1>7, <1>8, <1>9, <1>10 DEF PairOf, pair

\* Every response to EXPORT KEY is parsed to a pair of the key exported, with its
\* private key exactly if that was asked for.
LEMMA ResponseIsPairOf ==
  ASSUME NEW key, NEW p2 \in 0 .. 2, NEW extended \in BOOLEAN,
         NEW response \in KeyResponses(key, p2, extended)
  PROVE  PairOf(from_tlv(response), key, p2 = PRIVATE_AND_PUBLIC)
<1> DEFINE private == p2 = PRIVATE_AND_PUBLIC
           somePub == Bytes(65, Part("public", key))
           somePriv == Bytes(32, Part("private", key))
           someCode == Bytes(32, Part("chain", key))
           publics == {b \in BOOLEAN : p2 # PRIVATE_AND_PUBLIC => b}
           chains == {b \in BOOLEAN : (b => extended /\ p2 # PUBLIC_ONLY)
                                      /\ (p2 = EXTENDED_PUBLIC => b)}
<1>1. PICK public \in publics, chain \in chains : response = KeyResponse(key, p2, public, chain)
  <2>1. response \in {KeyResponse(key, p2, public, chain) : public \in publics, chain \in chains}
    BY DEF KeyResponses
  <2> HIDE DEF publics, chains
  <2> QED BY <2>1
<1>10. public \in BOOLEAN /\ (public \/ private)
  OBVIOUS
<1> DEFINE pub == IF public THEN somePub ELSE Absent
           priv == IF private THEN somePriv ELSE Absent
           code == IF chain THEN someCode ELSE Absent
<1>2. /\ somePub # Absent /\ IsValue(somePub) /\ somePriv # Absent /\ IsValue(somePriv)
      /\ someCode # Absent /\ IsValue(someCode)
  BY NoErr, BytesAreValues
<1>3. pub = Absent => private
  BY <1>2
<1>4. private \in BOOLEAN
  OBVIOUS
<1>5. PairOf(new(priv, code, pub), key, private)
  <2>1. pub = Absent \/ pub = Bytes(65, Part("public", key))
    OBVIOUS
  <2>2. priv = IF private THEN Bytes(32, Part("private", key)) ELSE Absent
    OBVIOUS
  <2>3. code = Absent \/ code = Bytes(32, Part("chain", key))
    OBVIOUS
  <2> HIDE DEF pub, priv, code, private
  <2> QED BY <1>3, <1>4, <2>1, <2>2, <2>3, NewIsPairOf
<1> HIDE DEF somePub, somePriv, someCode, private
<1>6. /\ When(pub # Absent, write_primitive(TLV.PUB_KEY, pub))
           = When(public, write_primitive(TLV.PUB_KEY, somePub))
      /\ When(priv # Absent, write_primitive(TLV.PRIV_KEY, priv))
           = When(private, write_primitive(TLV.PRIV_KEY, somePriv))
      /\ When(code # Absent, write_primitive(TLV.CHAIN_CODE, code))
           = When(chain, write_primitive(TLV.CHAIN_CODE, someCode))
  BY <1>2 DEF When
<1>7. /\ pub = Absent \/ IsValue(pub)
      /\ priv = Absent \/ IsValue(priv)
      /\ code = Absent \/ IsValue(code)
  BY <1>2
<1> HIDE DEF pub, priv, code
<1>8. response = KeyTemplate(pub, priv, code)
  BY <1>1, <1>6 DEF KeyResponse, KeyTemplate, private, somePub, somePriv, someCode
<1>9. from_tlv(KeyTemplate(pub, priv, code)) = new(priv, code, pub)
  BY <1>7, TemplateIsParsed
<1> QED BY <1>5, <1>8, <1>9 DEF private

\* A pair of a seed, or of a private key alone.
LEMMA OtherPairs ==
  /\ \A seed : IsKeyPair(from_binary_seed(seed))
  /\ \A key : IsKeyPair(new(Bytes(33, Part("private", key)), Absent, Absent))
<1>1. ASSUME NEW key, NEW code, NEW size, size = 32 \/ size = 33,
             code = Absent \/ code = Bytes(32, Part("chain", key))
      PROVE  IsKeyPair(new(Bytes(size, Part("private", key)), code, Absent))
  <2> DEFINE priv == Bytes(size, Part("private", key))
             pair == new(priv, code, Absent)
  <2>1. priv # Absent
    BY NoErr
  <2>2. pair.private_key = priv /\ pair.chain_code = code /\ pair.public_key = PublicOf(priv)
    BY <2>1 DEF new
  <2> HIDE DEF pair
  <2>3. IsValue(pair.public_key)
    BY <1>1, <2>2, PublicIsOf, BytesAreValues
  <2>4. pair.private_key = Bytes(32, Part("private", key))
          \/ pair.private_key = Bytes(33, Part("private", key))
    BY <1>1, <2>2
  <2>5. IsKeyPair(pair)
    BY <1>1, <2>2, <2>3, <2>4 DEF IsKeyPair
  <2> QED BY <2>5 DEF pair
<1>2. ASSUME NEW seed PROVE IsKeyPair(from_binary_seed(seed))
  <2> DEFINE key == [root |-> seed.of, path |-> <<>>]
             code == Bytes(32, Part("chain", key))
  <2>1. from_binary_seed(seed) = new(Bytes(32, Part("private", key)), code, Absent)
    BY DEF from_binary_seed
  <2> HIDE DEF key
  <2> QED BY <1>1, <2>1
<1>3. ASSUME NEW key PROVE IsKeyPair(new(Bytes(33, Part("private", key)), Absent, Absent))
  BY <1>1
<1> QED BY <1>2, <1>3
-----------------------------------------------------------------------------
(***************************************************************************)
(* The other responses.                                                    *)
(***************************************************************************)

LEMMA LeeIsRead ==
  ASSUME NEW key
  PROVE  lee_from_tlv(LeeResponse(key))
           = [ask |-> Part("ASK", key), nsk |-> Part("NSK", key),
              vsk_d |-> Part("VSK_D", key), vsk_z |-> Part("VSK_Z", key)]
<1> DEFINE none == <<>>
           ask == Part("ASK", key)
           nsk == Part("NSK", key)
           vsk_d == Part("VSK_D", key)
           vsk_z == Part("VSK_Z", key)
           f2 == write_primitive(TLV.LEE_ASK, Bytes(32, ask))
           f3 == write_primitive(TLV.LEE_NSK, Bytes(32, nsk))
           f4 == write_primitive(TLV.LEE_VSK_D, Bytes(32, vsk_d))
           f5 == write_primitive(TLV.LEE_VSK_Z, Bytes(32, vsk_z))
           r5 == f5 \o none
           r4 == f4 \o r5
           r3 == f3 \o r4
           r2 == f2 \o r3
           content == Bytes(Len(r2), "content")
           S == {Item(TLV.LEE_ASK, Bytes(32, ask)), Item(TLV.LEE_NSK, Bytes(32, nsk)),
                 Item(TLV.LEE_VSK_D, Bytes(32, vsk_d)), Item(TLV.LEE_VSK_Z, Bytes(32, vsk_z)),
                 Item(TLV.KEY_TEMPLATE, content)}
           r1 == write_primitive(TLV.KEY_TEMPLATE, content) \o r2
           items == LeeResponse(key)
           w0 == <<>>
           w1 == Append(w0, content)
           w2 == Append(w1, Bytes(32, ask))
           w3 == Append(w2, Bytes(32, nsk))
           w4 == Append(w3, Bytes(32, vsk_d))
           w5 == Append(w4, Bytes(32, vsk_z))
<1> HIDE DEF none, ask, nsk, vsk_d, vsk_z, w0
<1>1. /\ Item(TLV.LEE_ASK, Bytes(32, ask)) \in S /\ Item(TLV.LEE_NSK, Bytes(32, nsk)) \in S
      /\ Item(TLV.LEE_VSK_D, Bytes(32, vsk_d)) \in S /\ Item(TLV.LEE_VSK_Z, Bytes(32, vsk_z)) \in S
      /\ Item(TLV.KEY_TEMPLATE, content) \in S
  <2> HIDE DEF content
  <2> QED OBVIOUS
<1> HIDE DEF S
<1>2. none \in Seq(S) /\ f2 \in Seq(S) /\ f3 \in Seq(S) /\ f4 \in Seq(S) /\ f5 \in Seq(S)
  BY <1>1 DEF none, write_primitive
<1> HIDE DEF f2, f3, f4, f5
<1>3. r5 = f5 /\ r5 \in Seq(S)
  BY <1>2 DEF none
<1> HIDE DEF r5
<1>4. r4 \in Seq(S)
  BY <1>2, <1>3
<1>5. r4 = f4 \o f5
  BY <1>3
<1> HIDE DEF r4
<1>6. r3 \in Seq(S)
  BY <1>2, <1>4
<1>7. r3 = Cat(f3, Cat(f4, f5))
  BY <1>5 DEF Cat
<1> HIDE DEF r3
<1>8. r2 \in Seq(S) /\ Len(r2) \in AnySize
  BY <1>2, <1>6 DEF AnySize
<1>9. r2 = Cat(f2, Cat(f3, Cat(f4, f5)))
  BY <1>7 DEF Cat
<1> HIDE DEF r2
<1>10. items = r1
  <2>1. Cat(Cat(Cat(f2, f3), f4), f5) = r2
    BY <1>2, <1>9, CatAssociates, CatIsASequence
  <2>2. f2 \o f3 \o f4 \o f5 = r2
    BY <2>1 DEF Cat
  <2>3. items = write_constructed(TLV.KEY_TEMPLATE, f2 \o f3 \o f4 \o f5)
    BY DEF LeeResponse, f2, f3, f4, f5, ask, nsk, vsk_d, vsk_z
  <2> HIDE DEF items
  <2> QED BY <2>2, <2>3 DEF write_constructed, write_primitive
<1>11. 32 \in Sizes(32)
  BY DEF Sizes
<1>12. Unread(r1, w0) & enter_constructed(TLV.KEY_TEMPLATE) = Unread(r2, w1)
  BY <1>1, <1>8, RequiredField DEF enter_constructed
<1>13. Unread(r2, w1) & Required(TLV.LEE_ASK, Sizes(32)) = Unread(r3, w2)
  <2> HIDE DEF w1
  <2> QED BY <1>1, <1>6, <1>11, RequiredField DEF r2, f2
<1>14. Unread(r3, w2) & Required(TLV.LEE_NSK, Sizes(32)) = Unread(r4, w3)
  <2> HIDE DEF w2
  <2> QED BY <1>1, <1>4, <1>11, RequiredField DEF r3, f3
<1>15. Unread(r4, w3) & Required(TLV.LEE_VSK_D, Sizes(32)) = Unread(r5, w4)
  <2> HIDE DEF w3
  <2> QED BY <1>1, <1>3, <1>11, RequiredField DEF r4, f4
<1>16. Unread(r5, w4) & Required(TLV.LEE_VSK_Z, Sizes(32)) = Unread(none, w5)
  <2> HIDE DEF w4
  <2> QED BY <1>1, <1>2, <1>11, RequiredField DEF r5, f5
<1>17. /\ w5[2] = Bytes(32, ask) /\ w5[3] = Bytes(32, nsk)
       /\ w5[4] = Bytes(32, vsk_d) /\ w5[5] = Bytes(32, vsk_z)
  <2> DEFINE V == {content, Bytes(32, ask), Bytes(32, nsk), Bytes(32, vsk_d), Bytes(32, vsk_z)}
  <2>1. /\ content \in V /\ Bytes(32, ask) \in V /\ Bytes(32, nsk) \in V
        /\ Bytes(32, vsk_d) \in V /\ Bytes(32, vsk_z) \in V
    OBVIOUS
  <2>2. /\ w1 = Append(<<>>, content) /\ w2 = Append(w1, Bytes(32, ask))
        /\ w3 = Append(w2, Bytes(32, nsk)) /\ w4 = Append(w3, Bytes(32, vsk_d))
        /\ w5 = Append(w4, Bytes(32, vsk_z))
    BY DEF w0
  <2> HIDE DEF content, V, w1, w2, w3, w4, w5
  <2> QED BY <2>1, <2>2, ValuesInOrder
<1> HIDE DEF w1, w2, w3, w4, w5
<1>18. read_lee(r1) = Unread(none, w5)
  <2>1. read_lee(r1) = Unread(r1, w0) & enter_constructed(TLV.KEY_TEMPLATE)
                       & Required(TLV.LEE_ASK, Sizes(32)) & Required(TLV.LEE_NSK, Sizes(32))
                       & Required(TLV.LEE_VSK_D, Sizes(32)) & Required(TLV.LEE_VSK_Z, Sizes(32))
    <3> HIDE DEF r1
    <3> QED BY StartIsUnread DEF read_lee, w0
  <2> HIDE DEF r1
  <2> QED BY <1>12, <1>13, <1>14, <1>15, <1>16, <2>1
<1> DEFINE read == read_lee(r1)
<1> HIDE DEF r1
<1>19. read # Err /\ read.values = w5
  BY <1>18, NoErr DEF Unread
<1>20. lee_from_tlv(r1) = IF read = Err THEN Err
                           ELSE [ask |-> read.values[2].of, nsk |-> read.values[3].of,
                                 vsk_d |-> read.values[4].of, vsk_z |-> read.values[5].of]
  BY Zenon DEF lee_from_tlv
<1> HIDE DEF read, items
<1>21. lee_from_tlv(items) = [ask |-> ask, nsk |-> nsk, vsk_d |-> vsk_d, vsk_z |-> vsk_z]
  BY <1>10, <1>17, <1>19, <1>20, BytesFields
<1> QED BY <1>21 DEF items, ask, nsk, vsk_d, vsk_z

\* The words of a mnemonic are those of the indexes in the response.
LEMMA MnemonicIsRead ==
  ASSUME NEW first \in Indexes, NEW second \in Indexes
  PROVE  words(set_bip39_english(mnemonic_from_card_response(
           <<first \div 256, first % 256, second \div 256, second % 256>>)))
           = Phrase(<<first, second>>)
<1> DEFINE b1 == first \div 256
           b2 == first % 256
           b3 == second \div 256
           b4 == second % 256
           bytes == <<b1, b2, b3, b4>>
           read == [i \in 1 .. Len(bytes) \div 2 |-> bytes[2 * i - 1] * 256 + bytes[2 * i]]
           given == set_bip39_english(mnemonic_from_card_response(bytes))
<1>1. first \in 0 .. WORDS - 1 /\ second \in 0 .. WORDS - 1 /\ WORDS - 1 \in Int
  BY MaterialAssumption DEF WORDS
<1>2. b1 * 256 + b2 = first /\ b3 * 256 + b4 = second
  BY <1>1
<1> HIDE DEF b1, b2, b3, b4
<1>3. Len(bytes) = 4 /\ bytes[1] = b1 /\ bytes[2] = b2 /\ bytes[3] = b3 /\ bytes[4] = b4
  OBVIOUS
<1>4. given.indexes = read /\ given.wordlist # Absent
  BY DEF mnemonic_from_card_response, set_bip39_english, Absent
<1> HIDE DEF bytes, given
<1>5. read = <<first, second>>
  <2>1. Len(bytes) \div 2 = 2
    BY <1>3
  <2>2. read = [i \in 1 .. 2 |-> bytes[2 * i - 1] * 256 + bytes[2 * i]]
    BY <2>1
  <2> QED BY <1>2, <1>3, <2>2
<1> HIDE DEF read
<1>6. ~ \E i \in DOMAIN read : read[i] >= WORDS
  <2>1. DOMAIN read = 1 .. 2 /\ read[1] = first /\ read[2] = second
    BY <1>5
  <2>2. ~ (first >= WORDS) /\ ~ (second >= WORDS)
    BY <1>1 DEF WORDS
  <2> QED BY <2>1, <2>2
<1>7. words(given) = Phrase(read)
  BY <1>4, <1>6 DEF words
<1> QED BY <1>5, <1>7 DEF given, bytes, b1, b2, b3, b4
-----------------------------------------------------------------------------
(***************************************************************************)
(* Signatures and identities.                                              *)
(***************************************************************************)

\* A signature of this key over this message, as the caller parsed it.
SignedBy(signature, key, hash) ==
  /\ signature # Err
  /\ signature.public_key = Bytes(65, Part("public", key))
  /\ signature.over[1] = hash

LEMMA SignatureIsNoErr == \A pub, over : [public_key |-> pub, over |-> over] # Err
<1> SUFFICES ASSUME NEW pub, NEW over PROVE [public_key |-> pub, over |-> over] # Err
  OBVIOUS
<1>1. "over" \in DOMAIN [public_key |-> pub, over |-> over] /\ "over" \notin DOMAIN Err
  BY DEF Err
<1> QED BY <1>1

LEMMA SignatureOf ==
  ASSUME NEW key, NEW over, NEW signature,
         signature = [public_key |-> Bytes(65, Part("public", key)), over |-> over]
  PROVE  SignedBy(signature, key, over[1])
  BY SignatureIsNoErr DEF SignedBy

\* What the caller gets: a signature of the key, or a refusal if r or s is short.
AnsweredBy(signature, short, key, hash) ==
  IF signature = Err THEN short ELSE SignedBy(signature, key, hash)

\* A response to SIGN in the raw form recovers the key that signed.
LEMMA Recovered ==
  ASSUME NEW key, NEW hash
  PROVE  LET half == Bytes(32, Sig(key, hash))
         IN  recover_public_key(1, hash, half, half) = Bytes(65, Part("public", key))
<1>1. /\ Sig(key, hash).rec_id = 1 /\ Sig(key, hash).over = hash /\ Sig(key, hash).key = key
  BY DEF Sig
<1> DEFINE half == Bytes(32, Sig(key, hash))
<1>2. half.size = 32 /\ half.of = Sig(key, hash)
  BY BytesFields
<1> HIDE DEF half
<1>3. recover_public_key(1, hash, half, half) = Bytes(65, Part("public", key))
  BY <1>1, <1>2 DEF recover_public_key
<1> QED BY <1>3 DEF half

Parsed(key, hash) == [public_key |-> Bytes(65, Part("public", key)), over |-> <<hash>>]

LEMMA RawIsParsed ==
  ASSUME NEW key, NEW hash
  PROVE  recoverable_from_card_response(hash, write_primitive(RAW_SIGNATURE, Bytes(65, Sig(key, hash))))
           = Parsed(key, hash)
<1> DEFINE sig == Sig(key, hash)
           value == Bytes(65, sig)
           items == write_primitive(RAW_SIGNATURE, value)
           half == Bytes(32, value.of)
           recovered == recover_public_key(value.of.rec_id, hash, half, half)
<1>1. next_tag_is(items, RAW_SIGNATURE)
  BY DEF write_primitive, next_tag_is, Item
<1>2. read_primitive(items, RAW_SIGNATURE) = value
  <2>1. items[1].value = value
    BY DEF write_primitive, Item
  <2> HIDE DEF items, value
  <2> QED BY <1>1, <2>1 DEF read_primitive
<1>3. value # Err /\ value.size = 65 /\ value.of = sig
  BY NoErr, BytesFields
<1> HIDE DEF items, value
<1>4. recovered = Bytes(65, Part("public", key)) /\ recovered # Absent
  <2>1. sig.rec_id = 1
    BY DEF Sig
  <2>2. recovered = recover_public_key(1, hash, Bytes(32, sig), Bytes(32, sig))
    BY <1>3, <2>1
  <2> HIDE DEF recovered
  <2>3. recovered = Bytes(65, Part("public", key))
    BY <2>2, Recovered
  <2> QED BY <2>3, NoErr
<1>5. init_from_raw_signature(hash, value)
        = IF value.size # 65 THEN Err
          ELSE IF recovered = Absent THEN Err
          ELSE [public_key |-> recovered, over |-> <<hash>>]
  BY Zenon DEF init_from_raw_signature
<1> HIDE DEF recovered, sig
<1>6. init_from_raw_signature(hash, value)
        = [public_key |-> Bytes(65, Part("public", key)), over |-> <<hash>>]
  BY <1>3, <1>4, <1>5
<1>7. recoverable_from_card_response(hash, items) = init_from_raw_signature(hash, value)
  BY <1>1, <1>2, <1>3, Zenon DEF recoverable_from_card_response
<1> QED BY <1>6, <1>7 DEF items, value, sig, Parsed

LEMMA SignatureTags ==
  /\ TLV.PUB_KEY # TLV.SIGNATURE_TEMPLATE /\ TLV.SIGNATURE_TEMPLATE # RAW_SIGNATURE
  BY DEF TLV, RAW_SIGNATURE

\* What read_legacy reads of a legacy response.
LEMMA LegacyIsRead ==
  ASSUME NEW key, NEW r_size \in Nat, NEW r_of, NEW s_size \in Nat, NEW s_of
  PROVE  LET items == LegacyResponse(key, Bytes(r_size, r_of), Bytes(s_size, s_of))
         IN  /\ ~next_tag_is(items, RAW_SIGNATURE) /\ next_tag_is(items, TLV.SIGNATURE_TEMPLATE)
             /\ read_legacy(items) # Err
             /\ read_legacy(items).values[2] = Bytes(65, Part("public", key))
             /\ read_legacy(items).values[4] = Bytes(r_size, r_of)
             /\ read_legacy(items).values[5] = Bytes(s_size, s_of)
<1> DEFINE none == <<>>
           pub == Part("public", key)
           r == Bytes(r_size, r_of)
           s == Bytes(s_size, s_of)
           f2 == write_primitive(TLV.PUB_KEY, Bytes(65, pub))
           f4 == write_primitive(TLV.INT, r)
           f5 == write_primitive(TLV.INT, s)
           r5 == f5 \o none
           r4 == f4 \o r5
           inner == Bytes(Len(r4), "content")
           f3 == write_primitive(TLV.ECDSA_TEMPLATE, inner)
           r3 == f3 \o r4
           r2 == f2 \o r3
           content == Bytes(Len(r2), "content")
           S == {Item(TLV.PUB_KEY, Bytes(65, pub)), Item(TLV.ECDSA_TEMPLATE, inner),
                 Item(TLV.INT, r), Item(TLV.INT, s),
                 Item(TLV.SIGNATURE_TEMPLATE, content)}
           r1 == write_primitive(TLV.SIGNATURE_TEMPLATE, content) \o r2
           items == LegacyResponse(key, r, s)
           w0 == <<>>
           w1 == Append(w0, content)
           w2 == Append(w1, Bytes(65, pub))
           w3 == Append(w2, inner)
           w4 == Append(w3, r)
           w5 == Append(w4, s)
<1> HIDE DEF none, pub, w0
<1>1. /\ Item(TLV.PUB_KEY, Bytes(65, pub)) \in S /\ Item(TLV.ECDSA_TEMPLATE, inner) \in S
      /\ Item(TLV.INT, r) \in S /\ Item(TLV.INT, s) \in S
      /\ Item(TLV.SIGNATURE_TEMPLATE, content) \in S
  <2> HIDE DEF content, inner
  <2> QED OBVIOUS
<1> HIDE DEF S
<1>2. none \in Seq(S) /\ f2 \in Seq(S) /\ f3 \in Seq(S) /\ f4 \in Seq(S) /\ f5 \in Seq(S)
  <2> HIDE DEF inner
  <2> QED BY <1>1 DEF none, write_primitive
<1> HIDE DEF f2, f4, f5
<1>3. r5 = f5 /\ r5 \in Seq(S)
  BY <1>2 DEF none
<1> HIDE DEF r5
<1>4. r4 \in Seq(S) /\ Len(r4) \in AnySize
  BY <1>2, <1>3 DEF AnySize
<1>5. r4 = f4 \o f5
  BY <1>3
<1> HIDE DEF r4, f3
<1>6. r3 \in Seq(S)
  BY <1>2, <1>4
<1> HIDE DEF r3
<1>8. r2 \in Seq(S) /\ Len(r2) \in AnySize
  BY <1>2, <1>6 DEF AnySize
<1> HIDE DEF r2
<1>10. items = r1
  <2>1. items = write_constructed(TLV.SIGNATURE_TEMPLATE,
                                  f2 \o write_constructed(TLV.ECDSA_TEMPLATE, f4 \o f5))
    BY DEF LegacyResponse, f2, f4, f5, pub
  <2>2. write_constructed(TLV.ECDSA_TEMPLATE, f4 \o f5) = r3
    BY <1>5 DEF write_constructed, write_primitive, r3, f3
  <2>3. f2 \o r3 = r2
    BY DEF r2
  <2> HIDE DEF items
  <2> QED BY <2>1, <2>2, <2>3 DEF write_constructed, write_primitive
<1>12. Unread(r1, w0) & enter_constructed(TLV.SIGNATURE_TEMPLATE) = Unread(r2, w1)
  BY <1>1, <1>8, RequiredField DEF enter_constructed
<1>13. Unread(r2, w1) & Required(TLV.PUB_KEY, AnySize) = Unread(r3, w2)
  <2>1. 65 \in AnySize
    BY DEF AnySize
  <2> HIDE DEF w1
  <2> QED BY <1>1, <1>6, <2>1, RequiredField DEF r2, f2
<1>14. Unread(r3, w2) & enter_constructed(TLV.ECDSA_TEMPLATE) = Unread(r4, w3)
  <2> HIDE DEF w2
  <2> QED BY <1>1, <1>4, RequiredField DEF r3, f3, enter_constructed
<1>15. Unread(r4, w3) & Required(TLV.INT, AnySize) = Unread(r5, w4)
  <2> HIDE DEF w3
  <2> QED BY <1>1, <1>3, RequiredField DEF r4, f4, AnySize
<1>16. Unread(r5, w4) & Required(TLV.INT, AnySize) = Unread(none, w5)
  <2> HIDE DEF w4
  <2> QED BY <1>1, <1>2, RequiredField DEF r5, f5, AnySize
<1>17. w5[2] = Bytes(65, pub) /\ w5[4] = r /\ w5[5] = s
  <2> DEFINE V == {content, inner, Bytes(65, pub), r, s}
  <2>1. /\ content \in V /\ Bytes(65, pub) \in V /\ inner \in V
        /\ r \in V /\ s \in V
    OBVIOUS
  <2>2. /\ w1 = Append(<<>>, content) /\ w2 = Append(w1, Bytes(65, pub))
        /\ w3 = Append(w2, inner) /\ w4 = Append(w3, r)
        /\ w5 = Append(w4, s)
    BY DEF w0
  <2> HIDE DEF content, inner, V, w1, w2, w3, w4, w5
  <2> QED BY <2>1, <2>2, ValuesInOrder
<1> HIDE DEF w1, w2, w3, w4, w5
<1>18. read_legacy(r1) = Unread(none, w5)
  <2>1. read_legacy(r1) = Unread(r1, w0) & enter_constructed(TLV.SIGNATURE_TEMPLATE)
                          & Required(TLV.PUB_KEY, AnySize) & enter_constructed(TLV.ECDSA_TEMPLATE)
                          & Required(TLV.INT, AnySize) & Required(TLV.INT, AnySize)
    <3> HIDE DEF r1
    <3> QED BY StartIsUnread DEF read_legacy, w0
  <2> HIDE DEF r1
  <2> QED BY <1>12, <1>13, <1>14, <1>15, <1>16, <2>1
<1>19. ~next_tag_is(r1, RAW_SIGNATURE) /\ next_tag_is(r1, TLV.SIGNATURE_TEMPLATE)
  <2> DEFINE i == Item(TLV.SIGNATURE_TEMPLATE, content)
  <2>1. i \in S /\ i.tag = TLV.SIGNATURE_TEMPLATE /\ r1 = <<i>> \o r2
    BY <1>1 DEF Item, write_primitive
  <2> HIDE DEF i, r1
  <2> QED BY <1>8, <2>1, NextTag, SignatureTags
<1> HIDE DEF r1, items
<1>20. read_legacy(items) # Err /\ read_legacy(items).values = w5
  BY <1>10, <1>18, NoErr DEF Unread
<1> QED BY <1>10, <1>17, <1>19, <1>20 DEF items, pub

LEMMA ToUint ==
  ASSUME NEW needed \in 1 .. 32, NEW zero \in BOOLEAN, NEW sig
  PROVE  to_uint(SignedInt(needed, zero, sig)) = Bytes(needed, sig)
<1> DEFINE int == SignedInt(needed, zero, sig)
           size == IF zero THEN needed + 1 ELSE needed
           of == [zero |-> zero, sig |-> sig]
<1>1. int = Bytes(size, of) /\ of.zero = zero /\ of.sig = sig
  BY DEF SignedInt
<1> HIDE DEF of
<1>2. int.size = size /\ int.of = of
  <2> HIDE DEF size, int
  <2> QED BY <1>1, BytesFields
<1> HIDE DEF int
<1>3. ASSUME zero = TRUE PROVE to_uint(int) = Bytes(needed, sig)
  <2>1. size \in Int /\ size > 1 /\ size - 1 = needed
    BY <1>3
  <2> HIDE DEF size
  <2>2. to_uint(int) = Bytes(size - 1, sig)
    BY <1>1, <1>2, <1>3, <2>1 DEF to_uint
  <2> QED BY <2>1, <2>2
<1>4. ASSUME zero = FALSE PROVE to_uint(int) = Bytes(needed, sig)
  <2>1. size = needed
    BY <1>4
  <2> HIDE DEF size
  <2> QED BY <1>1, <1>2, <1>4, <2>1 DEF to_uint
<1>5. to_uint(int) = Bytes(needed, sig)
  BY <1>3, <1>4
<1> QED BY <1>5 DEF int

Legacy(key, hash, r, s, r_zero, s_zero) ==
  LegacyResponse(key, SignedInt(r, r_zero, Sig(key, hash)), SignedInt(s, s_zero, Sig(key, hash)))

\* The legacy parser finds the rec_id under which the key of the template is
\* recovered, if r and s fill their 32 bytes; otherwise it refuses.
LEMMA LegacyIsParsed ==
  ASSUME NEW key, NEW hash, NEW r \in 1 .. 32, NEW s \in 1 .. 32,
         NEW r_zero \in BOOLEAN, NEW s_zero \in BOOLEAN
  PROVE  LET answer == recoverable_from_card_response(hash, Legacy(key, hash, r, s, r_zero, s_zero))
         IN  answer = Parsed(key, hash) \/ (answer = Err /\ ~(r = 32 /\ s = 32))
<1> DEFINE sig == Sig(key, hash)
           pub == Bytes(65, Part("public", key))
           int_r == SignedInt(r, r_zero, sig)
           int_s == SignedInt(s, s_zero, sig)
           items == LegacyResponse(key, int_r, int_s)
           read == read_legacy(items)
           uint_r == to_uint(read.values[4])
           uint_s == to_uint(read.values[5])
           rec_ids == {i \in 0 .. 3 : recover_public_key(i, hash, uint_r, uint_s) = read.values[2]}
<1>1. /\ ~next_tag_is(items, RAW_SIGNATURE) /\ next_tag_is(items, TLV.SIGNATURE_TEMPLATE)
      /\ read # Err /\ read.values[2] = pub
      /\ read.values[4] = int_r /\ read.values[5] = int_s
  <2> DEFINE r_size == IF r_zero THEN r + 1 ELSE r
             s_size == IF s_zero THEN s + 1 ELSE s
             r_of == [zero |-> r_zero, sig |-> sig]
             s_of == [zero |-> s_zero, sig |-> sig]
  <2>1. r_size \in Nat /\ s_size \in Nat
    OBVIOUS
  <2>2. int_r = Bytes(r_size, r_of) /\ int_s = Bytes(s_size, s_of)
    BY DEF SignedInt
  <2> DEFINE response == LegacyResponse(key, Bytes(r_size, r_of), Bytes(s_size, s_of))
  <2> HIDE DEF r_size, s_size, r_of, s_of, int_r, int_s, read
  <2>3. /\ ~next_tag_is(response, RAW_SIGNATURE) /\ next_tag_is(response, TLV.SIGNATURE_TEMPLATE)
        /\ read_legacy(response) # Err /\ read_legacy(response).values[2] = pub
        /\ read_legacy(response).values[4] = Bytes(r_size, r_of)
        /\ read_legacy(response).values[5] = Bytes(s_size, s_of)
    BY <2>1, LegacyIsRead
  <2>4. response = items
    BY <2>2
  <2> HIDE DEF response, items, pub
  <2> QED BY <2>2, <2>3, <2>4 DEF read
<1>2. init_from_legacy(hash, items)
        = IF read = Err THEN Err
          ELSE IF rec_ids = {} THEN Err
          ELSE [public_key |-> read.values[2], over |-> <<hash>>]
  <2> HIDE DEF items
  <2> QED BY DEF init_from_legacy
<1>3. recoverable_from_card_response(hash, items) = init_from_legacy(hash, items)
  <2> HIDE DEF items
  <2> QED BY <1>1, Zenon DEF recoverable_from_card_response
<1> HIDE DEF items, read
<1>4. uint_r = Bytes(r, sig) /\ uint_s = Bytes(s, sig)
  <2> HIDE DEF sig
  <2> QED BY <1>1, ToUint
<1> HIDE DEF uint_r, uint_s, pub
<1>5. r = 32 /\ s = 32 => rec_ids # {}
  <2>1. ASSUME r = 32, s = 32 PROVE recover_public_key(1, hash, uint_r, uint_s) = pub
    BY <1>4, <2>1, Recovered DEF pub
  <2>2. ASSUME r = 32, s = 32 PROVE 1 \in rec_ids
    BY <1>1, <2>1, <2>2
  <2> QED BY <2>2
<1> HIDE DEF rec_ids
<1>6. \/ init_from_legacy(hash, items) = [public_key |-> pub, over |-> <<hash>>]
      \/ init_from_legacy(hash, items) = Err /\ ~(r = 32 /\ s = 32)
  BY <1>1, <1>2, <1>5
<1> QED BY <1>3, <1>6 DEF items, int_r, int_s, pub, sig, Legacy, Parsed

\* Every response to SIGN about this hash is parsed to a signature of the key, or
\* refused because its r or s is short.
LEMMA EcdsaIsParsed ==
  ASSUME NEW key, NEW hash, NEW response \in EcdsaResponses(key, hash)
  PROVE  AnsweredBy(recoverable_from_card_response(hash, response.items), response.short, key, hash)
<1> DEFINE sig == Sig(key, hash)
           raw == write_primitive(RAW_SIGNATURE, Bytes(65, sig))
           over == <<hash>>
           parsed == Parsed(key, hash)
           answer == recoverable_from_card_response(hash, response.items)
<1>1. parsed # Err /\ SignedBy(parsed, key, hash)
  <2>1. over[1] = hash
    OBVIOUS
  <2>2. parsed = [public_key |-> Bytes(65, Part("public", key)), over |-> over]
    BY DEF Parsed, over
  <2> HIDE DEF over, parsed
  <2> QED BY <2>1, <2>2, SignatureIsNoErr, SignatureOf
<1>2. \/ response = [short |-> FALSE, items |-> raw]
      \/ \E r \in IntegerSizes, s \in IntegerSizes, r_zero \in BOOLEAN, s_zero \in BOOLEAN :
           response = [short |-> Short(r, s), items |-> Legacy(key, hash, r, s, r_zero, s_zero)]
  BY DEF EcdsaResponses, Legacy
<1>3. CASE response = [short |-> FALSE, items |-> raw]
  <2>1. response.items = raw
    BY <1>3
  <2> HIDE DEF raw, parsed, answer
  <2>2. answer = parsed
    BY <2>1, RawIsParsed DEF raw, parsed, answer
  <2> QED BY <1>1, <2>2 DEF AnsweredBy, answer
<1>4. ASSUME NEW r \in IntegerSizes, NEW s \in IntegerSizes,
             NEW r_zero \in BOOLEAN, NEW s_zero \in BOOLEAN,
             response = [short |-> Short(r, s), items |-> Legacy(key, hash, r, s, r_zero, s_zero)]
      PROVE  AnsweredBy(recoverable_from_card_response(hash, response.items), response.short, key, hash)
  <2>1. r \in 1 .. 32 /\ s \in 1 .. 32
    BY MaterialAssumption
  <2>2. response.items = Legacy(key, hash, r, s, r_zero, s_zero)
    BY <1>4
  <2>3. response.short = Short(r, s)
    BY <1>4
  <2>4. answer = parsed \/ (answer = Err /\ ~(r = 32 /\ s = 32))
    BY <2>1, <2>2, LegacyIsParsed
  <2> HIDE DEF answer
  <2> HIDE DEF parsed, answer
  <2>5. CASE answer = parsed
    BY <1>1, <2>5 DEF AnsweredBy, answer
  <2>6. CASE answer = Err /\ ~(r = 32 /\ s = 32)
    <3>2. Short(r, s)
      BY <2>1, <2>6 DEF Short
    <3>1. response.short
      BY <2>3, <3>2, Zenon
    <3> QED BY <2>6, <3>1 DEF AnsweredBy, answer
  <2> QED BY <2>4, <2>5, <2>6
<1> HIDE DEF raw
<1> QED BY <1>2, <1>3, <1>4

\* A Schnorr signature of this key, its public key in one of three encodings.
SchnorrBy(signature, key) ==
  \E size \in {32, 33, 65} :
    signature = [public_key |-> Bytes(size, Part("public", key)), r_and_s |-> Part("schnorr", key)]

LEMMA SchnorrAnswer ==
  ASSUME NEW signature, NEW key, SchnorrBy(signature, key)
  PROVE  /\ signature # Err
         /\ x_only_pubkey(signature.public_key) = Bytes(32, Part("public", key))
         /\ signature.r_and_s = Part("schnorr", key)
<1> DEFINE pub == Part("public", key)
           schnorr == Part("schnorr", key)
<1>1. PICK size \in {32, 33, 65} : signature = [public_key |-> Bytes(size, pub), r_and_s |-> schnorr]
  BY DEF SchnorrBy
<1> HIDE DEF pub, schnorr
<1>2. "r_and_s" \in DOMAIN signature /\ "r_and_s" \notin DOMAIN Err
  BY <1>1 DEF Err
<1>3. signature.public_key = Bytes(size, pub) /\ signature.r_and_s = schnorr
  BY <1>1
<1>4. x_only_pubkey(signature.public_key) = Bytes(32, pub)
  BY <1>3, BytesFields DEF x_only_pubkey
<1> QED BY <1>2, <1>3, <1>4 DEF pub, schnorr

\* Every response to a Schnorr SIGN is parsed, in a template or not.
LEMMA SchnorrIsParsed ==
  ASSUME NEW key, NEW response \in SchnorrResponses(key)
  PROVE  SchnorrBy(schnorr_from_card_response(response), key)
<1>17. PICK size \in {32, 33, 65} :
         \/ response = SchnorrContent(key, size)
         \/ response = write_constructed(TLV.SIGNATURE_TEMPLATE, SchnorrContent(key, size))
  BY DEF SchnorrResponses
<1> DEFINE none == <<>>
           pub == Part("public", key)
           sig == Part("schnorr", key)
           f1 == write_primitive(TLV.PUB_KEY, Bytes(size, pub))
           f2 == write_primitive(TLV.SCHNORR_SIGNATURE, Bytes(64, sig))
           r2 == f2 \o none
           r1 == f1 \o r2
           S == {Item(TLV.PUB_KEY, Bytes(size, pub)), Item(TLV.SCHNORR_SIGNATURE, Bytes(64, sig)),
                 Item(TLV.SIGNATURE_TEMPLATE, Bytes(Len(r1), "content"))}
           wrapped == write_primitive(TLV.SIGNATURE_TEMPLATE, Bytes(Len(r1), "content")) \o r1
           w0 == <<>>
           w1 == Append(w0, Bytes(size, pub))
           w2 == Append(w1, Bytes(64, sig))
<1>1. size \in AnySize
  BY DEF AnySize
<1> HIDE DEF none, pub, sig, w0
<1>2. /\ Item(TLV.PUB_KEY, Bytes(size, pub)) \in S
      /\ Item(TLV.SCHNORR_SIGNATURE, Bytes(64, sig)) \in S
      /\ Item(TLV.SIGNATURE_TEMPLATE, Bytes(Len(r1), "content")) \in S
  <2> HIDE DEF r1
  <2> QED OBVIOUS
<1> HIDE DEF S
<1>3. none \in Seq(S) /\ f1 \in Seq(S) /\ f2 \in Seq(S)
  BY <1>2 DEF none, write_primitive
<1> HIDE DEF f1, f2
<1>4. r2 = f2 /\ r2 \in Seq(S)
  BY <1>3 DEF none
<1> HIDE DEF r2
<1>5. r1 \in Seq(S) /\ r1 = f1 \o f2
  BY <1>3, <1>4
<1>6. ~next_tag_is(r1, TLV.SIGNATURE_TEMPLATE)
  <2> DEFINE i == Item(TLV.PUB_KEY, Bytes(size, pub))
  <2>1. i \in S /\ i.tag = TLV.PUB_KEY /\ r1 = <<i>> \o r2
    BY <1>2 DEF Item, write_primitive, f1
  <2> HIDE DEF i, r1
  <2> QED BY <1>4, <2>1, NextTag, SignatureTags
<1> HIDE DEF r1
<1>7. next_tag_is(wrapped, TLV.SIGNATURE_TEMPLATE) /\ Tail(wrapped) = r1
  <2> DEFINE i == Item(TLV.SIGNATURE_TEMPLATE, Bytes(Len(r1), "content"))
  <2>1. i \in S /\ i.tag = TLV.SIGNATURE_TEMPLATE /\ wrapped = <<i>> \o r1
    BY <1>2 DEF Item, write_primitive
  <2> HIDE DEF i, wrapped
  <2>2. next_tag_is(wrapped, TLV.SIGNATURE_TEMPLATE)
    BY <1>5, <2>1, NextTag
  <2>3. Tail(<<i>> \o r1) = r1
    BY <1>5, <2>1, HeadAndRest
  <2> QED BY <2>1, <2>2, <2>3
<1>8. response = r1 \/ response = wrapped
  <2>1. SchnorrContent(key, size) = f1 \o f2
    BY DEF SchnorrContent, f1, f2, pub, sig
  <2> QED BY <1>5, <1>17, <2>1 DEF write_constructed, write_primitive
<1> HIDE DEF wrapped
<1> DEFINE items == IF next_tag_is(response, TLV.SIGNATURE_TEMPLATE) THEN Tail(response) ELSE response
           read == read_schnorr(items)
<1>9. items = r1
  BY <1>6, <1>7, <1>8
<1>10. schnorr_from_card_response(response)
         = IF read = Err THEN Err
           ELSE [public_key |-> read.values[1], r_and_s |-> read.values[2].of]
  BY Zenon DEF schnorr_from_card_response
<1> HIDE DEF items
<1>11. Unread(r1, w0) & Required(TLV.PUB_KEY, AnySize) = Unread(r2, w1)
  BY <1>1, <1>2, <1>4, RequiredField DEF r1, f1
<1>12. Unread(r2, w1) & Required(TLV.SCHNORR_SIGNATURE, Sizes(64)) = Unread(none, w2)
  <2>1. 64 \in Sizes(64)
    BY DEF Sizes
  <2> HIDE DEF w1
  <2> QED BY <1>2, <1>3, <2>1, RequiredField DEF r2, f2
<1>13. w2[1] = Bytes(size, pub) /\ w2[2] = Bytes(64, sig)
  <2> DEFINE V == {Bytes(size, pub), Bytes(64, sig)}
  <2>1. Bytes(size, pub) \in V /\ Bytes(64, sig) \in V
    OBVIOUS
  <2> HIDE DEF V
  <2> QED BY <2>1 DEF w0
<1> HIDE DEF w1, w2
<1>14. read_schnorr(r1) = Unread(none, w2)
  BY <1>11, <1>12, StartIsUnread DEF read_schnorr, w0
<1>15. read # Err /\ read.values = w2
  BY <1>9, <1>14, NoErr DEF Unread
<1> HIDE DEF read
<1>16. schnorr_from_card_response(response) = [public_key |-> Bytes(size, pub), r_and_s |-> sig]
  BY <1>10, <1>13, <1>15, BytesFields
<1> QED BY <1>16 DEF SchnorrBy, pub, sig

\* A CA is named exactly if the certified key signed this challenge.
LEMMA IdentityIsVerified ==
  ASSUME NEW hash, NEW response \in IdentityResponses
  PROVE  LET cert == response[2].value.of
         IN  verify_identity(hash, response)
               = IF response[3].value.of = [by |-> cert.ident, over |-> hash] THEN cert.ca ELSE Err
<1>1. PICK cert \in [ident : Issuers, ca : Issuers],
           sig \in [by : Issuers, over : {"challenge", "another"}], size \in {65, 71} :
        response = IdentityResponse(cert, sig, size)
  <2> DEFINE certs == [ident : Issuers, ca : Issuers]
             sigs == [by : Issuers, over : {"challenge", "another"}]
             sizes == {65, 71}
  <2>1. response \in {IdentityResponse(c, g, n) : c \in certs, g \in sigs, n \in sizes}
    BY DEF IdentityResponses
  <2> HIDE DEF certs, sigs, sizes
  <2>2. \E c \in certs, g \in sigs, n \in sizes : response = IdentityResponse(c, g, n)
    BY <2>1
  <2> QED BY <2>2 DEF certs, sigs, sizes
<1>20. size \in Nat
  OBVIOUS
<1> DEFINE last_item == Item(TLV.ECDSA_TEMPLATE, Bytes(size, sig))
           r3 == <<last_item>>
           cert_item == Item(TLV.CERT, Bytes(98, cert))
           r2 == write_primitive(TLV.CERT, Bytes(98, cert)) \o r3
           content == Bytes(Len(r2), "content")
           header == Item(TLV.SIGNATURE_TEMPLATE, content)
           r1 == write_primitive(TLV.SIGNATURE_TEMPLATE, content) \o r2
           S == {last_item, cert_item, header}
           w0 == <<>>
           w1 == Append(w0, content)
           w2 == Append(w1, Bytes(98, cert))
<1>2. response = r1
  BY <1>1 DEF IdentityResponse, write_constructed, write_primitive
<1>3. cert # Err
  <2>1. "ca" \in DOMAIN cert /\ "ca" \notin DOMAIN Err
    BY DEF Err
  <2> QED BY <2>1
<1> HIDE DEF w0
<1>4. last_item \in S /\ cert_item \in S /\ header \in S
  <2> HIDE DEF last_item, cert_item, header
  <2> QED OBVIOUS
<1>5. last_item.value = Bytes(size, sig) /\ cert_item.value = Bytes(98, cert)
  BY DEF Item
<1> HIDE DEF S
<1>6. r3 \in Seq(S) /\ r3 # <<>> /\ r3[1] = last_item
  <2> HIDE DEF last_item
  <2> QED BY <1>4
<1> HIDE DEF r3
<1>7. r2 = <<cert_item>> \o r3
  BY DEF write_primitive
<1>8. r2 \in Seq(S) /\ Len(r2) \in AnySize /\ r2[1] = cert_item /\ r2[2] = r3[1] /\ Len(r2) >= 2
  <2> HIDE DEF r2, cert_item
  <2> QED BY <1>4, <1>6, <1>7 DEF AnySize
<1> HIDE DEF r2
<1>9. r1 = <<header>> \o r2
  BY DEF write_primitive
<1>10. r1[2] = cert_item /\ r1[3] = last_item
  <2> HIDE DEF r1, header, cert_item, last_item
  <2> QED BY <1>4, <1>6, <1>8, <1>9
<1>11. Unread(r1, w0) & enter_constructed(TLV.SIGNATURE_TEMPLATE) = Unread(r2, w1)
  <2> HIDE DEF w0
  <2> QED BY <1>4, <1>8, RequiredField DEF enter_constructed
<1>12. Unread(r2, w1) & Required(TLV.CERT, AnySize) = Unread(r3, w2)
  <2>1. 98 \in AnySize
    BY DEF AnySize
  <2> HIDE DEF w1
  <2> QED BY <1>4, <1>6, <2>1, RequiredField DEF r2
<1>13. w2[2] = Bytes(98, cert)
  <2> DEFINE V == {content, Bytes(98, cert)}
  <2>1. content \in V /\ Bytes(98, cert) \in V
    OBVIOUS
  <2> HIDE DEF V, content
  <2> QED BY <2>1 DEF w0
<1> HIDE DEF w1, w2, r1
<1> DEFINE read == Start(response) & enter_constructed(TLV.SIGNATURE_TEMPLATE)
                   & Required(TLV.CERT, AnySize)
<1>14. read = Unread(r3, w2)
  BY <1>2, <1>11, <1>12, StartIsUnread DEF w0
<1>15. verify_identity(hash, response)
         = IF read = Err THEN Err
           ELSE IF certificate(read.values[2]) = Err \/ read.unread = <<>> THEN Err
           ELSE IF read.unread[1].value.of = [by |-> certificate(read.values[2]).ident, over |-> hash]
                  THEN certificate(read.values[2]).ca ELSE Err
  BY Zenon DEF verify_identity
<1> HIDE DEF read
<1>16. read # Err /\ read.values = w2 /\ read.unread = r3
  BY <1>14, NoErr DEF Unread
<1>17. certificate(read.values[2]) = cert
  BY <1>13, <1>16, BytesFields DEF certificate
<1>18. read.unread[1].value.of = sig
  BY <1>5, <1>6, <1>16, BytesFields
<1>19. response[2].value.of = cert /\ response[3].value.of = sig
  BY <1>2, <1>5, <1>10, BytesFields
<1> QED BY <1>3, <1>6, <1>15, <1>16, <1>17, <1>18, <1>19
-----------------------------------------------------------------------------
(***************************************************************************)
(* The inductive invariant: of KeyCommands, and of what was returned last. *)
(***************************************************************************)
AnswerIsFine ==
  /\ got.op = "export" => PairOf(got.pair, Key(last.used), got.private)
  /\ got.op = "signature" => AnsweredBy(got.signature, got.short, Key(last.used), got.hash)
  /\ got.op = "schnorr" => SchnorrBy(got.signature, Key(last.used))
  /\ got.op = "lee" =>
       got.keys = [ask |-> Part("ASK", Key(last.used)), nsk |-> Part("NSK", Key(last.used)),
                   vsk_d |-> Part("VSK_D", Key(last.used)), vsk_z |-> Part("VSK_Z", Key(last.used))]
  /\ got.op = "identity" =>
       got.ca = IF got.signature = [by |-> got.cert.ident, over |-> "challenge"]
                  THEN got.cert.ca ELSE Err
  /\ LoadsTheKeyMeant

MaterialIInv == IInv /\ master.extended \in BOOLEAN /\ AnswerIsFine

LEMMA FineAnswer == AnswerIsFine => AnswersAreOfTheKey /\ LoadsTheKeyMeant
<1> SUFFICES ASSUME AnswerIsFine PROVE AnswersAreOfTheKey /\ LoadsTheKeyMeant
  OBVIOUS
<1> DEFINE key == Key(last.used)
<1>1. ASSUME got.op = "export"
      PROVE  /\ got.pair # Err
             /\ got.pair.public_key.of = Part("public", key)
             /\ is_public_only(got.pair) <=> ~got.private
             /\ got.private => got.pair.private_key.of = Part("private", key)
             /\ is_extended(got.pair) => got.pair.chain_code.of = Part("chain", key)
  BY <1>1 DEF AnswerIsFine, PairOf
<1>2. ASSUME got.op = "signature"
      PROVE  IF got.signature = Err THEN got.short
             ELSE /\ got.signature.public_key.of = Part("public", key)
                  /\ got.signature.over[1] = got.hash
                  /\ to_ethereum_address(got.signature.public_key)
                       = [of |-> Part("public", key), bytes |-> 64]
  <2>5. AnsweredBy(got.signature, got.short, key, got.hash)
    BY <1>2 DEF AnswerIsFine
  <2>6. CASE got.signature = Err
    <3> HIDE DEF key
    <3> QED BY <2>5, <2>6 DEF AnsweredBy
  <2>7. SUFFICES ASSUME got.signature # Err
        PROVE  /\ got.signature.public_key.of = Part("public", key)
               /\ got.signature.over[1] = got.hash
               /\ to_ethereum_address(got.signature.public_key)
                    = [of |-> Part("public", key), bytes |-> 64]
    BY <2>6
  <2>1. SignedBy(got.signature, key, got.hash)
    BY <2>5, <2>7 DEF AnsweredBy
  <2> DEFINE pub == Bytes(65, Part("public", key))
  <2>2. pub.of = Part("public", key) /\ pub.size - 1 = 64
    BY BytesFields
  <2>3. got.signature.public_key = pub
    BY <2>1 DEF SignedBy
  <2> HIDE DEF pub, key
  <2>4. to_ethereum_address(pub) = [of |-> Part("public", key), bytes |-> 64]
    BY <2>2 DEF to_ethereum_address
  <2> QED BY <2>1, <2>2, <2>3, <2>4 DEF SignedBy
<1>3. ASSUME got.op = "schnorr"
      PROVE  /\ got.signature # Err
             /\ x_only_pubkey(got.signature.public_key) = Bytes(32, Part("public", key))
             /\ got.signature.r_and_s = Part("schnorr", key)
  <2>1. SchnorrBy(got.signature, key)
    BY <1>3 DEF AnswerIsFine
  <2> QED BY <2>1, SchnorrAnswer
<1> QED BY <1>1, <1>2, <1>3 DEF AnswerIsFine, AnswersAreOfTheKey

LEMMA Executed ==
  ASSUME NEW asked, NEW key, NEW moved, Execute(asked, key, moved), TypeOK'
  PROVE  last'.used \in BoundedSeq(Components, MaxDepth)
<1>1. last'.used \in Seq(Components)
  BY DEF TypeOK, Keys
<1>2. Len(last'.used) <= MaxDepth
  BY DEF Execute
<1> DEFINE used == last'.used
<1> HIDE DEF used
<1>3. used \in Seq(Components) /\ Len(used) \in 0 .. MaxDepth
  BY <1>1, <1>2, BoundsAssumption DEF used
<1>4. used \in [1 .. Len(used) -> Components]
  BY <1>3
<1>5. used \in BoundedSeq(Components, MaxDepth)
  BY <1>3, <1>4 DEF BoundedSeq, SeqOf
<1> QED BY <1>5 DEF used

LEMMA UsedP1 ==
  ASSUME NEW asked, NEW p1, NEW data, ExecuteP1(asked, p1, data), TypeOK'
  PROVE  last'.used \in BoundedSeq(Components, MaxDepth)
  BY Executed, Zenon DEF ExecuteP1

LEMMA UsedFrom ==
  ASSUME NEW asked, NEW src, NEW data, NEW moved, ExecuteFrom(asked, src, data, moved), TypeOK'
  PROVE  last'.used \in BoundedSeq(Components, MaxDepth)
  BY Executed, Zenon DEF ExecuteFrom

LEMMA PairsOfPath ==
  ASSUME NEW path \in BoundedSeq(Components, MaxDepth), NEW p2 \in 0 .. 2,
         NEW extended \in BOOLEAN, NEW pair \in KeyPairsOf[path][p2][extended]
  PROVE  PairOf(pair, Key(path), p2 = PRIVATE_AND_PUBLIC)
<1>1. KeyPairsOf[path][p2][extended]
        = {from_tlv(response) : response \in KeyResponses(Key(path), p2, extended)}
  BY DEF KeyPairsOf
<1>2. PICK response \in KeyResponses(Key(path), p2, extended) : pair = from_tlv(response)
  BY <1>1
<1> QED BY <1>2, ResponseIsPairOf

LEMMA SignaturesOfPath ==
  ASSUME NEW path \in BoundedSeq(Components, MaxDepth), NEW answer \in SignaturesOf[path]
  PROVE  AnsweredBy(answer.signature, answer.short, Key(path), "hash")
<1>1. SignaturesOf[path] = {[short |-> response.short,
                             signature |-> recoverable_from_card_response("hash", response.items)] :
                              response \in EcdsaResponses(Key(path), "hash")}
  BY DEF SignaturesOf
<1>2. PICK response \in EcdsaResponses(Key(path), "hash") :
        answer = [short |-> response.short,
                  signature |-> recoverable_from_card_response("hash", response.items)]
  BY <1>1
<1>3. /\ answer.short = response.short
      /\ answer.signature = recoverable_from_card_response("hash", response.items)
  BY <1>2, Zenon
<1> QED BY <1>3, EcdsaIsParsed

LEMMA SchnorrSignaturesOfPath ==
  ASSUME NEW path \in BoundedSeq(Components, MaxDepth), NEW signature \in SchnorrSignaturesOf[path]
  PROVE  SchnorrBy(signature, Key(path))
<1>1. SchnorrSignaturesOf[path] = {schnorr_from_card_response(response) :
                                     response \in SchnorrResponses(Key(path))}
  BY DEF SchnorrSignaturesOf
<1> QED BY <1>1, SchnorrIsParsed

\* A signature is of the key that was used, whatever was asked.
LEMMA SignRawIsFine ==
  ASSUME NEW asked, NEW data, NEW p1, NEW algo, sign_raw(asked, data, p1, algo), TypeOK',
         data[1] = "hash"
  PROVE  AnswerIsFine' /\ master' = master
<1> DEFINE key == Key(last'.used)
<1>1. /\ ExecuteP1(asked, p1, SubSeq(data, Signed(algo) + 1, Len(data)))
      /\ master' = master
      /\ \/ \E answer \in SignaturesOf[last'.used] :
              got' = [op |-> "signature", hash |-> data[1], short |-> answer.short,
                      signature |-> answer.signature]
         \/ \E signature \in SchnorrSignaturesOf[last'.used] :
              got' = [op |-> "schnorr", signature |-> signature]
  BY Zenon DEF sign_raw, Signed
<1>2. last'.used \in BoundedSeq(Components, MaxDepth)
  BY <1>1, UsedP1
<1>3. ASSUME NEW answer \in SignaturesOf[last'.used],
             got' = [op |-> "signature", hash |-> data[1], short |-> answer.short,
                     signature |-> answer.signature]
      PROVE  AnswerIsFine'
  <2>1. AnsweredBy(answer.signature, answer.short, key, "hash")
    BY <1>2, SignaturesOfPath
  <2>2. /\ got'.op = "signature" /\ got'.hash = "hash" /\ got'.short = answer.short
        /\ got'.signature = answer.signature
    BY <1>3, Zenon
  <2>3. AnsweredBy(got'.signature, got'.short, key, got'.hash)
    BY <2>1, <2>2
  <2> QED BY <2>2, <2>3 DEF AnswerIsFine, LoadsTheKeyMeant
<1>4. ASSUME NEW signature \in SchnorrSignaturesOf[last'.used],
             got' = [op |-> "schnorr", signature |-> signature]
      PROVE  AnswerIsFine'
  <2>1. SchnorrBy(signature, key)
    BY <1>2, SchnorrSignaturesOfPath
  <2>2. got'.op = "schnorr" /\ got'.signature = signature
    BY <1>4
  <2> QED BY <2>1, <2>2 DEF AnswerIsFine, LoadsTheKeyMeant
<1> QED BY <1>1, <1>3, <1>4

LEMMA ExportedIsFine ==
  ASSUME NEW p2 \in 0 .. 2, Exported(p2), master.extended \in BOOLEAN,
         last'.used \in BoundedSeq(Components, MaxDepth)
  PROVE  AnswerIsFine' /\ master' = master
<1>1. PICK pair \in KeyPairsOf[last'.used][p2][master.extended] :
        got' = [op |-> "export", private |-> p2 = PRIVATE_AND_PUBLIC, pair |-> pair]
  BY DEF Exported
<1>2. PairOf(pair, Key(last'.used), p2 = PRIVATE_AND_PUBLIC)
  BY PairsOfPath
<1>3. master' = master
  BY DEF Exported
<1> QED BY <1>1, <1>2, <1>3 DEF AnswerIsFine, LoadsTheKeyMeant

\* The pairs that the caller may have can be loaded.
LEMMA PairsAreKeyPairs ==
  ASSUME AnswerIsFine, NEW pair \in Pairs
  PROVE  IsKeyPair(pair)
<1>1. \/ \E seed \in Seeds : pair = from_binary_seed(Bytes(64, seed))
      \/ \E seed \in Seeds :
           pair = new(Bytes(33, Part("private", [root |-> seed, path |-> <<>>])), Absent, Absent)
      \/ got.op = "export" /\ pair = got.pair
      \/ pair = to_bip32_keypair(got.mnemonic) /\ pair # Err
  BY DEF Pairs
<1>2. ASSUME pair = to_bip32_keypair(got.mnemonic), pair # Err
      PROVE  \E seed : pair = from_binary_seed(seed)
  BY <1>2 DEF to_bip32_keypair
<1> QED BY <1>1, <1>2, OtherPairs DEF AnswerIsFine, PairOf

LEMMA LoadIsFine ==
  ASSUME NEW intended, NEW loaded, Load(intended, loaded), loaded = intended,
         loaded # Err => loaded.extended \in BOOLEAN, master.extended \in BOOLEAN
  PROVE  AnswerIsFine' /\ master'.extended \in BOOLEAN
<1>1. got' = [op |-> "load", intended |-> intended, loaded |-> loaded]
  BY DEF Load
<1>2. master'.extended \in BOOLEAN
  BY DEF Load
<1> QED BY <1>1, <1>2 DEF AnswerIsFine, LoadsTheKeyMeant

LEMMA NothingIsFine == ASSUME got' = Nothing PROVE AnswerIsFine'
  BY DEF Nothing, AnswerIsFine, LoadsTheKeyMeant

LEMMA MaterialInitIInv == MaterialInit => MaterialIInv
<1> SUFFICES ASSUME MaterialInit PROVE MaterialIInv
  OBVIOUS
<1>1. IInv
  BY InitIInv DEF MaterialInit
<1>2. master.extended \in BOOLEAN
  BY DEF MaterialInit
<1>3. AnswerIsFine
  BY DEF MaterialInit, Nothing, AnswerIsFine, LoadsTheKeyMeant
<1> QED BY <1>1, <1>2, <1>3 DEF MaterialIInv

LEMMA MaterialNextIInv == MaterialIInv /\ [MaterialNext]_material_vars => MaterialIInv'
<1> SUFFICES ASSUME MaterialIInv, [MaterialNext]_material_vars PROVE MaterialIInv'
  OBVIOUS
<1>1. IInv' /\ TypeOK' /\ AnswerIsFine /\ master.extended \in BOOLEAN
  <2>1. IInv /\ [Next]_vars
    BY MaterialStep DEF MaterialIInv
  <2>2. IInv'
    BY <2>1, NextIInv
  <2> QED BY <2>2 DEF MaterialIInv, IInv
<1> DEFINE Goal == AnswerIsFine' /\ (master'.extended \in BOOLEAN)
<1> SUFFICES Goal
  BY <1>1 DEF MaterialIInv
<1>2. CASE UNCHANGED material_vars
  BY <1>1, <1>2 DEF material_vars, vars, AnswerIsFine, LoadsTheKeyMeant
<1>3. ASSUME master' = master PROVE master'.extended \in BOOLEAN
  BY <1>1, <1>3
<1>4. CASE SignCurrent \/ SignPinless
  <2> DEFINE data == <<"hash">>
  <2>1. data[1] = "hash"
    OBVIOUS
  <2>2. PICK asked, p1 : sign_raw(asked, data, p1, ECDSA)
    BY <1>4 DEF SignCurrent, SignPinless
  <2> HIDE DEF data
  <2> QED BY <1>1, <1>3, <2>1, <2>2, SignRawIsFine
<1>5. ASSUME NEW path \in Paths, NEW algo, NEW make_current \in BOOLEAN,
             NEW given, given = <<"hash">> \/ given = <<"hash", "tweak">>,
             sign_with_path_and_algo(given, path, algo, make_current)
      PROVE  Goal
  <2> DEFINE numbers == path.numbers
             data == Padded(given, algo) \o numbers
  <2>1. Len(given) = 1 \/ algo = BIP340_SCHNORR
    BY <1>5 DEF sign_with_path_and_algo
  <2>2. numbers \in Seq(Components)
    BY PathType DEF Keys
  <2>3. PICK asked, p1 : sign_raw(asked, data, p1, algo)
    BY <1>5 DEF sign_with_path_and_algo
  <2> HIDE DEF numbers
  <2>4. data[1] = "hash"
    BY <1>5, <2>1, <2>2, DataParts
  <2> HIDE DEF data
  <2> QED BY <1>1, <1>3, <2>3, <2>4, SignRawIsFine
<1>6. ASSUME NEW path \in Paths, sign_bip341_schnorr("hash", "tweak", path) PROVE Goal
  <2>1. sign_with_path_and_algo(<<"hash", "tweak">>, path, BIP340_SCHNORR, FALSE)
    BY <1>6 DEF sign_bip341_schnorr
  <2> HIDE DEF Goal
  <2> QED BY <1>5, <2>1
<1>7. ASSUME NEW path \in Paths, export_lee_key_parsed(path) PROVE Goal
  <2>1. export_lee_key(path) /\ master' = master
        /\ got' = [op |-> "lee", keys |-> lee_from_tlv(LeeResponse(Key(last'.used)))]
    BY <1>7 DEF export_lee_key_parsed
  <2>2. AnswerIsFine'
    BY <2>1, LeeIsRead DEF AnswerIsFine, LoadsTheKeyMeant
  <2> QED BY <1>3, <2>1, <2>2
<1>8. CASE Export
  <2>1. PICK p2 \in 0 .. 2 : Exported(p2) /\ \E asked, p1, data : ExecuteP1(asked, p1, data)
    <3>1. \A public_only : P2(public_only) \in 0 .. 2
      BY DEF P2, PUBLIC_ONLY, PRIVATE_AND_PUBLIC
    <3>2. EXTENDED_PUBLIC \in 0 .. 2
      BY DEF EXTENDED_PUBLIC
    <3>3. export_current_key => \E asked, p1, data : ExecuteP1(asked, p1, data)
      BY DEF export_current_key, export_key_raw
    <3>4. \A path, make_current : export_key(path, make_current)
            => \E asked, p1, data : ExecuteP1(asked, p1, data)
      BY DEF export_key, export_key_raw
    <3> QED BY <1>8, <3>1, <3>2, <3>3, <3>4 DEF Export
  <2>2. last'.used \in BoundedSeq(Components, MaxDepth)
    BY <1>1, <2>1, UsedP1
  <2> QED BY <1>1, <1>3, <2>1, <2>2, ExportedIsFine
<1>9. ASSUME got' = Nothing, master' = master PROVE Goal
  BY <1>3, <1>9, NothingIsFine
<1>10. CASE identify_card
  <2>1. PICK response \in IdentityResponses :
          got' = [op |-> "identity", ca |-> verify_identity("challenge", response),
                  cert |-> response[2].value.of, signature |-> response[3].value.of]
    BY <1>10 DEF identify_card
  <2> DEFINE hash == "challenge"
             cert == response[2].value.of
             signature == response[3].value.of
             ca == IF signature = [by |-> cert.ident, over |-> hash] THEN cert.ca ELSE Err
  <2>2. verify_identity(hash, response) = ca
    BY IdentityIsVerified
  <2> HIDE DEF cert, signature
  <2>3. got' = [op |-> "identity", ca |-> ca, cert |-> cert, signature |-> signature]
    BY <2>1, <2>2 DEF cert, signature
  <2>4. AnswerIsFine'
    BY <2>3 DEF AnswerIsFine, LoadsTheKeyMeant
  <2>5. master' = master
    BY <1>10 DEF identify_card
  <2> QED BY <1>3, <2>4, <2>5
<1>11. ASSUME NEW seed, load_key_seed(seed) \/ load_lee_key(seed) PROVE Goal
  <2>1. ASSUME NEW lee \in BOOLEAN, NEW p1, p1 = IF lee THEN LEE ELSE SEED,
               load_key_raw([root |-> seed, extended |-> TRUE, lee |-> lee], Bytes(64, seed), p1)
        PROVE  Goal
    <3> DEFINE intended == [root |-> seed, extended |-> TRUE, lee |-> lee]
               loaded == LoadedFrom(p1, Bytes(64, seed))
    <3>1. LEE # EC /\ SEED # EC /\ SEED # LEE
      BY DEF LEE, EC, SEED
    <3>2. loaded = MasterKey(seed, p1)
      BY <2>1, BytesFields DEF LoadedFrom
    <3>3. MasterKey(seed, p1) = intended
      <4>1. CASE lee = TRUE
        BY <2>1, <3>1, <4>1 DEF MasterKey
      <4>2. CASE lee = FALSE
        BY <2>1, <3>1, <4>2 DEF MasterKey
      <4> QED BY <4>1, <4>2
    <3>4. Load(intended, loaded)
      BY <2>1 DEF load_key_raw
    <3>5. intended.extended \in BOOLEAN
      OBVIOUS
    <3> HIDE DEF intended, loaded
    <3> QED BY <1>1, <3>2, <3>3, <3>4, <3>5, LoadIsFine
  <2>2. CASE load_key_seed(seed)
    <3>1. SEED = IF FALSE THEN LEE ELSE SEED
      OBVIOUS
    <3> HIDE DEF Goal
    <3> QED BY <2>1, <2>2, <3>1 DEF load_key_seed
  <2>3. CASE load_lee_key(seed)
    <3>1. LEE = IF TRUE THEN LEE ELSE SEED
      OBVIOUS
    <3> HIDE DEF Goal
    <3> QED BY <2>1, <2>3, <3>1 DEF load_lee_key
  <2> QED BY <1>11, <2>2, <2>3
<1>12. ASSUME NEW pair \in Pairs, NEW omit_public \in BOOLEAN, load_key_bip32(pair, omit_public)
       PROVE  Goal
  <2> DEFINE intended == IF is_public_only(pair) THEN Err
                         ELSE [root |-> pair.private_key.of.key, extended |-> is_extended(pair),
                               lee |-> FALSE]
             include_public == ~omit_public
             loaded == LoadedFrom(load_key_p1(pair), to_tlv(pair, include_public))
  <2>1. IsKeyPair(pair)
    BY <1>1, PairsAreKeyPairs
  <2>2. include_public \in BOOLEAN
    OBVIOUS
  <2>3. Load(intended, loaded)
    BY <1>12 DEF load_key_bip32, load_key_raw
  <2>4. loaded = intended
    <3> HIDE DEF include_public
    <3> QED BY <2>1, <2>2, PairIsLoaded
  <2>5. intended # Err => intended.extended \in BOOLEAN
    BY DEF is_extended
  <2> HIDE DEF intended, loaded
  <2> QED BY <1>1, <2>3, <2>4, <2>5, LoadIsFine
<1>13. CASE generate_mnemonic
  <2>1. PICK first \in Indexes, second \in Indexes :
          got' = [op |-> "mnemonic", drawn |-> <<first, second>>,
                  mnemonic |-> set_bip39_english(mnemonic_from_card_response(
                                 <<first \div 256, first % 256, second \div 256, second % 256>>))]
    BY <1>13, Zenon DEF generate_mnemonic
  <2> DEFINE drawn == <<first, second>>
             mnemonic == set_bip39_english(mnemonic_from_card_response(
                           <<first \div 256, first % 256, second \div 256, second % 256>>))
  <2>2. words(mnemonic) = Phrase(drawn) /\ got' = [op |-> "mnemonic", drawn |-> drawn, mnemonic |-> mnemonic]
    BY <2>1, MnemonicIsRead
  <2> HIDE DEF drawn, mnemonic
  <2>3. AnswerIsFine'
    BY <2>2 DEF AnswerIsFine, LoadsTheKeyMeant
  <2>4. master' = master
    BY <1>13 DEF generate_mnemonic
  <2> QED BY <1>3, <2>3, <2>4
<1>14. CASE generate_key
  BY <1>14, NothingIsFine DEF generate_key
<1> HIDE DEF Goal
<1>15. ASSUME MaterialNext PROVE Goal
  BY <1>4, <1>5, <1>6, <1>7, <1>8, <1>9, <1>10, <1>11, <1>12, <1>13, <1>14, <1>15 DEF MaterialNext
<1> QED BY <1>2, <1>15

LEMMA MaterialInvariant == MaterialSpec => []MaterialIInv
  BY MaterialInitIInv, MaterialNextIInv, PTL DEF MaterialSpec

\* With the data of the commands, the responses and the parsers, the commands are
\* still those of KeyCommands: what is shown of those holds here.
THEOREM MaterialImplements == MaterialSpec => Spec
<1>1. MaterialInit => Init
  BY DEF MaterialInit
<1> QED BY <1>1, MaterialStep, PTL DEF MaterialSpec, Spec

THEOREM MaterialIsKeyCommands ==
  MaterialSpec => [](TypeOK /\ KeyIsTheNamedOne /\ MovesAsAsked /\ PinlessIsMeant)
<1>1. IInv => TypeOK /\ KeyIsTheNamedOne /\ MovesAsAsked /\ PinlessIsMeant
  BY DEF IInv
<1> QED BY <1>1, Invariant, MaterialImplements, PTL

\* Whatever key, response, algorithm and challenge: what a parser returns is of the
\* key the card worked with and of the message given.
THEOREM ParsedAnswers == MaterialSpec => []AnswersAreOfTheKey
<1>1. MaterialIInv => AnswersAreOfTheKey
  BY FineAnswer DEF MaterialIInv
<1> QED BY <1>1, MaterialInvariant, PTL

\* Any key pair the caller derived, exported or got from a mnemonic becomes the
\* card's master key, and the words of a mnemonic are those the card drew.
THEOREM LoadedKeys == MaterialSpec => []LoadsTheKeyMeant
<1>1. MaterialIInv => LoadsTheKeyMeant
  BY FineAnswer DEF MaterialIInv
<1> QED BY <1>1, MaterialInvariant, PTL
=============================================================================
