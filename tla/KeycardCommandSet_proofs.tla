---------------------- MODULE KeycardCommandSet_proofs ----------------------
(***************************************************************************)
(* Proofs about KeycardCommandSet, for any set of cards; and about         *)
(* Selection, for applets of any versions, capabilities and certificates:  *)
(* its parser tells the truth about each, and it implements the            *)
(* KeycardCommandSet, so that what holds of that holds of it.              *)
(***************************************************************************)
EXTENDS Selection, BerTlv_proofs

\* What an installed channel may accept: a V2 channel was given an identity
\* only after the certificate was found trusted, a V1 channel only the key of a
\* V1 card.
Installed ==
  channel.ident # None =>
    channel.ident \in IF channel.version = "V2" THEN Trusted ELSE V1Cards

\* An open channel has a peer, and it is the card it was installed for.
PeerIsIdent == channel.open => peer = channel.ident /\ peer # None

\* Between the two exchanges of init the V2 channel has been established, so
\* that a command is sealed or refused.
InitEstablished == init => channel.version = "V2" /\ channel.established

IInv == TypeOK /\ Installed /\ PeerIsIdent /\ InitEstablished /\ InitIsSealed

\* What New returns is a channel that is closed.
LEMMA NewChannel ==
  ASSUME NEW v \in {"V1", "V2"}, NEW i \in Cards \union {None}
  PROVE  /\ New(v, i) \in Channel
         /\ ~New(v, i).open /\ New(v, i).version = v /\ New(v, i).ident = i
  BY DEF New, Channel

\* The initial states satisfy the invariant: a new V2 channel has no identity
\* to accept and nothing was sent.
LEMMA InitIInv == Init => IInv
<1> SUFFICES ASSUME Init PROVE IInv
  OBVIOUS
<1>1. channel \in Channel /\ ~channel.open /\ channel.ident = None
  BY NewChannel DEF Init
<1>2. TypeOK
  BY <1>1 DEF Init, TypeOK
<1> QED
  BY <1>1, <1>2 DEF Init, IInv, Installed, PeerIsIdent, InitEstablished, InitIsSealed

\* Every step preserves the invariant.
LEMMA NextIInv == IInv /\ [Next]_vars => IInv'
<1> SUFFICES ASSUME IInv, [Next]_vars PROVE IInv'
  OBVIOUS
<1> USE CardsAssumption
<1>1. CASE UNCHANGED vars
  BY <1>1 DEF vars, IInv, TypeOK, Installed, PeerIsIdent, InitEstablished, InitIsSealed
<1>2. CASE Swap
  BY <1>2 DEF Swap, IInv, TypeOK, Installed, PeerIsIdent, InitEstablished, InitIsSealed
<1>3. CASE select_with_index
  <2>1. /\ card \in Cards /\ ~init /\ info' = card
        /\ UNCHANGED <<card, init, sent>>
    BY <1>3 DEF select_with_index, IInv, TypeOK
  <2>2. CASE UNCHANGED <<channel, peer>>
    BY <2>1, <2>2
       DEF IInv, TypeOK, Installed, PeerIsIdent, InitEstablished, InitIsSealed
  <2>3. ASSUME NEW v \in {"V1", "V2"}, NEW i \in Cards \union {None},
               Install(New(v, i)),
               i # None => i \in IF v = "V2" THEN Trusted ELSE V1Cards
        PROVE  IInv'
    <3>1. channel' \in Channel /\ ~channel'.open
          /\ channel'.version = v /\ channel'.ident = i /\ peer' = None
      BY <2>3, NewChannel DEF Install
    <3>2. TypeOK'
      BY <2>1, <3>1 DEF IInv, TypeOK
    <3>3. Installed' /\ PeerIsIdent' /\ InitEstablished' /\ InitIsSealed'
      BY <2>1, <2>3, <3>1
         DEF IInv, Installed, PeerIsIdent, InitEstablished, InitIsSealed
    <3> QED BY <3>2, <3>3 DEF IInv
  <2>4. CASE select_v2
    BY <2>1, <2>2, <2>3, <2>4 DEF select_v2, Cards
  <2>5. CASE select_v1
    BY <2>1, <2>3, <2>5 DEF select_v1, Cards
  <2>6. CASE select_plain
    BY <2>2, <2>6 DEF select_plain
  <2> QED BY <1>3, <2>4, <2>5, <2>6 DEF select_with_index
<1>4. CASE auto_open_secure_channel
  BY <1>4 DEF auto_open_secure_channel, Opened, NotOpened, HalfOpened, Closed, Channel, Cards,
     IInv, TypeOK, Installed, PeerIsIdent, InitEstablished, InitIsSealed
<1>5. CASE pair
  BY <1>5 DEF pair, Channel, IInv, TypeOK, Installed, PeerIsIdent, InitEstablished, InitIsSealed
<1>6. ASSUME NEW ins \in {"INIT", "other"}, send_protected(ins),
             ins = "INIT" => channel.version = "V2" /\ channel.established,
             UNCHANGED <<card, info>>, init' \in BOOLEAN, init' => init
      PROVE  IInv'
  <2> DEFINE m == IF channel.open THEN [ins |-> ins, form |-> "sealed", for |-> peer]
                                  ELSE [ins |-> ins, form |-> "plain", for |-> None]
  <2>1. sent' = sent \union {m} /\ (channel.open \/ ~channel.established)
    BY <1>6 DEF send_protected
  <2>2. /\ channel' \in Channel /\ channel'.version = channel.version
        /\ channel'.ident = channel.ident /\ channel'.established = channel.established
        /\ channel'.open => channel.open
        /\ peer' = peer
    BY <1>6 DEF send_protected, Closed, Channel, IInv, TypeOK
  <2>3. m \in Command
    BY DEF Command, IInv, TypeOK, PeerIsIdent
  <2>4. TypeOK'
    BY <1>6, <2>1, <2>2, <2>3 DEF IInv, TypeOK
  <2>5. Installed' /\ PeerIsIdent' /\ InitEstablished'
    BY <1>6, <2>2 DEF IInv, Installed, PeerIsIdent, InitEstablished
  <2>6. m.ins = "INIT" => m.form = "sealed" /\ m.for \in Trusted
    BY <1>6, <2>1 DEF IInv, Installed, PeerIsIdent
  <2>7. InitIsSealed'
    BY <2>1, <2>6 DEF IInv, InitIsSealed
  <2> QED BY <2>4, <2>5, <2>7 DEF IInv
<1>7. CASE protected
  BY <1>6, <1>7 DEF protected, IInv, TypeOK
<1>8. CASE init_v2
  <2>1. InitIsSealed'
    BY <1>8 DEF init_v2, IInv, InitIsSealed
  <2> USE <1>8 DEF init_v2, Opened, NotOpened, HalfOpened, Closed, Channel,
                   IInv, TypeOK, PeerIsIdent, InitEstablished
  <2>2. TypeOK'
    OBVIOUS
  <2>3. Installed'
    BY DEF Installed
  <2>4. PeerIsIdent'
    OBVIOUS
  <2>5. InitEstablished'
    OBVIOUS
  <2> QED BY <2>1, <2>2, <2>3, <2>4, <2>5
<1>9. CASE init_v2_send
  BY <1>6, <1>9 DEF init_v2_send, IInv, TypeOK, InitEstablished
<1>10. CASE init_v1
  <2> DEFINE cmd == [ins |-> "INIT", form |-> "one shot", for |-> channel.ident]
  <2>1. /\ sent' = sent \union {cmd} /\ channel.version = "V1" /\ channel.ident # None
        /\ UNCHANGED <<card, info, channel, peer, init>>
    BY <1>10 DEF init_v1, one_shot_encrypt
  <2>2. cmd.for \in V1Cards /\ cmd.form = "one shot"
    BY <2>1 DEF IInv, Installed
  <2>3. cmd \in Command
    BY <2>2 DEF Command, Cards
  <2>4. TypeOK' /\ Installed' /\ PeerIsIdent' /\ InitEstablished'
    BY <2>1, <2>3 DEF IInv, TypeOK, Installed, PeerIsIdent, InitEstablished
  <2>5. InitIsSealed'
    BY <2>1, <2>2 DEF IInv, InitIsSealed
  <2> QED BY <2>4, <2>5 DEF IInv
<1> QED BY <1>1, <1>2, <1>3, <1>4, <1>5, <1>7, <1>8, <1>9, <1>10 DEF Next

LEMMA Invariant == Spec => []IInv
  BY InitIInv, NextIInv, PTL DEF Spec

\* The command set, its channel and what it sent keep their type.
THEOREM CommandSetTyped == Spec => []TypeOK
<1>1. IInv => TypeOK
  BY DEF IInv
<1> QED BY <1>1, Invariant, PTL

\* A channel is open only to the card it was installed for, a V2 channel only
\* to a trusted one (select_with_index checks the certificate before it
\* installs the channel; auto_open checks the identity).
THEOREM TrustedOpening == Spec => []OpenOnlyToTrusted
<1>1. IInv => OpenOnlyToTrusted
  BY DEF IInv, TypeOK, Channel, Installed, PeerIsIdent, OpenOnlyToTrusted
<1> QED BY <1>1, Invariant, PTL

\* INIT never leaves in plaintext, nor sealed for a card that is not trusted
\* (init_with_secret stops when auto_open fails).
THEOREM InitSealing == Spec => []InitIsSealed
<1>1. IInv => InitIsSealed
  BY DEF IInv
<1> QED BY <1>1, Invariant, PTL
-----------------------------------------------------------------------------
(***************************************************************************)
(* The parser of the response to SELECT.                                   *)
(***************************************************************************)

LEMMA Tags ==
  /\ TLV.UID # TLV.INT /\ TLV.UID # TLV.PUB_KEY /\ TLV.PUB_KEY # TLV.INT
  /\ TLV.STATUS # TLV.INT /\ TLV.STATUS # TLV.KEY_UID /\ TLV.INT # TLV.KEY_UID
  /\ TLV.CAPABILITIES # TLV.CERT /\ TLV.APPLICATION_INFO_TEMPLATE # TLV.PUB_KEY
  BY DEF TLV

\* The template of an applet is read field by field: what it leaves out is Absent
\* in its place, what it has is not taken for another field.
LEMMA TemplateIsRead ==
  ASSUME NEW c \in Cards, NEW state \in CardStates
  PROVE  LET a == Applet[c]
             legacy == a.version < V4
             items == SelectResponse(c, state)
         IN  ~(legacy /\ ~a.initialized) =>
             /\ ~next_tag_is(items, TLV.PUB_KEY)
             /\ \E values :
                  /\ read_template(items) = Unread(<<>>, values)
                  /\ values[3] = IF legacy THEN Bytes(IF SecureApplet(c) THEN 65 ELSE 0, c) ELSE Absent
                  /\ values[4] = Bytes(2, a.version)
                  /\ values[5] = IF ~legacy
                                   THEN Bytes(1, (IF a.initialized THEN INITIALIZED ELSE 0)
                                                   + IF legacy THEN 0 ELSE state.tries)
                                 ELSE Absent
                  /\ values[6] = IF legacy THEN Bytes(1, state.slots) ELSE Absent
                  /\ values[7] = Bytes(IF state.keyed THEN 32 ELSE 0, c)
                  /\ values[8] = IF a.version >= V2 THEN Bytes(1, a.capabilities) ELSE Absent
                  /\ values[9] = IF a.issuer # None THEN Bytes(98, [ident |-> c, ca |-> a.issuer])
                                 ELSE Absent
<1> DEFINE a == Applet[c]
           legacy == a.version < V4
           caps == a.version >= V2
           certified == a.issuer # None
           uid == c
           key == c
           key_uid == c
           key_size == IF SecureApplet(c) THEN 65 ELSE 0
           uid_size == IF state.keyed THEN 32 ELSE 0
           version == a.version
           slots == state.slots
           capabilities == a.capabilities
           status == (IF a.initialized THEN INITIALIZED ELSE 0) + IF legacy THEN 0 ELSE state.tries
           cert == [ident |-> c, ca |-> a.issuer]
<1> SUFFICES ASSUME ~(legacy /\ ~a.initialized)
             PROVE  LET items == SelectResponse(c, state)
                    IN  /\ ~next_tag_is(items, TLV.PUB_KEY)
                        /\ \E values :
                             /\ read_template(items) = Unread(<<>>, values)
                             /\ values[3] = IF legacy THEN Bytes(key_size, key) ELSE Absent
                             /\ values[4] = Bytes(2, version)
                             /\ values[5] = IF ~legacy THEN Bytes(1, status) ELSE Absent
                             /\ values[6] = IF legacy THEN Bytes(1, slots) ELSE Absent
                             /\ values[7] = Bytes(uid_size, key_uid)
                             /\ values[8] = IF caps THEN Bytes(1, capabilities) ELSE Absent
                             /\ values[9] = IF certified THEN Bytes(98, cert) ELSE Absent
  OBVIOUS
<1>24. SelectResponse(c, state) =
         write_constructed(TLV.APPLICATION_INFO_TEMPLATE,
           When(legacy, write_primitive(TLV.UID, Bytes(16, uid)))
           \o When(legacy, write_primitive(TLV.PUB_KEY, Bytes(key_size, key)))
           \o write_primitive(TLV.INT, Bytes(2, version))
           \o When(~legacy, write_primitive(TLV.STATUS, Bytes(1, status)))
           \o When(legacy, write_primitive(TLV.INT, Bytes(1, slots)))
           \o write_primitive(TLV.KEY_UID, Bytes(uid_size, key_uid))
           \o When(caps, write_primitive(TLV.CAPABILITIES, Bytes(1, capabilities)))
           \o When(certified, write_primitive(TLV.CERT, Bytes(98, cert))))
  BY DEF SelectResponse
<1>25. /\ legacy \in BOOLEAN /\ caps \in BOOLEAN /\ certified \in BOOLEAN
       /\ key_size \in Nat /\ uid_size \in Nat
  OBVIOUS
<1> HIDE DEF a, legacy, caps, certified, uid, key, key_uid, key_size, uid_size, version, slots,
         capabilities, status, cert
<1> USE <1>25
<1> DEFINE modern == ~legacy
           none == <<>>
           f1 == When(legacy, write_primitive(TLV.UID, Bytes(16, uid)))
           f2 == When(legacy, write_primitive(TLV.PUB_KEY, Bytes(key_size, key)))
           f3 == write_primitive(TLV.INT, Bytes(2, version))
           f4 == When(modern, write_primitive(TLV.STATUS, Bytes(1, status)))
           f5 == When(legacy, write_primitive(TLV.INT, Bytes(1, slots)))
           f6 == write_primitive(TLV.KEY_UID, Bytes(uid_size, key_uid))
           f7 == When(caps, write_primitive(TLV.CAPABILITIES, Bytes(1, capabilities)))
           f8 == When(certified, write_primitive(TLV.CERT, Bytes(98, cert)))
           r8 == f8 \o none
           r7 == f7 \o r8
           r6 == f6 \o r7
           r5 == f5 \o r6
           r4 == f4 \o r5
           r3 == f3 \o r4
           r2 == f2 \o r3
           r1 == f1 \o r2
           content == Bytes(Len(r1), "content")
           S == {Item(TLV.UID, Bytes(16, uid)), Item(TLV.PUB_KEY, Bytes(key_size, key)),
                 Item(TLV.INT, Bytes(2, version)), Item(TLV.STATUS, Bytes(1, status)),
                 Item(TLV.INT, Bytes(1, slots)), Item(TLV.KEY_UID, Bytes(uid_size, key_uid)),
                 Item(TLV.CAPABILITIES, Bytes(1, capabilities)), Item(TLV.CERT, Bytes(98, cert)),
                 Item(TLV.APPLICATION_INFO_TEMPLATE, content)}
           v2 == IF legacy THEN Bytes(16, uid) ELSE Absent
           v3 == IF legacy THEN Bytes(key_size, key) ELSE Absent
           v5 == IF modern THEN Bytes(1, status) ELSE Absent
           v6 == IF legacy THEN Bytes(1, slots) ELSE Absent
           v8 == IF caps THEN Bytes(1, capabilities) ELSE Absent
           v9 == IF certified THEN Bytes(98, cert) ELSE Absent
           w0 == <<>>
           w1 == Append(w0, content)
           w2 == Append(w1, v2)
           w3 == Append(w2, v3)
           w4 == Append(w3, Bytes(2, version))
           w5 == Append(w4, v5)
           w6 == Append(w5, v6)
           w7 == Append(w6, Bytes(uid_size, key_uid))
           w8 == Append(w7, v8)
           w9 == Append(w8, v9)
<1>1. /\ f1 \in Seq(S) /\ f2 \in Seq(S) /\ f3 \in Seq(S) /\ f4 \in Seq(S)
      /\ f5 \in Seq(S) /\ f6 \in Seq(S) /\ f7 \in Seq(S) /\ f8 \in Seq(S)
  <2> HIDE DEF content
  <2> QED BY DEF When, write_primitive
<1>2. /\ <<>> \in Seq(S) /\ r8 = f8
      /\ r8 \in Seq(S) /\ r7 \in Seq(S) /\ r6 \in Seq(S) /\ r5 \in Seq(S)
      /\ r4 \in Seq(S) /\ r3 \in Seq(S) /\ r2 \in Seq(S) /\ r1 \in Seq(S)
  <2> HIDE DEF S, f1, f2, f3, f4, f5, f6, f7, f8
  <2>1. <<>> \in Seq(S) /\ r8 = f8
    BY <1>1
  <2>8. r8 \in Seq(S)
    BY <1>1, <2>1
  <2> HIDE DEF r8
  <2>2. r7 \in Seq(S)
    BY <1>1, <2>8
  <2> HIDE DEF r7
  <2>3. r6 \in Seq(S)
    BY <1>1, <2>2
  <2> HIDE DEF r6
  <2>4. r5 \in Seq(S)
    BY <1>1, <2>3
  <2> HIDE DEF r5
  <2>5. r4 \in Seq(S)
    BY <1>1, <2>4
  <2> HIDE DEF r4
  <2>6. r3 \in Seq(S)
    BY <1>1, <2>5
  <2> HIDE DEF r3
  <2>7. r2 \in Seq(S)
    BY <1>1, <2>6
  <2> HIDE DEF r2
  <2>9. r1 \in Seq(S)
    BY <1>1, <2>7
  <2> QED BY <2>1, <2>2, <2>3, <2>4, <2>5, <2>6, <2>7, <2>8, <2>9
<1>3. f1 \o f2 \o f3 \o f4 \o f5 \o f6 \o f7 \o f8 = r1
  <2> DEFINE c2 == Cat(f1, f2)
             c3 == Cat(c2, f3)
             c4 == Cat(c3, f4)
             c5 == Cat(c4, f5)
             c6 == Cat(c5, f6)
             c7 == Cat(c6, f7)
  <2>1. /\ r7 = Cat(f7, r8) /\ r6 = Cat(f6, r7) /\ r5 = Cat(f5, r6) /\ r4 = Cat(f4, r5)
        /\ r3 = Cat(f3, r4) /\ r2 = Cat(f2, r3) /\ r1 = Cat(f1, r2)
    BY DEF Cat
  <2>2. f1 \o f2 \o f3 \o f4 \o f5 \o f6 \o f7 \o f8 = Cat(c7, f8)
    BY DEF Cat
  <2> HIDE DEF S, f1, f2, f3, f4, f5, f6, f7, f8, r1, r2, r3, r4, r5, r6, r7, r8
  <2>3. \A x, y \in Seq(S) : Cat(x, y) \in Seq(S)
    BY CatIsASequence
  <2>4. \A x, y, z \in Seq(S) : Cat(Cat(x, y), z) = Cat(x, Cat(y, z))
    BY CatAssociates
  <2>5. c2 \in Seq(S)
    BY <1>1, <2>3
  <2>6. c3 \in Seq(S)
    BY <1>1, <2>3, <2>5
  <2>7. c4 \in Seq(S)
    BY <1>1, <2>3, <2>6
  <2>8. c5 \in Seq(S)
    BY <1>1, <2>3, <2>7
  <2>9. c6 \in Seq(S)
    BY <1>1, <2>3, <2>8
  <2>10. Cat(c7, r8) = Cat(c6, r7)
    BY <1>1, <1>2, <2>1, <2>4, <2>9
  <2>11. Cat(c6, r7) = Cat(c5, r6)
    BY <1>1, <1>2, <2>1, <2>4, <2>8
  <2>12. Cat(c5, r6) = Cat(c4, r5)
    BY <1>1, <1>2, <2>1, <2>4, <2>7
  <2>13. Cat(c4, r5) = Cat(c3, r4)
    BY <1>1, <1>2, <2>1, <2>4, <2>6
  <2>14. Cat(c3, r4) = Cat(c2, r3)
    BY <1>1, <1>2, <2>1, <2>4, <2>5
  <2>15. Cat(c2, r3) = Cat(f1, r2)
    BY <1>1, <1>2, <2>1, <2>4
  <2> QED BY <1>2, <2>1, <2>2, <2>10, <2>11, <2>12, <2>13, <2>14, <2>15
<1>4. write_constructed(TLV.APPLICATION_INFO_TEMPLATE, r1)
        = write_primitive(TLV.APPLICATION_INFO_TEMPLATE, content) \o r1
  BY DEF write_constructed, write_primitive
<1>5. /\ ~next_tag_is(r3, TLV.UID) /\ ~next_tag_is(r3, TLV.PUB_KEY)
      /\ legacy => ~next_tag_is(r5, TLV.STATUS)
      /\ ~next_tag_is(r6, TLV.INT) /\ ~next_tag_is(r8, TLV.CAPABILITIES)
      /\ ~next_tag_is(<<>>, TLV.CERT)
  <2>1. \A tag : next_tag_is(r3, tag) <=> TLV.INT = tag
    <3> DEFINE i == Item(TLV.INT, Bytes(2, version))
    <3>1. i \in S /\ i.tag = TLV.INT /\ r3 = <<i>> \o r4
      BY DEF Item, write_primitive
    <3> HIDE DEF S, r3, r4, i
    <3> QED BY <3>1, <1>2, NextTag
  <2>2. \A tag : next_tag_is(r6, tag) <=> TLV.KEY_UID = tag
    <3> DEFINE i == Item(TLV.KEY_UID, Bytes(uid_size, key_uid))
    <3>1. i \in S /\ i.tag = TLV.KEY_UID /\ r6 = <<i>> \o r7
      BY DEF Item, write_primitive
    <3> HIDE DEF S, r6, r7, i
    <3> QED BY <3>1, <1>2, NextTag
  <2>3. \A tag : next_tag_is(r5, tag)
                   <=> IF legacy THEN TLV.INT = tag ELSE next_tag_is(r6, tag)
    <3> DEFINE i == Item(TLV.INT, Bytes(1, slots))
    <3>1. i \in S /\ i.tag = TLV.INT /\ r5 = When(legacy, <<i>>) \o r6
      BY DEF Item, write_primitive
    <3> HIDE DEF S, r5, r6, i
    <3> QED BY <3>1, <1>2, NextTagUnderCondition
  <2>4. \A tag : next_tag_is(<<>>, tag) <=> FALSE
    BY DEF next_tag_is
  <2>5. \A tag : next_tag_is(r8, tag) <=> certified /\ TLV.CERT = tag
    <3> DEFINE i == Item(TLV.CERT, Bytes(98, cert))
    <3>1. i \in S /\ i.tag = TLV.CERT /\ r8 = When(certified, <<i>>) \o <<>>
      BY DEF Item, write_primitive
    <3>2. <<>> \in Seq(S)
      BY <1>2
    <3> HIDE DEF S, r8, i
    <3> QED BY <2>4, <3>1, <3>2, NextTagUnderCondition
  <2> HIDE DEF r3, r5, r6, r8
  <2> QED BY <2>1, <2>2, <2>3, <2>4, <2>5, Tags
<1>6. ~next_tag_is(r2, TLV.UID)
  <2> DEFINE i == Item(TLV.PUB_KEY, Bytes(key_size, key))
  <2>1. i \in S /\ i.tag = TLV.PUB_KEY /\ r2 = When(legacy, <<i>>) \o r3
    BY DEF Item, write_primitive
  <2> HIDE DEF S, r2, r3, i
  <2> QED BY <1>2, <1>5, <2>1, NextTagUnderCondition, Tags
<1>7. /\ Item(TLV.UID, Bytes(16, uid)) \in S /\ Item(TLV.PUB_KEY, Bytes(key_size, key)) \in S
      /\ Item(TLV.INT, Bytes(2, version)) \in S /\ Item(TLV.STATUS, Bytes(1, status)) \in S
      /\ Item(TLV.INT, Bytes(1, slots)) \in S /\ Item(TLV.KEY_UID, Bytes(uid_size, key_uid)) \in S
      /\ Item(TLV.CAPABILITIES, Bytes(1, capabilities)) \in S
      /\ Item(TLV.CERT, Bytes(98, cert)) \in S
      /\ Item(TLV.APPLICATION_INFO_TEMPLATE, Bytes(Len(r1), "content")) \in S
  OBVIOUS
<1>8. /\ 16 \in AnySize /\ key_size \in AnySize /\ 2 \in 1 .. 4 /\ 1 \in Nat \ {0} /\ 1 \in 1 .. 4
      /\ uid_size \in AnySize /\ 98 \in AnySize /\ Len(r1) \in AnySize
  <2>1. Len(r1) \in Nat
    <3> HIDE DEF S, r1
    <3> QED BY <1>2
  <2> HIDE DEF r1
  <2> QED BY <2>1 DEF AnySize
<1>9. modern \in BOOLEAN /\ (~modern => ~next_tag_is(r5, TLV.STATUS))
      /\ 1 \in Nat \ {0} /\ none \in Seq(S) /\ ~next_tag_is(none, TLV.CERT)
  <2> HIDE DEF S, r5
  <2> QED BY <1>2, <1>5
<1> DEFINE some == Nat \ {0}
<1>20. 1 \in some
  OBVIOUS
<1> HIDE DEF S, modern, none, some
<1>10. Unread(write_primitive(TLV.APPLICATION_INFO_TEMPLATE, content) \o r1, w0)
         & Required(TLV.APPLICATION_INFO_TEMPLATE, AnySize)
       = Unread(r1, w1)
  <2> HIDE DEF r1, w0
  <2> QED BY <1>2, <1>7, <1>8, RequiredField
<1>11. Unread(r1, w1) & Optional(TLV.UID, AnySize) = Unread(r2, w2)
  <2> HIDE DEF r2, w1, v3, v5, v6, v8, v9
  <2> QED BY <1>2, <1>5, <1>6, <1>7, <1>8, <1>9, <1>20, FieldUnderCondition
<1>12. Unread(r2, w2) & Optional(TLV.PUB_KEY, AnySize) = Unread(r3, w3)
  <2> HIDE DEF r3, w2, v2, v5, v6, v8, v9
  <2> QED BY <1>2, <1>5, <1>6, <1>7, <1>8, <1>9, <1>20, FieldUnderCondition
<1>13. Unread(r3, w3) & Required(TLV.INT, 1 .. 4) = Unread(r4, w4)
  <2> HIDE DEF r4, w3, v2, v3, v5, v6, v8, v9
  <2> QED BY <1>2, <1>5, <1>6, <1>7, <1>8, <1>9, <1>20, RequiredField
<1>14. Unread(r4, w4) & Optional(TLV.STATUS, some) = Unread(r5, w5)
  <2> HIDE DEF r5, w4, v2, v3, v6, v8, v9
  <2> QED BY <1>2, <1>5, <1>6, <1>7, <1>8, <1>9, <1>20, FieldUnderCondition
<1>15. Unread(r5, w5) & Optional(TLV.INT, 1 .. 4) = Unread(r6, w6)
  <2> HIDE DEF r6, w5, v2, v3, v5, v8, v9
  <2> QED BY <1>2, <1>5, <1>6, <1>7, <1>8, <1>9, <1>20, FieldUnderCondition
<1>16. Unread(r6, w6) & Required(TLV.KEY_UID, AnySize) = Unread(r7, w7)
  <2> HIDE DEF r7, w6, v2, v3, v5, v6, v8, v9
  <2> QED BY <1>2, <1>5, <1>6, <1>7, <1>8, <1>9, <1>20, RequiredField
<1>17. Unread(r7, w7) & Optional(TLV.CAPABILITIES, some) = Unread(r8, w8)
  <2> HIDE DEF r8, w7, v2, v3, v5, v6, v9
  <2> QED BY <1>2, <1>5, <1>6, <1>7, <1>8, <1>9, <1>20, FieldUnderCondition
<1>18. Unread(r8, w8) & Optional(TLV.CERT, AnySize) = Unread(none, w9)
  <2> HIDE DEF w1, w8, v2, v3, v5, v6, v8
  <2> QED BY <1>2, <1>5, <1>6, <1>7, <1>8, <1>9, <1>20, FieldUnderCondition
<1>19. read_template(write_primitive(TLV.APPLICATION_INFO_TEMPLATE, content) \o r1)
       = Unread(none, w9)
  <2> HIDE DEF r1, r2, r3, r4, r5, r6, r7, r8, content, w0, w1, w2, w3, w4, w5, w6, w7, w8, w9
  <2>1. read_template(write_primitive(TLV.APPLICATION_INFO_TEMPLATE, content) \o r1)
         = Unread(write_primitive(TLV.APPLICATION_INFO_TEMPLATE, content) \o r1, w0)
           & Required(TLV.APPLICATION_INFO_TEMPLATE, AnySize)
           & Optional(TLV.UID, AnySize) & Optional(TLV.PUB_KEY, AnySize) & Required(TLV.INT, 1 .. 4)
           & Optional(TLV.STATUS, some) & Optional(TLV.INT, 1 .. 4)
           & Required(TLV.KEY_UID, AnySize) & Optional(TLV.CAPABILITIES, some)
           & Optional(TLV.CERT, AnySize)
    BY StartIsUnread DEF read_template, read_integer, enter_constructed, some, w0
  <2> QED BY <2>1, <1>10, <1>11, <1>12, <1>13, <1>14, <1>15, <1>16, <1>17, <1>18
<1>21. /\ w9[3] = v3 /\ w9[4] = Bytes(2, version) /\ w9[5] = v5 /\ w9[6] = v6
       /\ w9[7] = Bytes(uid_size, key_uid) /\ w9[8] = v8 /\ w9[9] = v9
  <2> DEFINE x4 == Bytes(2, version)
             x7 == Bytes(uid_size, key_uid)
             V == {content, v2, v3, x4, v5, v6, x7, v8, v9}
  <2>1. /\ content \in V /\ v2 \in V /\ v3 \in V /\ x4 \in V /\ v5 \in V /\ v6 \in V
        /\ x7 \in V /\ v8 \in V /\ v9 \in V
    OBVIOUS
  <2>2. /\ w1 = Append(<<>>, content) /\ w2 = Append(w1, v2) /\ w3 = Append(w2, v3)
        /\ w4 = Append(w3, x4) /\ w5 = Append(w4, v5) /\ w6 = Append(w5, v6)
        /\ w7 = Append(w6, x7) /\ w8 = Append(w7, v8) /\ w9 = Append(w8, v9)
    OBVIOUS
  <2> HIDE DEF content, v2, v3, x4, v5, v6, x7, v8, v9, V, w1, w2, w3, w4, w5, w6, w7, w8, w9
  <2>3. w9[3] = v3 /\ w9[4] = x4 /\ w9[5] = v5 /\ w9[6] = v6 /\ w9[7] = x7 /\ w9[8] = v8 /\ w9[9] = v9
    BY <2>1, <2>2, NineValuesInOrder
  <2> QED BY <2>3 DEF x4, x7
<1> HIDE DEF w9
<1>22. ~next_tag_is(write_primitive(TLV.APPLICATION_INFO_TEMPLATE, content) \o r1, TLV.PUB_KEY)
  <2> DEFINE i == Item(TLV.APPLICATION_INFO_TEMPLATE, content)
  <2>1. i \in S /\ i.tag = TLV.APPLICATION_INFO_TEMPLATE
    BY DEF Item, S
  <2>2. write_primitive(TLV.APPLICATION_INFO_TEMPLATE, content) = <<i>>
    BY DEF write_primitive
  <2> HIDE DEF i, r1, content
  <2> QED BY <1>2, <2>1, <2>2, NextTag, Tags
<1> DEFINE items == write_constructed(TLV.APPLICATION_INFO_TEMPLATE,
                                      f1 \o f2 \o f3 \o f4 \o f5 \o f6 \o f7 \o f8)
<1>23. /\ ~next_tag_is(items, TLV.PUB_KEY)
       /\ read_template(items) = Unread(none, w9)
  <2> HIDE DEF f1, f2, f3, f4, f5, f6, f7, f8, r1, content
  <2> QED BY <1>3, <1>4, <1>19, <1>22
<1>26. SelectResponse(c, state) = items
  BY <1>24 DEF modern
<1> HIDE DEF items
<1> QED BY <1>21, <1>23, <1>26 DEF modern, none

\* What app_info() has of an applet that answers with its template.
Template(c, state) ==
  LET a == Applet[c]
      legacy == a.version < V4
      status == IF legacy THEN INITIALIZED
                ELSE (IF a.initialized THEN INITIALIZED ELSE 0) + state.tries
  IN  [initialized |-> Bit(status, INITIALIZED),
       pub_key |-> IF legacy THEN Bytes(IF SecureApplet(c) THEN 65 ELSE 0, c) ELSE Absent,
       app_version |-> a.version % 65536,
       free_pairing_slots |-> (IF legacy THEN state.slots ELSE 0) % 256,
       key_uid |-> Bytes(IF state.keyed THEN 32 ELSE 0, c), status |-> status,
       cert_data |-> IF a.issuer # None THEN Bytes(98, [ident |-> c, ca |-> a.issuer]) ELSE Absent,
       capabilities |-> IF a.version >= V2 THEN a.capabilities ELSE ALL]

\* Every applet's response parses, to what it says.
LEMMA Parsed ==
  ASSUME NEW c \in Cards, NEW state \in CardStates
  PROVE  ApplicationInfo[c][state] =
           IF Applet[c].version < V4 /\ ~Applet[c].initialized
             THEN uninitialized_from_tlv(Bytes(IF SecureApplet(c) THEN 65 ELSE 0, c))
             ELSE Template(c, state)
<1> DEFINE a == Applet[c]
           legacy == a.version < V4
           caps == a.version >= V2
           certified == a.issuer # None
           key == Bytes(IF SecureApplet(c) THEN 65 ELSE 0, c)
           status == (IF a.initialized THEN INITIALIZED ELSE 0) + IF legacy THEN 0 ELSE state.tries
           items == SelectResponse(c, state)
<1>1. ApplicationInfo[c][state] = from_tlv(items)
  BY DEF ApplicationInfo
<1>2. CASE legacy /\ ~a.initialized
  <2>1. items = <<Item(TLV.PUB_KEY, key)>>
    BY <1>2 DEF SelectResponse, write_primitive
  <2>2. next_tag_is(items, TLV.PUB_KEY) /\ read_primitive(items, TLV.PUB_KEY) = key
    <3> HIDE DEF key, items
    <3> QED BY <2>1 DEF next_tag_is, read_primitive, Item
  <2>3. key # Err
    BY NoErr
  <2> HIDE DEF key, items
  <2>4. from_tlv(items) = uninitialized_from_tlv(key)
    BY <2>2, <2>3 DEF from_tlv
  <2> QED BY <1>1, <1>2, <2>4 DEF key
<1>3. CASE ~(legacy /\ ~a.initialized)
  <2>1. /\ ~next_tag_is(items, TLV.PUB_KEY)
        /\ \E values :
             /\ read_template(items) = Unread(<<>>, values)
             /\ values[3] = IF legacy THEN key ELSE Absent
             /\ values[4] = Bytes(2, a.version)
             /\ values[5] = IF ~legacy THEN Bytes(1, status) ELSE Absent
             /\ values[6] = IF legacy THEN Bytes(1, state.slots) ELSE Absent
             /\ values[7] = Bytes(IF state.keyed THEN 32 ELSE 0, c)
             /\ values[8] = IF caps THEN Bytes(1, a.capabilities) ELSE Absent
             /\ values[9] = IF certified THEN Bytes(98, [ident |-> c, ca |-> a.issuer]) ELSE Absent
    BY <1>3, TemplateIsRead
  <2>2. PICK values :
             /\ read_template(items) = Unread(<<>>, values)
             /\ values[3] = IF legacy THEN key ELSE Absent
             /\ values[4] = Bytes(2, a.version)
             /\ values[5] = IF ~legacy THEN Bytes(1, status) ELSE Absent
             /\ values[6] = IF legacy THEN Bytes(1, state.slots) ELSE Absent
             /\ values[7] = Bytes(IF state.keyed THEN 32 ELSE 0, c)
             /\ values[8] = IF caps THEN Bytes(1, a.capabilities) ELSE Absent
             /\ values[9] = IF certified THEN Bytes(98, [ident |-> c, ca |-> a.issuer]) ELSE Absent
    BY <2>1
  <2>3. from_tlv(items) = template_from_tlv(values)
    <3>1. Unread(<<>>, values) # Err /\ Unread(<<>>, values).values = values
      BY NoErr DEF Unread
    <3> HIDE DEF items
    <3> QED BY <2>1, <2>2, <3>1 DEF from_tlv
  <2>4. Default(values[5], INITIALIZED) = IF ~legacy THEN status ELSE INITIALIZED
    <3> HIDE DEF legacy, status
    <3>1. CASE legacy
      BY <2>2, <3>1, NoErr DEF Default
    <3>2. CASE ~legacy
      BY <2>2, <3>2, NoErr DEF Default, Bytes
    <3> QED BY <3>1, <3>2
  <2>5. Default(values[6], 0) = IF legacy THEN state.slots ELSE 0
    <3> HIDE DEF legacy
    <3> QED BY <2>2, NoErr DEF Default, Bytes
  <2>6. Default(values[8], ALL) = IF caps THEN a.capabilities ELSE ALL
    <3> HIDE DEF caps
    <3> QED BY <2>2, NoErr DEF Default, Bytes
  <2>7. values[4].of = a.version
    BY <2>2 DEF Bytes
  <2>8. ~legacy => status = (IF a.initialized THEN INITIALIZED ELSE 0) + state.tries
    OBVIOUS
  <2>9. template_from_tlv(values) = Template(c, state)
    <3> HIDE DEF status
    <3>1. (IF ~legacy THEN status ELSE INITIALIZED)
            = IF legacy THEN INITIALIZED ELSE (IF a.initialized THEN INITIALIZED ELSE 0) + state.tries
      BY <2>8
    <3> QED BY <2>2, <2>4, <2>5, <2>6, <2>7, <3>1 DEF template_from_tlv, Template
  <2> HIDE DEF items
  <2> QED BY <1>1, <1>3, <2>3, <2>9
<1> QED BY <1>2, <1>3

\* What a u16, a u8 and the status byte keep of the numbers they are given.
LEMMA Widths ==
  /\ \A n : Fits(n, 65536) => n % 65536 = n
  /\ \A n : Fits(n, 256) => n % 256 = n
  /\ \A n : Fits(n, 16) => /\ Bit(INITIALIZED + n, INITIALIZED) /\ (INITIALIZED + n) % 16 = n
                           /\ ~Bit(0 + n, INITIALIZED) /\ (0 + n) % 16 = n
  /\ Bit(INITIALIZED, INITIALIZED)
  /\ Bit(CREDENTIALS_MANAGEMENT + SECURE_CHANNEL, SECURE_CHANNEL)
  /\ ~Bit(CREDENTIALS_MANAGEMENT + 0, SECURE_CHANNEL)
  /\ Fits(0, 256)
  BY DEF Fits, Bit, INITIALIZED, CREDENTIALS_MANAGEMENT, SECURE_CHANNEL

\* What the parsed response says of the applet, whichever its generation.
LEMMA InfoFacts ==
  ASSUME NEW c \in Cards, NEW state \in CardStates
  PROVE  LET a == Applet[c]
             i == ApplicationInfo[c][state]
         IN  /\ i # Err /\ i # Absent
             /\ i.initialized <=> a.initialized
             /\ has_secure_channel(i) <=> SecureApplet(c)
             /\ is_secure_channel_v2(i) <=> a.version >= V4
             /\ a.initialized \/ a.version >= V4 =>
                  /\ i.app_version = a.version
                  /\ has_master_key(i) <=> state.keyed
                  /\ pin_retries(i) = IF a.version < V4 THEN None ELSE state.tries
                  /\ i.free_pairing_slots = IF a.version < V4 THEN state.slots ELSE 0
             /\ i.pub_key = Absent \/ i.pub_key.of = c
             /\ a.version >= V4 =>
                  i.cert_data = IF a.issuer # None THEN Bytes(98, [ident |-> c, ca |-> a.issuer])
                                ELSE Absent
<1> DEFINE a == Applet[c]
           i == ApplicationInfo[c][state]
           key == Bytes(IF SecureApplet(c) THEN 65 ELSE 0, c)
<1>1. /\ Fits(a.version, 65536) /\ a.initialized \in BOOLEAN /\ Fits(a.capabilities, 256)
      /\ a.version < V2 => a.capabilities = ALL
      /\ state.keyed \in BOOLEAN /\ Fits(state.tries, 16) /\ Fits(state.slots, 256)
  BY AppletAssumption
<1>2. CASE a.version < V4 /\ ~a.initialized
  <2>1. i = uninitialized_from_tlv(key)
    BY <1>2, Parsed
  <2>2. /\ i.initialized <=> FALSE
        /\ i.pub_key = key /\ i.app_version = 0
        /\ i.capabilities = CREDENTIALS_MANAGEMENT + IF key.size > 0 THEN SECURE_CHANNEL ELSE 0
    BY <2>1 DEF uninitialized_from_tlv
  <2>3. i # Err /\ i # Absent
    <3>1. "capabilities" \in DOMAIN i /\ "capabilities" \notin DOMAIN Err
          /\ "capabilities" \notin DOMAIN Absent
      <4> HIDE DEF i, key
      <4> QED BY <2>1 DEF uninitialized_from_tlv, Err, Absent
    <3> HIDE DEF i
    <3> QED BY <3>1
  <2>4. key.size > 0 <=> SecureApplet(c)
    BY DEF Bytes
  <2>5. key.of = c
    BY DEF Bytes
  <2> HIDE DEF i, key, a
  <2>6. has_secure_channel(i) <=> SecureApplet(c)
    BY <2>2, <2>4, Widths DEF has_secure_channel
  <2>7. ~is_secure_channel_v2(i) /\ ~(a.version >= V4)
    BY <1>1, <1>2, <2>2 DEF is_secure_channel_v2, V4, Fits
  <2> QED BY <1>1, <1>2, <2>2, <2>3, <2>5, <2>6, <2>7 DEF i, a
<1>3. CASE ~(a.version < V4 /\ ~a.initialized)
  <2> DEFINE legacy == a.version < V4
             status == IF legacy THEN INITIALIZED
                       ELSE (IF a.initialized THEN INITIALIZED ELSE 0) + state.tries
             keyBytes == Bytes(IF state.keyed THEN 32 ELSE 0, c)
  <2>1. i = Template(c, state)
    BY <1>3, Parsed
  <2>2. /\ i.initialized <=> Bit(status, INITIALIZED)
        /\ i.pub_key = IF legacy THEN key ELSE Absent
        /\ i.app_version = a.version % 65536
        /\ i.free_pairing_slots = (IF legacy THEN state.slots ELSE 0) % 256
        /\ i.key_uid = keyBytes /\ i.status = status
        /\ i.cert_data = IF a.issuer # None THEN Bytes(98, [ident |-> c, ca |-> a.issuer]) ELSE Absent
        /\ i.capabilities = IF a.version >= V2 THEN a.capabilities ELSE ALL
    BY <2>1 DEF Template
  <2>3. i # Err /\ i # Absent
    <3>1. "capabilities" \in DOMAIN i /\ "capabilities" \notin DOMAIN Err
          /\ "capabilities" \notin DOMAIN Absent
      <4> HIDE DEF i
      <4> QED BY <2>1 DEF Template, Err, Absent
    <3> HIDE DEF i
    <3> QED BY <3>1
  <2>4. keyBytes.size > 0 <=> state.keyed
    BY <1>1 DEF Bytes
  <2>5. key.of = c
    BY DEF Bytes
  <2> HIDE DEF i, key, keyBytes, a
  <2>6. i.app_version = a.version
    BY <1>1, <2>2, Widths
  <2>7. i.initialized <=> a.initialized
    BY <1>1, <1>3, <2>2, Widths
  <2>8. has_secure_channel(i) <=> SecureApplet(c)
    <3>1. i.capabilities = a.capabilities
      BY <1>1, <2>2 DEF Fits, V2
    <3> QED BY <3>1 DEF has_secure_channel, SecureApplet, a
  <2>9. is_secure_channel_v2(i) <=> a.version >= V4
    BY <2>6 DEF is_secure_channel_v2
  <2>10. has_master_key(i) <=> state.keyed
    BY <2>2, <2>4 DEF has_master_key
  <2>11. pin_retries(i) = IF a.version < V4 THEN None ELSE state.tries
    BY <1>1, <2>2, <2>6, Widths DEF pin_retries
  <2>12. i.free_pairing_slots = IF a.version < V4 THEN state.slots ELSE 0
    BY <1>1, <2>2, Widths
  <2> QED BY <2>2, <2>3, <2>5, <2>6, <2>7, <2>8, <2>9, <2>10, <2>11, <2>12 DEF i, a
<1> QED BY <1>2, <1>3
-----------------------------------------------------------------------------
(***************************************************************************)
(* Selection.                                                              *)
(***************************************************************************)

\* What app_info() has is what the card that was selected last answered.
SelectionIInv ==
  /\ card \in Cards
  /\ told # Absent =>
       info \in Cards /\ told \in CardStates /\ parsed = ApplicationInfo[info][told]

\* select installs what the model of the command set lets it install.
LEMMA SelectInstalls ==
  ASSUME SelectionIInv, select
  PROVE  select_with_index
<1>1. PICK state \in CardStates :
        LET answer == ApplicationInfo[card][state]
        IN  answer # Err /\ info' = card /\ parsed' = answer /\ told' = state /\ install(answer)
  BY DEF select
<1> DEFINE answer == ApplicationInfo[card][state]
           a == Applet[card]
           data == [ident |-> card, ca |-> a.issuer]
<1>2. card \in Cards
  BY DEF SelectionIInv
<1>3. /\ has_secure_channel(answer) <=> SecureApplet(card)
      /\ is_secure_channel_v2(answer) <=> a.version >= V4
      /\ answer.pub_key = Absent \/ answer.pub_key.of = card
      /\ a.version >= V4 =>
           answer.cert_data = IF a.issuer # None THEN Bytes(98, data) ELSE Absent
  BY <1>2, InfoFacts
<1>4. info' = card /\ install(answer)
  BY <1>1
<1> HIDE DEF answer
<1>5. CASE ~has_secure_channel(answer)
  <2>1. card \in PlainCards
    BY <1>2, <1>3, <1>5, CardsOfApplets
  <2>2. UNCHANGED <<channel, peer>>
    BY <1>4, <1>5 DEF install
  <2> QED BY <2>1, <2>2 DEF select_plain, select_with_index, select, answer
<1>6. CASE has_secure_channel(answer) /\ is_secure_channel_v2(answer)
  <2>1. card \in V2Cards
    BY <1>2, <1>3, <1>6, CardsOfApplets
  <2>2. install_v2(answer)
    BY <1>4, <1>6 DEF install
  <2>3. CASE answer.cert_data = Absent
    <3>1. Install(New("V2", None))
      BY <2>2, <2>3 DEF install_v2
    <3> QED BY <1>4, <2>1, <3>1 DEF select_v2, select_with_index, select
  <2>4. CASE answer.cert_data # Absent
    <3>1. a.issuer # None /\ answer.cert_data = Bytes(98, data)
      BY <1>3, <1>6, <2>4
    <3>2. certificate(answer.cert_data) = data
      BY <3>1 DEF certificate, Bytes
    <3>3. is_card_trusted(data) => card \in Trusted
      BY <2>1, <3>1, CardsOfApplets DEF is_card_trusted, CertifiedBy
    <3>4. \/ is_card_trusted(data) /\ Install(New("V2", card))
          \/ UNCHANGED <<channel, peer>>
      BY <2>2, <2>4, <3>2 DEF install_v2
    <3> QED BY <1>4, <2>1, <3>3, <3>4 DEF select_v2, select_with_index, select
  <2> QED BY <2>3, <2>4
<1>7. CASE has_secure_channel(answer) /\ ~is_secure_channel_v2(answer)
  <2>1. card \in V1Cards
    BY <1>2, <1>3, <1>7, CardsOfApplets DEF Cards
  <2>2. install_v1(answer)
    BY <1>4, <1>7 DEF install
  <2>3. \E ident \in {card, None} : Install(New("V1", ident))
    BY <1>3, <2>2 DEF install_v1
  <2> QED BY <1>4, <2>1, <2>3 DEF select_v1, select_with_index, select
<1> QED BY <1>5, <1>6, <1>7

\* Every step of Selection keeps its invariant and is one of the command set's.
LEMMA SelectionStep ==
  ASSUME SelectionIInv, [SelectionNext]_selection_vars
  PROVE  SelectionIInv' /\ [Next]_vars
<1>1. CASE UNCHANGED selection_vars
  BY <1>1 DEF selection_vars, vars, SelectionIInv
<1>2. CASE select
  <2>1. [Next]_vars
    BY <1>2, SelectInstalls DEF Next
  <2>2. SelectionIInv'
    <3>1. PICK state \in CardStates :
            LET answer == ApplicationInfo[card][state]
            IN  info' = card /\ parsed' = answer /\ told' = state
      BY <1>2 DEF select
    <3>2. card' = card
      BY <1>2 DEF select
    <3> QED BY <3>1, <3>2 DEF SelectionIInv
  <2> QED BY <2>1, <2>2
<1>3. CASE Next /\ (card' \in Cards \/ UNCHANGED card) /\ UNCHANGED <<info, parsed, told>>
  BY <1>3 DEF SelectionIInv
<1>4. CASE /\ \/ Swap
              \/ auto_open_secure_channel
              \/ pair
              \/ protected
              \/ init_v2
              \/ init_v2_send
              \/ init_v1
           /\ UNCHANGED <<parsed, told>>
  <2>1. Next
    BY <1>4 DEF Next
  <2>2. card' \in Cards \/ UNCHANGED card
    BY <1>4 DEF Swap, auto_open_secure_channel, pair, protected, init_v2, init_v2_send, init_v1
  <2>3. UNCHANGED info
    BY <1>4 DEF Swap, auto_open_secure_channel, pair, protected, init_v2, init_v2_send, init_v1
  <2> QED BY <1>3, <1>4, <2>1, <2>2, <2>3
<1> QED BY <1>1, <1>2, <1>4 DEF SelectionNext

LEMMA SelectionInvariant == SelectionSpec => []SelectionIInv
<1>1. SelectionInit => SelectionIInv
  BY DEF SelectionInit, Init, SelectionIInv
<1>2. SelectionIInv /\ [SelectionNext]_selection_vars => SelectionIInv'
  BY SelectionStep
<1> QED BY <1>1, <1>2, PTL DEF SelectionSpec

\* SELECT in detail, its parser and its choice of a channel, does what the
\* command set's select_with_index may do (keycard.rs, select_with_index).
THEOREM SelectionImplements == SelectionSpec => CommandSet
<1>1. SelectionInit => Init
  BY DEF SelectionInit
<1>2. SelectionIInv /\ [SelectionNext]_selection_vars => [Next]_vars
  BY SelectionStep
<1> QED BY <1>1, <1>2, SelectionInvariant, PTL DEF SelectionSpec, CommandSet, Spec

\* app_info() is true of the card that was selected last, for applets of every
\* version with any of their fields (ApplicationInfo::from_tlv).
THEOREM TruthfulInfo == SelectionSpec => []InfoIsTrue
<1>1. ASSUME SelectionIInv PROVE InfoIsTrue
  <2>1. \A c \in Cards, state \in CardStates : ApplicationInfo[c][state] # Err
    BY InfoFacts
  <2>2. CASE told = Absent
    BY <2>1, <2>2 DEF InfoIsTrue
  <2>3. CASE told # Absent
    <3>1. info \in Cards /\ told \in CardStates /\ parsed = ApplicationInfo[info][told]
      BY <1>1, <2>3 DEF SelectionIInv
    <3> DEFINE a == Applet[info]
    <3>2. /\ parsed # Absent
          /\ parsed.initialized <=> a.initialized
          /\ has_secure_channel(parsed) <=> SecureApplet(info)
          /\ a.initialized \/ a.version >= V4 =>
               /\ parsed.app_version = a.version
               /\ has_master_key(parsed) <=> told.keyed
               /\ pin_retries(parsed) = IF a.version < V4 THEN None ELSE told.tries
               /\ parsed.free_pairing_slots = IF a.version < V4 THEN told.slots ELSE 0
      <4> DEFINE i == ApplicationInfo[info][told]
      <4>1. /\ i # Absent
            /\ i.initialized <=> a.initialized
            /\ has_secure_channel(i) <=> SecureApplet(info)
            /\ a.initialized \/ a.version >= V4 =>
                 /\ i.app_version = a.version
                 /\ has_master_key(i) <=> told.keyed
                 /\ pin_retries(i) = IF a.version < V4 THEN None ELSE told.tries
                 /\ i.free_pairing_slots = IF a.version < V4 THEN told.slots ELSE 0
        BY <3>1, InfoFacts
      <4>2. parsed = i
        BY <3>1
      <4> HIDE DEF i, a
      <4> QED BY <4>1, <4>2
    <3> QED BY <2>1, <3>2 DEF InfoIsTrue
  <2> QED BY <2>2, <2>3
<1> QED BY <1>1, SelectionInvariant, PTL

\* What holds of the command set holds of it with SELECT in detail.
THEOREM SelectionTyped == SelectionSpec => []TypeOK
  BY SelectionImplements, CommandSetTyped, PTL DEF CommandSet

\* Whatever the cards answer to SELECT, a channel is open only to a trusted one.
THEOREM SelectionTrusted == SelectionSpec => []OpenOnlyToTrusted
  BY SelectionImplements, TrustedOpening, PTL DEF CommandSet

\* Whatever the cards answer to SELECT, INIT leaves sealed.
THEOREM SelectionSealed == SelectionSpec => []InitIsSealed
  BY SelectionImplements, InitSealing, PTL DEF CommandSet
=============================================================================
