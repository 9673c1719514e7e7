----------------------- MODULE SecureChannelV1_proofs -----------------------
(***************************************************************************)
(* Proofs about SecureChannelV1, for any number of slots and any bounds.   *)
(***************************************************************************)
EXTENDS SecureChannelV1, TLAPS

Card == [key : Nat, iv : Nat, slots : [Slots -> Nat \union {None}], ours : BOOLEAN]

\* A channel is opened with a key that was drawn.
OpenHasKey == open => key # NoKey

\* A card that holds the channel's key derived it, and once the call that
\* opened the channel is over, a channel that is still open has seen it do so.
PeerIsGenuine ==
  /\ open /\ card.key = key => genuine
  /\ open /\ call.op # "auto_open" => genuine

\* unpair_others is never at its own slot, and has freed those it went past.
FreedSoFar ==
  call.op = "unpair_others" =>
    /\ call.next # call.keep
    /\ \A i \in Slots : i < call.next /\ i # call.keep =>
         card.slots[i] = None \/ i \in call.taken

IInv == TypeOK /\ InStep /\ OpenHasKey /\ PeerIsGenuine /\ FreedSoFar

-----------------------------------------------------------------------------
\* The records of a call tell the calls apart.
LEMMA CallRecords ==
  ASSUME call \in Calls
  PROVE  /\ call.op \in {"none", "auto_open", "auto_pair", "unpair_others"}
         /\ call = Idle <=> call.op = "none"
         /\ call.op = "unpair_others" =>
              /\ call = Unpairing(call.next, call.keep, call.taken)
              /\ call.next \in 0 .. MaxClients
              /\ call.keep \in Slots \union {None}
              /\ call.taken \in SUBSET Slots
<1>1. CASE call \in {[op |-> o] : o \in {"none", "auto_open", "auto_pair"}}
  BY <1>1 DEF Idle
<1>2. CASE \E i \in 0 .. MaxClients, k \in Slots \union {None}, t \in SUBSET Slots :
             call = Unpairing(i, k, t)
  BY <1>2 DEF Idle, Unpairing
<1> QED BY <1>1, <1>2 DEF Calls

\* The loop steps over its own slot only, and never past the last one.
LEMMA SkipsItsOwn ==
  ASSUME NEW i \in 0 .. MaxClients, NEW k \in Slots \union {None}
  PROVE  /\ Skip(i, k) \in 0 .. MaxClients
         /\ Skip(i, k) # k
         /\ \A j \in Slots : j < Skip(i, k) /\ j # k => j < i
  BY NoneAssumption, MaxClientsAssumption DEF Skip, Slots

\* What an exchange leaves: a channel that is still open has heard from the card
\* that holds its key, under the IV it expected.
LEMMA Exchanged ==
  ASSUME IInv, NEW s \in [Slots -> Nat \union {None}], NEW r \in Answers, exchange(s, r)
  PROVE  /\ open' \in BOOLEAN /\ iv' \in Nat /\ ivs' \in Nat /\ card' \in Card
         /\ open' => open /\ card.key = key /\ card'.iv = iv'
         /\ r # "garbled"
         /\ card'.slots \in {card.slots, s}
         /\ r = "ok" => card'.slots = s
         /\ UNCHANGED <<key, secret, pairing, keys, pairings, genuine>>
<1> USE DEF IInv, TypeOK, Card
<1>1. /\ ivs' \in Nat /\ card \in Card /\ card.slots \in [Slots -> Nat \union {None}]
      /\ UNCHANGED <<key, secret, pairing, keys, pairings, genuine>>
  BY DEF exchange
<1>2. update_iv(2) \in Nat /\ \A t \in [Slots -> Nat \union {None}] :
        Executed(t) \in Card /\ Executed(t).slots = t /\ Executed(t).iv = update_iv(2)
  <2>1. update_iv(2) \in Nat
    <3>1. ivs \in Nat
      OBVIOUS
    <3> QED BY ONLY <3>1 DEF update_iv
  <2> QED BY <2>1, <1>1 DEF Executed
<1>3. SessionLost \in Card /\ SessionLost.slots = card.slots
  BY NoneAssumption DEF SessionLost, NoKey
<1>4. CASE r \in {"error", "status"} /\ Close /\ card' \in {card, SessionLost, Executed(s)}
  BY <1>1, <1>2, <1>3, <1>4 DEF Close
<1>5. CASE Unwrapped(s, r)
  <2>1. /\ card' = Executed(IF r = "ok" THEN s ELSE card.slots)
        /\ iv' = update_iv(2) /\ open' = open /\ open /\ card.key = key
        /\ r # "garbled"
    BY <1>5 DEF Unwrapped, InStep
  <2> QED BY <2>1, <1>1, <1>2
<1>6. CASE PlaintextAnswer(s, r)
  BY <1>1, <1>6 DEF PlaintextAnswer
<1> QED
  BY <1>4, <1>5, <1>6
     DEF exchange, SendFails, Undecipherable, SecurityConditionNotSatisfied, ExecutedIf, Close
-----------------------------------------------------------------------------
\* The initial states satisfy the invariant: nothing is open, no call runs.
LEMMA InitIInv == Init => IInv
<1> SUFFICES ASSUME Init PROVE IInv
  OBVIOUS
<1>1. call \in Calls /\ call.op = "none" /\ result \in Results
  BY DEF Init, Calls, Idle, Results
<1>2. card \in Card
  <2>1. PICK s \in [Slots -> {None, 0}] :
             card = [key |-> 0, iv |-> 0, slots |-> s, ours |-> FALSE]
    BY DEF Init, Foreign, NoKey
  <2>2. s \in [Slots -> Nat \union {None}]
    OBVIOUS
  <2>3. card \in [key : Nat, iv : Nat, slots : [Slots -> Nat \union {None}], ours : BOOLEAN]
    BY <2>1, <2>2
  <2> QED BY <2>3 DEF Card
<1>3. TypeOK
  BY <1>1, <1>2 DEF Init, TypeOK, Card, NoKey
<1> QED
  BY <1>1, <1>3 DEF Init, IInv, InStep, OpenHasKey, PeerIsGenuine, FreedSoFar

\* Every step preserves the invariant.
LEMMA NextIInv == IInv /\ [Next]_vars => IInv'
<1> SUFFICES ASSUME IInv, [Next]_vars PROVE IInv'
  OBVIOUS
<1> DEFINE Call(c) == /\ c.op \in {"none", "auto_open", "auto_pair", "unpair_others"}
                      /\ c = Idle <=> c.op = "none"
<1>c. /\ call \in Calls /\ Call(call)
      /\ call.op = "unpair_others" =>
              /\ call = Unpairing(call.next, call.keep, call.taken)
              /\ call.next \in 0 .. MaxClients
              /\ call.keep \in Slots \union {None}
              /\ call.taken \in SUBSET Slots
  BY CallRecords DEF IInv, TypeOK
<1>i. Idle \in Calls /\ Idle.op = "none"
  BY DEF Idle, Calls
<1>e. ASSUME NEW s \in [Slots -> Nat \union {None}], NEW r \in Answers, exchange(s, r),
             established' \in BOOLEAN, carried' \in BOOLEAN, result' \in Results \ {"garbled"},
             call' \in Calls, FreedSoFar'
      PROVE  IInv'
  <2>1. /\ open' \in BOOLEAN /\ iv' \in Nat /\ ivs' \in Nat /\ card' \in Card
        /\ open' => open /\ card.key = key /\ card'.iv = iv'
        /\ UNCHANGED <<key, secret, pairing, keys, pairings, genuine>>
    BY <1>e, Exchanged
  <2>2. TypeOK'
    BY <1>e, <2>1 DEF IInv, TypeOK, Card
  <2>3. InStep'
    BY <1>e, <2>1 DEF InStep
  <2>4. OpenHasKey' /\ PeerIsGenuine'
    BY <2>1 DEF IInv, OpenHasKey, PeerIsGenuine
  <2> QED BY <1>e, <2>2, <2>3, <2>4 DEF IInv
<1>s. card.slots \in [Slots -> Nat \union {None}]
      /\ \A i \in Slots : Without(i) \in [Slots -> Nat \union {None}]
  BY DEF IInv, TypeOK, Without
<1>1. CASE UNCHANGED vars
  BY <1>1 DEF vars, session, drawn, history, IInv, TypeOK, InStep, OpenHasKey, PeerIsGenuine,
     FreedSoFar
<1>2. CASE OtherClient
  <2>1. /\ card' \in Card /\ card'.key = NoKey
        /\ UNCHANGED <<session, secret, pairing, result, drawn, history>>
    <3>1. SessionLost \in Card /\ SessionLost.key = NoKey
      BY DEF SessionLost, IInv, TypeOK, Card, NoKey
    <3>2. 0 \in Nat /\ None \in Nat \union {None} /\ FALSE \in BOOLEAN
      OBVIOUS
    <3> QED BY <1>2, <3>1, <3>2 DEF OtherClient, Card, Foreign
  <2>2. call' \in Calls /\ call'.op = call.op
    <3>1. CASE UNCHANGED call
      BY <3>1, <1>c
    <3>2. ASSUME NEW i \in Slots, call.op = "unpair_others",
                 call' = [call EXCEPT !.taken = @ \union {i}]
          PROVE  call' \in Calls /\ call'.op = call.op
      <4>1. call' = Unpairing(call.next, call.keep, call.taken \union {i})
        BY <3>2, <1>c DEF Unpairing
      <4> QED BY <4>1, <3>2, <1>c DEF Calls, Unpairing
    <3> QED BY <1>2, <3>1, <3>2 DEF OtherClient
  <2>3. FreedSoFar'
    <3> SUFFICES ASSUME call'.op = "unpair_others"
                 PROVE  /\ call'.next # call'.keep
                        /\ \A i \in Slots : i < call'.next /\ i # call'.keep =>
                             card'.slots[i] = None \/ i \in call'.taken
      BY DEF FreedSoFar
    <3> DEFINE Spared == \A i \in Slots :
                           \/ /\ card'.slots[i] = card.slots[i]
                              /\ i \in call.taken => i \in call'.taken
                           \/ card'.slots[i] = None
                           \/ i \in call'.taken
    <3>1. call'.next = call.next /\ call'.keep = call.keep /\ Spared
      <4>c. /\ call = Unpairing(call.next, call.keep, call.taken)
            /\ call.taken \in SUBSET Slots /\ call.op = "unpair_others"
        BY <1>c, <2>2
      <4>s. card \in [key : Nat, iv : Nat, slots : [Slots -> Nat \union {None}], ours : BOOLEAN]
        BY DEF IInv, TypeOK
      <4>1. CASE card' = [SessionLost EXCEPT !.ours = FALSE] /\ UNCHANGED call
        BY <4>1, <4>s DEF SessionLost
      <4>2. ASSUME NEW i \in Slots,
                   card' = [SessionLost EXCEPT !.slots[i] = Foreign, !.ours = FALSE],
                   call' = [call EXCEPT !.taken = @ \union {i}]
            PROVE  call'.next = call.next /\ call'.keep = call.keep /\ Spared
        <5>1. call' = Unpairing(call.next, call.keep, call.taken \union {i})
          BY <4>2, <4>c DEF Unpairing
        <5>2. \A j \in Slots : j # i => card'.slots[j] = card.slots[j]
          BY <4>2, <4>s DEF SessionLost
        <5> QED BY <5>1, <5>2, <4>c DEF Unpairing
      <4>3. ASSUME NEW i \in Slots, card' = [SessionLost EXCEPT !.slots[i] = None], UNCHANGED call
            PROVE  call'.next = call.next /\ call'.keep = call.keep /\ Spared
        <5>1. \A j \in Slots : card'.slots[j] = IF j = i THEN None ELSE card.slots[j]
          BY <4>3, <4>s DEF SessionLost
        <5> QED BY <5>1, <4>3
      <4> QED BY <1>2, <4>c, <4>1, <4>2, <4>3 DEF OtherClient
    <3> QED BY <3>1, <2>2 DEF IInv, FreedSoFar
  <2>4. TypeOK'
    BY <2>1, <2>2 DEF session, drawn, history, IInv, TypeOK, Card
  <2>5. InStep' /\ OpenHasKey' /\ PeerIsGenuine'
    BY <2>1, <2>2 DEF session, history, IInv, InStep, OpenHasKey, PeerIsGenuine
  <2> QED BY <2>3, <2>4, <2>5 DEF IInv
<1>3. ASSUME UNCHANGED <<session, call, card, drawn, history>>, secret' \in BOOLEAN,
             pairing' \in [index : Slots, key : Nat] \union {None},
             result' \in Results \ {"garbled"}
      PROVE  IInv'
  BY <1>3 DEF session, drawn, history, IInv, TypeOK, InStep, OpenHasKey, PeerIsGenuine,
     FreedSoFar
<1>4. CASE generate_secret
  BY <1>3, <1>4 DEF generate_secret, IInv, TypeOK, InStep
<1>5. ASSUME NEW p \in [index : Slots, key : 1 .. pairings], set_pairing(p)
      PROVE  IInv'
  <2>1. pairings \in Nat
    BY DEF IInv, TypeOK
  <2>2. p \in [index : Slots, key : Nat]
    BY <2>1
  <2> QED BY <1>3, <1>5, <2>2 DEF set_pairing, IInv, TypeOK, InStep
<1>6. CASE open_secure_channel
  <2>1. SessionLost \in Card /\ card \in Card
    BY DEF SessionLost, IInv, TypeOK, Card, NoKey
  <2>2. /\ open' = FALSE /\ result' = "error" /\ card' \in Card
        /\ UNCHANGED <<established, key, iv, secret, pairing, call, drawn, history>>
    BY <1>6, <2>1 DEF open_secure_channel, Close
  <2>3. FreedSoFar'
    BY <1>6, <1>i DEF open_secure_channel, FreedSoFar
  <2>4. TypeOK'
    BY <2>2 DEF drawn, history, IInv, TypeOK, Card, Results, Answers
  <2> QED BY <2>2, <2>3, <2>4 DEF IInv, InStep, OpenHasKey, PeerIsGenuine
<1>7. CASE process_open_response
  <2>0. call'.op = "auto_open" /\ call' \in Calls
    BY <1>7 DEF process_open_response, Calls
  <2>1. /\ keys' = keys + 1 /\ ivs' = ivs + 1 /\ key' = keys' /\ iv' = ivs' /\ open' = TRUE
        /\ genuine' \in BOOLEAN
        /\ UNCHANGED <<established, secret, pairing, result, pairings, carried>>
        /\ card' = [card EXCEPT !.key = IF genuine' THEN keys' ELSE NoKey, !.iv = ivs']
    BY <1>7 DEF process_open_response
  <2>2. keys \in Nat /\ ivs \in Nat
    BY DEF IInv, TypeOK
  <2>3. keys' \in Nat /\ ivs' \in Nat /\ key' # NoKey
    BY ONLY <2>1, <2>2 DEF NoKey
  <2>4. card' \in Card /\ card'.iv = iv' /\ (card'.key = key' => genuine')
    BY <2>1, <2>3 DEF IInv, TypeOK, Card, NoKey
  <2>5. TypeOK'
    BY <2>0, <2>1, <2>3, <2>4 DEF IInv, TypeOK, Card
  <2> QED
    BY <2>0, <2>1, <2>3, <2>4, <2>5 DEF IInv, InStep, OpenHasKey, PeerIsGenuine, FreedSoFar
<1>8. CASE mutually_authenticate
  <2>1. PICK r \in Answers : /\ exchange(card.slots, r)
                             /\ \/ established' = TRUE /\ result' = "ok"
                                \/ UNCHANGED established /\ result' = "error"
    BY <1>8 DEF mutually_authenticate
  <2>2. established' \in BOOLEAN /\ result' \in Results \ {"garbled"} /\ carried' \in BOOLEAN
    BY <1>8, <2>1 DEF mutually_authenticate, IInv, TypeOK, Results, Answers
  <2>3. call' = Idle /\ FreedSoFar'
    BY <1>8, <1>i DEF mutually_authenticate, FreedSoFar
  <2> QED BY <1>e, <1>s, <1>i, <2>1, <2>2, <2>3
<1>9. CASE reset
  BY <1>9 DEF reset, Idle, drawn, IInv, TypeOK, InStep, OpenHasKey, PeerIsGenuine, FreedSoFar,
     NoKey
<1>10. CASE send_protected
  <2>1. PICK r \in Answers : /\ exchange(card.slots, r) /\ result' = r
                             /\ carried' = (carried \/ (open /\ r = "ok"))
    BY <1>10 DEF send_protected
  <2>2. result' \in Results \ {"garbled"}
    BY <2>1, <1>s, Exchanged DEF Results
  <2>3. established' \in BOOLEAN /\ carried' \in BOOLEAN
    BY <1>10, <2>1 DEF send_protected, IInv, TypeOK
  <2>4. call' = Idle /\ FreedSoFar'
    BY <1>10, <1>i DEF send_protected, FreedSoFar
  <2> QED BY <1>e, <1>s, <1>i, <2>1, <2>2, <2>3, <2>4
\* PAIR leaves the channel closed.
<1>p. ASSUME NEW after \in Card, NEW r \in {"ok", "status", "error"}, pair(after, r),
             pairing' \in [index : Slots, key : Nat] \union {None}, pairings' \in Nat,
             call' \in Calls, call'.op # "unpair_others", result' \in Results \ {"garbled"}
      PROVE  IInv'
  <2>1. card \in Card
    BY DEF IInv, TypeOK, Card
  <2>2. /\ open' = FALSE /\ card' \in Card
        /\ UNCHANGED <<iv, established, key, secret, keys, ivs, history>>
    BY <1>p, <2>1 DEF pair, Close
  <2>3. TypeOK'
    BY <1>p, <2>2 DEF history, IInv, TypeOK, Card
  <2> QED BY <1>p, <2>2, <2>3 DEF IInv, InStep, OpenHasKey, PeerIsGenuine, FreedSoFar
<1>11. CASE auto_pair
  <2>1. PICK r \in {"ok", "status", "error"} :
             /\ pair([card EXCEPT !.ours = TRUE], r)
             /\ \/ call' = [op |-> "auto_pair"] /\ UNCHANGED result
                \/ UNCHANGED call /\ result' = "error"
    BY <1>11 DEF auto_pair
  <2>2. [card EXCEPT !.ours = TRUE] \in Card
    BY DEF IInv, TypeOK, Card
  <2>3. call' \in Calls /\ call'.op # "unpair_others"
    BY <1>11, <2>1, <1>i DEF auto_pair, Calls
  <2>4. result' \in Results \ {"garbled"}
    BY <2>1 DEF IInv, TypeOK, InStep, Results, Answers
  <2> QED BY <1>11, <1>p, <2>1, <2>2, <2>3, <2>4 DEF auto_pair, IInv, TypeOK
<1>12. CASE auto_pair_confirm
  <2>1. pairings' \in Nat
    <3>1. pairings \in Nat /\ pairings' = pairings + 1
      BY <1>12 DEF auto_pair_confirm, IInv, TypeOK
    <3> QED BY ONLY <3>1
  <2>2. call' = Idle /\ card \in Card /\ pairing \in [index : Slots, key : Nat] \union {None}
    BY <1>12 DEF auto_pair_confirm, IInv, TypeOK, Card
  <2>3. ASSUME NEW i \in Slots PROVE [card EXCEPT !.slots[i] = pairings', !.ours = FALSE] \in Card
    BY <2>1, <2>2 DEF Card
  <2>4. {"ok", "error"} \subseteq Results \ {"garbled"}
    BY DEF Results, Answers
  <2>5. ASSUME NEW i \in Slots, NEW r \in {"ok", "error"},
               pair([card EXCEPT !.slots[i] = pairings', !.ours = FALSE], r),
               \/ r = "ok" /\ result' = "ok" /\ pairing' = [index |-> i, key |-> pairings']
               \/ result' = "error" /\ UNCHANGED pairing
        PROVE  IInv'
    <3>1. pairing' \in [index : Slots, key : Nat] \union {None}
      BY <2>1, <2>2, <2>5
    <3>2. result' \in Results \ {"garbled"}
      BY <2>4, <2>5
    <3> QED BY <1>i, <1>p, <2>1, <2>2, <2>3, <2>5, <3>1, <3>2
  <2>6. CASE pair(card, "status") /\ result' = "error" /\ UNCHANGED pairing
    BY <1>i, <1>p, <2>1, <2>2, <2>4, <2>6
  <2> QED BY <1>12, <2>5, <2>6 DEF auto_pair_confirm
<1>13. CASE auto_unpair
  <2>1. PICK r \in Answers : /\ exchange(Without(pairing.index), r)
                             /\ result' = IF r = "error" THEN "error" ELSE "unpaired"
    BY <1>13 DEF auto_unpair
  <2>2. pairing.index \in Slots
    BY <1>13 DEF auto_unpair, IInv, TypeOK
  <2>3. result' \in Results \ {"garbled"} /\ established' \in BOOLEAN /\ carried' \in BOOLEAN
    BY <1>13, <2>1 DEF auto_unpair, IInv, TypeOK, Results, Answers
  <2>4. call' = Idle /\ FreedSoFar'
    BY <1>13, <1>i DEF auto_unpair, FreedSoFar
  <2> QED BY <1>e, <1>s, <1>i, <2>1, <2>2, <2>3, <2>4
<1>14. CASE unpair_others
  <2> DEFINE keep == IF pairing = None THEN None ELSE pairing.index
  <2>1. /\ call' = Unpairing(Skip(0, keep), keep, {})
        /\ UNCHANGED <<session, secret, pairing, result, card, drawn, history>>
    BY <1>14 DEF unpair_others
  <2>2. 0 \in 0 .. MaxClients /\ keep \in Slots \union {None}
    BY MaxClientsAssumption DEF IInv, TypeOK
  <2>3. /\ Skip(0, keep) \in 0 .. MaxClients /\ Skip(0, keep) # keep
        /\ \A j \in Slots : j < Skip(0, keep) /\ j # keep => j < 0
    BY <2>2, SkipsItsOwn
  <2> HIDE DEF keep
  <2>4. call' \in Calls /\ call'.op = "unpair_others"
    <3>1. {} \in SUBSET Slots
      OBVIOUS
    <3> QED BY <2>1, <2>2, <2>3, <3>1 DEF Calls, Unpairing
  <2>5. FreedSoFar'
    BY <2>1, <2>3 DEF FreedSoFar, Unpairing, Slots
  <2>6. TypeOK'
    BY <2>1, <2>4 DEF session, drawn, history, IInv, TypeOK
  <2>7. call.op = "none"
    BY <1>14, <1>i DEF unpair_others
  <2> QED
    BY <2>1, <2>4, <2>5, <2>6, <2>7
       DEF session, history, IInv, InStep, OpenHasKey, PeerIsGenuine
<1>15. CASE unpair_next
  <2>1. PICK r \in Answers :
             /\ exchange(Without(call.next), r)
             /\ IF r \in {"ok", "garbled"}
                  THEN /\ call' = [call EXCEPT !.next = Skip(@ + 1, call.keep)]
                       /\ UNCHANGED result
                  ELSE call' = Idle /\ result' = "error"
    BY <1>15 DEF unpair_next
  <2>2. call.op = "unpair_others" /\ call.next \in Slots /\ call.next + 1 \in 0 .. MaxClients
    BY <1>15, <1>c, MaxClientsAssumption DEF unpair_next, Slots
  <2>3. r # "garbled" /\ (r = "ok" => card'.slots = Without(call.next))
    BY <1>s, <2>1, <2>2, Exchanged
  <2>4. established' \in BOOLEAN /\ carried' \in BOOLEAN
    BY <1>15 DEF unpair_next, IInv, TypeOK
  <2>5. CASE r # "ok"
    <3>1. call' = Idle /\ result' \in Results \ {"garbled"} /\ FreedSoFar'
      BY <2>1, <2>3, <2>5, <1>i DEF FreedSoFar, Results, Answers
    <3> QED BY <1>e, <1>i, <1>s, <2>1, <2>2, <2>4, <3>1
  <2>6. CASE r = "ok"
    <3> DEFINE n == Skip(call.next + 1, call.keep)
    <3>1. call' = Unpairing(n, call.keep, call.taken)
      BY <1>c, <2>1, <2>2, <2>6 DEF Unpairing
    <3>2. /\ n \in 0 .. MaxClients /\ n # call.keep
          /\ \A j \in Slots : j < n /\ j # call.keep => j < call.next + 1
      BY <1>c, <2>2, SkipsItsOwn
    <3>3. call' \in Calls
      BY <1>c, <2>2, <3>1, <3>2 DEF Calls
    <3>4. result' \in Results \ {"garbled"}
      BY <2>1, <2>6 DEF IInv, TypeOK, InStep
    <3>5. \A j \in Slots : card'.slots[j] = IF j = call.next THEN None ELSE card.slots[j]
      BY <1>s, <2>2, <2>3, <2>6 DEF Without, IInv, TypeOK
    <3>6. \A j \in Slots : j < n /\ j # call.keep => j = call.next \/ j < call.next
      BY <3>2, <2>2 DEF Slots
    <3>7. FreedSoFar'
      BY <2>2, <3>1, <3>2, <3>5, <3>6 DEF IInv, FreedSoFar, Unpairing
    <3> QED BY <1>e, <1>s, <2>1, <2>2, <2>4, <3>3, <3>4, <3>7
  <2> QED BY <2>5, <2>6
<1>16. CASE unpair_others_returns
  <2>1. /\ call.op = "unpair_others" /\ call' = Idle /\ result' \in {"ok", "error"}
        /\ UNCHANGED <<session, secret, pairing, card, drawn, history>>
    BY <1>16 DEF unpair_others_returns
  <2>2. result' \in Results \ {"garbled"}
    BY <2>1 DEF Results, Answers
  <2> QED
    BY <1>i, <2>1, <2>2 DEF session, drawn, history, IInv, TypeOK, InStep, OpenHasKey,
       PeerIsGenuine, FreedSoFar
<1> QED
  BY <1>1, <1>2, <1>4, <1>5, <1>6, <1>7, <1>8, <1>9, <1>10, <1>11, <1>12, <1>13, <1>14, <1>15,
     <1>16 DEF Next

LEMMA Invariant == Spec => []IInv
  BY InitIInv, NextIInv, PTL DEF Spec
-----------------------------------------------------------------------------
\* The channel, its caller's call and the card keep their type.
THEOREM ChannelTyped == Spec => []TypeOK
<1>1. IInv => TypeOK
  BY DEF IInv
<1> QED BY <1>1, Invariant, PTL

\* Whatever was lost, damaged or interfered with, an open channel and a card
\* with its key are at the same IV, and nothing is ever garbled (transmit and
\* protected_command close the channel in every other case).
THEOREM ChainedAlike == Spec => []InStep
<1>1. IInv => InStep
  BY DEF IInv
<1> QED BY <1>1, Invariant, PTL

\* auto_open, whatever it returns, leaves no channel open with a key the card
\* has not derived (mutually_authenticate goes through the sealed exchange).
THEOREM MutualAuthentication == Spec => []OpenIsAuthenticated
<1>1. IInv => OpenIsAuthenticated
  BY DEF IInv, PeerIsGenuine, OpenIsAuthenticated, Idle
<1> QED BY <1>1, Invariant, PTL

\* unpair_others frees what it reports and spares its own slot, for any number
\* of slots and whatever another client does while it runs.
THEOREM OthersUnpaired == Spec => UnpairsTheOthers
<1> DEFINE A == call.op = "unpair_others" =>
       /\ call' = Idle /\ result' = "ok" /\ call.next = MaxClients =>
            \A i \in Slots \ {call.keep} : card.slots[i] = None \/ i \in call.taken
       /\ unpair_next /\ call.keep # None =>
            card'.slots[call.keep] = card.slots[call.keep]
<1>1. IInv => A
  <2> SUFFICES ASSUME IInv, call.op = "unpair_others" PROVE A
    OBVIOUS
  <2>1. /\ call.next \in 0 .. MaxClients /\ call.keep \in Slots \union {None}
    BY CallRecords DEF IInv, TypeOK
  <2>2. ASSUME call.next = MaxClients
        PROVE  \A i \in Slots \ {call.keep} : card.slots[i] = None \/ i \in call.taken
    <3>1. \A i \in Slots : i < MaxClients
      BY MaxClientsAssumption DEF Slots
    <3> QED BY <2>2, <3>1 DEF IInv, FreedSoFar
  <2>3. ASSUME unpair_next, call.keep # None
        PROVE  card'.slots[call.keep] = card.slots[call.keep]
    <3>1. PICK r \in Answers : exchange(Without(call.next), r)
      BY <2>3 DEF unpair_next
    <3>2. card.slots \in [Slots -> Nat \union {None}] /\ call.next # call.keep
      BY DEF IInv, TypeOK, FreedSoFar
    <3>3. Without(call.next) \in [Slots -> Nat \union {None}]
      BY <3>2 DEF Without
    <3>4. card'.slots \in {card.slots, Without(call.next)}
      BY <3>1, <3>3, Exchanged
    <3> QED BY <2>1, <2>3, <3>2, <3>4 DEF Without
  <2> QED BY <2>2, <2>3
<1> QED BY <1>1, Invariant, PTL DEF UnpairsTheOthers
=============================================================================
