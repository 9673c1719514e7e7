----------------------- MODULE SecureChannelV2_proofs -----------------------
(***************************************************************************)
(* Proofs that SecureChannelV2 has its properties for every set of cards,  *)
(* every counter width and every bound.                                    *)
(*                                                                         *)
(* None of the properties is inductive alone.  IInv adds what ties the     *)
(* commands a caller still holds, and the nonces already used to decrypt,  *)
(* to the counter of the session they belong to.                           *)
(***************************************************************************)
EXTENDS SecureChannelV2, TLAPS

\* Every key in use was derived: the next one is fresh.
KeysDerived ==
  /\ key <= keys /\ card.key <= keys
  /\ \A i \in DOMAIN cmds : cmds[i].key <= keys
  /\ \A i \in DOMAIN decrypts : decrypts[i][1] <= keys

\* A sealed command has a nonce; an open channel is established and has a key.
WellFormed ==
  /\ \A i \in DOMAIN cmds : Sealed(cmds[i]) => cmds[i].nonce \in Nonces
  /\ open => established /\ key # NoKey

\* An open session has used exactly nonces below its counter.
NoncesBelow ==
  open => \A i \in DOMAIN cmds : cmds[i].key = key => cmds[i].nonce < nonce

\* The pending nonce, unless an earlier session left it, is the last one used.
PendingIsLatest ==
  open => \A i \in DOMAIN cmds :
            cmds[i].key = key /\ cmds[i].nonce = pending => nonce = pending + 1

\* What an open session has decrypted lies below its counter and below the
\* nonce it would decrypt with next.
DecryptsBelow ==
  open => \A i \in DOMAIN decrypts : decrypts[i][1] = key =>
            /\ decrypts[i][2] < nonce
            /\ pending # None => decrypts[i][2] < pending

IInv ==
  /\ TypeOK
  /\ KeysDerived
  /\ WellFormed
  /\ NoncesBelow
  /\ PendingIsLatest
  /\ DecryptsBelow
  /\ InStep
  /\ NonceNeverReused
  /\ NonceDecryptedOnce
-----------------------------------------------------------------------------
LEMMA AppendFacts ==
  ASSUME NEW S, NEW s \in Seq(S), NEW e \in S
  PROVE  /\ Append(s, e) \in Seq(S)
         /\ DOMAIN s = 1 .. Len(s) /\ Len(s) \in Nat
         /\ DOMAIN Append(s, e) = 1 .. (Len(s) + 1)
         /\ \A i \in DOMAIN s : Append(s, e)[i] = s[i]
         /\ Append(s, e)[Len(s) + 1] = e
  OBVIOUS

LEMMA SuccessorFacts ==
  ASSUME NEW n \in Nonces
  PROVE  /\ Successor(n) \in Nonces
         /\ Successor(n) # 0 => Successor(n) = n + 1
  <1>1. CASE n + 1 < NonceModulus
    <2>1. (n + 1) % NonceModulus = n + 1
      BY <1>1, NonceModulusAssumption DEF Nonces
    <2> QED BY <2>1, <1>1, NonceModulusAssumption DEF Successor, Nonces
  <1>2. CASE n + 1 = NonceModulus
    <2>1. NonceModulus % NonceModulus = 0
      BY NonceModulusAssumption
    <2> QED BY <2>1, <1>2, NonceModulusAssumption DEF Successor, Nonces
  <1> QED BY <1>1, <1>2, NonceModulusAssumption DEF Nonces

LEMMA ElementTypes ==
  ASSUME TypeOK
  PROVE  /\ \A i \in DOMAIN cmds : /\ cmds[i] \in Message
                                  /\ cmds[i].key \in Nat
                                  /\ cmds[i].nonce \in Nonces \union {None}
         /\ \A i \in DOMAIN decrypts : /\ decrypts[i] \in Nat \X Nonces
                                      /\ decrypts[i][1] \in Nat
                                      /\ decrypts[i][2] \in Nonces
         /\ Nonces \subseteq Nat
  <1>1. \A i \in DOMAIN cmds : cmds[i] \in Message
    BY DEF TypeOK
  <1>2. \A i \in DOMAIN decrypts : decrypts[i] \in Nat \X Nonces
    BY DEF TypeOK
  <1> QED BY <1>1, <1>2 DEF Message, Nonces

LEMMA InitEstablishesIInv == Init => IInv
  <1> SUFFICES ASSUME Init PROVE IInv
    OBVIOUS
  <1>1. 0 \in Nonces
    BY NonceModulusAssumption DEF Nonces
  <1>2. TypeOK
    <2>1. card \in [id : Cards, key : Nat, nonce : Nonces]
      BY <1>1 DEF Init, NoKey
    <2>2. cmds \in Seq(Message) /\ decrypts \in Seq(Nat \X Nonces)
      BY DEF Init
    <2> QED BY <1>1, <2>1, <2>2 DEF Init, TypeOK, NoKey, Results
  <1>3. KeysDerived /\ WellFormed
    BY DEF Init, KeysDerived, WellFormed, NoKey
  <1>4. NoncesBelow /\ PendingIsLatest /\ DecryptsBelow /\ InStep
    BY DEF Init, NoncesBelow, PendingIsLatest, DecryptsBelow, InStep
  <1>5. NonceNeverReused /\ NonceDecryptedOnce
    BY DEF Init, NonceNeverReused, NonceDecryptedOnce
  <1> QED BY <1>2, <1>3, <1>4, <1>5 DEF IInv

\* A step that closes the channel, or keeps it closed, and neither builds nor
\* decrypts, preserves the invariant: nothing is asked of a closed channel but
\* that its keys were derived.
LEMMA ClosingPreservesIInv ==
  ASSUME IInv, TypeOK', ~open', keys' >= keys, key' <= keys', card'.key <= keys',
         UNCHANGED <<cmds, decrypts>>
  PROVE  IInv'
  <1>1. KeysDerived'
    <2>1. keys \in Nat /\ keys' \in Nat
      BY DEF IInv, TypeOK
    <2> QED BY <2>1, ElementTypes DEF IInv, KeysDerived
  <1>2. WellFormed' /\ NoncesBelow' /\ PendingIsLatest' /\ DecryptsBelow' /\ InStep'
    BY DEF IInv, WellFormed, NoncesBelow, PendingIsLatest, DecryptsBelow, InStep, Sealed
  <1>3. NonceNeverReused' /\ NonceDecryptedOnce'
    BY DEF IInv, NonceNeverReused, NonceDecryptedOnce, Sealed
  <1> QED BY <1>1, <1>2, <1>3 DEF IInv
-----------------------------------------------------------------------------
(***************************************************************************)
(* Type correctness.                                                       *)
(***************************************************************************)
CardType == [id : Cards, key : Nat, nonce : Nonces]

LEMMA CardTypes ==
  ASSUME TypeOK
  PROVE  /\ \A k \in Nat : WithSession(card, k) \in CardType
         /\ \A d \in Refused : d \in CardType
         /\ \A m \in Message : Executed(m) \in CardType
  <1> USE NonceModulusAssumption
  <1>1. card \in CardType /\ 0 \in Nonces
    BY DEF TypeOK, CardType, Nonces
  <1>2. \A k \in Nat : WithSession(card, k) \in CardType
    BY <1>1 DEF WithSession, CardType
  <1>3. \A d \in Refused : d \in CardType
    BY <1>1, <1>2 DEF Refused, NoKey
  <1>4. Successor(card.nonce) \in Nonces
    BY <1>1, SuccessorFacts DEF CardType
  <1>5. [card EXCEPT !.nonce = Successor(@)] \in CardType
    BY <1>1, <1>4 DEF CardType
  <1> QED BY <1>1, <1>2, <1>3, <1>5 DEF Executed

LEMMA TransmitType ==
  ASSUME TypeOK, NEW m \in Message, transmit(m)
  PROVE  TypeOK'
  <1>1. card' \in CardType
    BY CardTypes, TypeOK DEF transmit, SendFails, StatusReturned, RawReturned,
       NothingPending, Unwrap, Responds, TypeOK, CardType
  <1>2. open' \in BOOLEAN
    BY DEF transmit, SendFails, StatusReturned, RawReturned, NothingPending, Unwrap,
       Close, Keep, TypeOK
  <1>3. result' \in Results
    BY DEF transmit, SendFails, StatusReturned, RawReturned, NothingPending, Unwrap,
       Results
  <1>4. decrypts' \in Seq(Nat \X Nonces)
    <2>1. CASE UNCHANGED decrypts
      BY <2>1 DEF TypeOK
    <2>2. CASE \E intact \in BOOLEAN : Unwrap(m, intact)
      BY <2>2, AppendFacts DEF Unwrap, TypeOK
    <2> QED BY <2>1, <2>2 DEF transmit, SendFails, StatusReturned, RawReturned,
            NothingPending, Close, Keep
  <1> QED BY <1>1, <1>2, <1>3, <1>4 DEF transmit, TypeOK, CardType

\* The state stays within its types whatever step is taken.
LEMMA TypeStep ==
  ASSUME TypeOK, [Next]_vars
  PROVE  TypeOK'
  <1> USE NonceModulusAssumption
  <1>0. 0 \in Nonces /\ NoKey \in Nat
    BY DEF Nonces, NoKey
  <1>1. CASE CardDisturbed
    <2> PICK c \in Cards : card' = WithSession([card EXCEPT !.id = c], NoKey)
      BY <1>1 DEF CardDisturbed
    <2>1. card' \in CardType
      BY <1>0 DEF WithSession, CardType
    <2> QED BY <1>1, <2>1 DEF CardDisturbed, TypeOK, host, CardType
  <1>2. ASSUME NEW c \in Cards, set_card_certificate(c) PROVE TypeOK'
    BY <1>2 DEF set_card_certificate, TypeOK
  <1>3. CASE open_secure_channel
    BY <1>3, CardTypes DEF open_secure_channel, TypeOK, CardType
  <1>4. ASSUME NEW shared \in BOOLEAN, NEW intact \in BOOLEAN,
               process_handshake_response(shared, intact)
        PROVE  TypeOK'
    <2>1. keys' \in Nat /\ key' \in Nat
      BY <1>4 DEF process_handshake_response, TypeOK
    <2>2. card' \in CardType
      BY <1>0, <1>4, <2>1, CardTypes DEF process_handshake_response
    <2>3. open' \in BOOLEAN /\ established' \in BOOLEAN /\ nonce' \in Nonces
      BY <1>0, <1>4 DEF process_handshake_response, TypeOK
    <2> QED BY <1>4, <2>1, <2>2, <2>3
            DEF process_handshake_response, TypeOK, CardType
  <1>5. CASE reset
    BY <1>0, <1>5 DEF reset, TypeOK
  <1>6. CASE protected_command
    <2>1. CASE PassThrough
      <3>1. Plaintext \in Message
        BY DEF Plaintext, Message, NoKey
      <3> QED BY <1>6, <2>1, <3>1, AppendFacts
              DEF protected_command, PassThrough, host, TypeOK
    <2>2. CASE Seal
      <3>1. [key |-> key, nonce |-> nonce] \in Message
        BY DEF Message, TypeOK
      <3>2. cmds' \in Seq(Message)
        BY <2>2, <3>1, AppendFacts DEF Seal, TypeOK
      <3>3. nonce' \in Nonces
        BY <2>2, SuccessorFacts DEF Seal, TypeOK
      <3> QED BY <1>6, <2>2, <3>2, <3>3 DEF protected_command, Seal, TypeOK
    <2> QED BY <1>6, <2>1, <2>2 DEF protected_command
  <1>7. CASE Transmit
    BY <1>7, TransmitType, ElementTypes DEF Transmit
  <1>8. CASE UNCHANGED vars
    BY <1>8 DEF vars, host, TypeOK
  <1> QED BY <1>1, <1>2, <1>3, <1>4, <1>5, <1>6, <1>7, <1>8 DEF Next, auto_open

\* Every reachable state is well typed, and in particular the nonce counter
\* stays within its 13 bytes.
THEOREM TypeCorrect == Spec => []TypeOK
  <1>1. Init => TypeOK
    BY InitEstablishesIInv DEF IInv
  <1>2. TypeOK /\ [Next]_vars => TypeOK'
    BY TypeStep
  <1> QED BY <1>1, <1>2, PTL DEF Spec
-----------------------------------------------------------------------------
(***************************************************************************)
(* The inductive invariant, one lemma per action that can disturb it.      *)
(***************************************************************************)
LEMMA HandshakeStep ==
  ASSUME IInv, TypeOK', NEW shared \in BOOLEAN, NEW intact \in BOOLEAN,
         process_handshake_response(shared, intact)
  PROVE  IInv'
  <1>1. /\ keys' = keys + 1 /\ key' = keys' /\ UNCHANGED <<cmds, decrypts, pending>>
        /\ card'.key = (IF shared THEN keys' ELSE NoKey)
        /\ card'.nonce = 0
    BY DEF process_handshake_response, WithSession
  <1>2. keys \in Nat /\ card'.key <= keys' /\ key' <= keys'
    BY <1>1 DEF IInv, TypeOK, NoKey
  <1>3. CASE ~open'
    BY <1>1, <1>2, <1>3, ClosingPreservesIInv
  <1>4. CASE open'
    <2>1. nonce' = 0 /\ established'
      BY <1>4 DEF process_handshake_response
    \* The key is fresh: nothing was sealed or decrypted under it.
    <2>2. /\ \A i \in DOMAIN cmds : cmds[i].key # key'
          /\ \A i \in DOMAIN decrypts : decrypts[i][1] # key'
      BY <1>1, <1>2, ElementTypes DEF IInv, KeysDerived
    <2>3. KeysDerived'
      <3>1. keys' \in Nat /\ keys <= keys'
        BY <1>1, <1>2
      <3>2. /\ \A i \in DOMAIN cmds : cmds[i].key <= keys'
            /\ \A i \in DOMAIN decrypts : decrypts[i][1] <= keys'
        BY <1>2, <3>1, ElementTypes DEF IInv, KeysDerived
      <3> QED BY <1>1, <1>2, <3>2 DEF KeysDerived
    <2>4. WellFormed'
      BY <1>1, <1>2, <2>1 DEF IInv, WellFormed, Sealed, NoKey
    <2>5. NoncesBelow' /\ PendingIsLatest' /\ DecryptsBelow'
      BY <1>1, <2>2 DEF NoncesBelow, PendingIsLatest, DecryptsBelow
    <2>6. InStep'
      BY <1>1, <2>1 DEF InStep
    <2>7. NonceNeverReused' /\ NonceDecryptedOnce'
      BY <1>1 DEF IInv, NonceNeverReused, NonceDecryptedOnce, Sealed
    <2> QED BY <2>3, <2>4, <2>5, <2>6, <2>7 DEF IInv
  <1> QED BY <1>3, <1>4

LEMMA PassThroughStep ==
  ASSUME IInv, TypeOK', PassThrough, UNCHANGED <<card, keys, decrypts>>
  PROVE  IInv'
  <1> DEFINE n == Len(cmds) + 1
  <1>1. /\ cmds \in Seq(Message) /\ Plaintext \in Message
        /\ cmds' = Append(cmds, Plaintext)
    BY DEF IInv, TypeOK, PassThrough, Plaintext, Message, NoKey
  <1>2. /\ DOMAIN cmds' = DOMAIN cmds \union {n}
        /\ \A i \in DOMAIN cmds : cmds'[i] = cmds[i]
        /\ cmds'[n] = Plaintext
    BY <1>1, AppendFacts
  <1>3. ~open' /\ UNCHANGED <<key, card, keys, decrypts>>
    BY DEF PassThrough, host
  <1>4. KeysDerived'
    <2>1. keys \in Nat /\ Plaintext.key = 0
      BY DEF IInv, TypeOK, Plaintext, NoKey
    <2> QED BY <1>2, <1>3, <2>1 DEF IInv, KeysDerived
  <1>5. WellFormed'
    BY <1>2, <1>3 DEF IInv, WellFormed, Sealed, Plaintext
  <1>6. NoncesBelow' /\ PendingIsLatest' /\ DecryptsBelow' /\ InStep'
    BY <1>3 DEF NoncesBelow, PendingIsLatest, DecryptsBelow, InStep
  <1>7. NonceNeverReused' /\ NonceDecryptedOnce'
    BY <1>2, <1>3 DEF IInv, NonceNeverReused, NonceDecryptedOnce, Sealed, Plaintext
  <1> QED BY <1>4, <1>5, <1>6, <1>7 DEF IInv

LEMMA SealStep ==
  ASSUME IInv, TypeOK', Seal, UNCHANGED <<card, keys, decrypts>>
  PROVE  IInv'
  <1> DEFINE n == Len(cmds) + 1
             m == [key |-> key, nonce |-> nonce]
  <1>0. key \in Nat /\ keys \in Nat /\ nonce \in Nonces /\ nonce \in Nat
    BY DEF IInv, TypeOK, Nonces
  <1>1. /\ cmds \in Seq(Message) /\ m \in Message
        /\ cmds' = Append(cmds, m)
    BY DEF IInv, TypeOK, Seal, Message
  <1>2. /\ DOMAIN cmds' = DOMAIN cmds \union {n}
        /\ \A i \in DOMAIN cmds : cmds'[i] = cmds[i] /\ i # n
        /\ cmds'[n] = m
    BY <1>1, AppendFacts
  <1>3. /\ open /\ key # NoKey /\ key' = key /\ pending' = nonce
        /\ open' => nonce' = nonce + 1
        /\ UNCHANGED <<established, card, keys, decrypts>>
    BY <1>0, SuccessorFacts DEF Seal, IInv, WellFormed
  <1>4. m.key = key /\ m.nonce = nonce
    OBVIOUS
  <1>5. /\ \A i \in DOMAIN cmds : cmds[i].key = key =>
             cmds[i].nonce \in Nat /\ cmds[i].nonce < nonce
        /\ \A i \in DOMAIN decrypts : decrypts[i][1] = key =>
             decrypts[i][2] \in Nat /\ decrypts[i][2] < nonce
    BY <1>3, ElementTypes DEF IInv, NoncesBelow, DecryptsBelow, WellFormed, Sealed
  <1>6. KeysDerived'
    BY <1>0, <1>2, <1>3 DEF IInv, KeysDerived
  <1>7. WellFormed'
    BY <1>0, <1>2, <1>3 DEF IInv, WellFormed, Sealed
  <1>8. NoncesBelow'
    BY <1>0, <1>2, <1>3, <1>5 DEF NoncesBelow
  <1>9. PendingIsLatest'
    BY <1>0, <1>2, <1>3, <1>5 DEF PendingIsLatest
  <1>10. DecryptsBelow'
    BY <1>0, <1>3, <1>5 DEF DecryptsBelow
  <1>11. InStep'
    <2>1. pending' # None
      BY <1>0, <1>3, NoneAssumption
    <2>2. open' /\ card.key = key => card.nonce <= nonce /\ card.nonce \in Nat
      BY <1>3 DEF IInv, InStep, TypeOK, Nonces
    <2> QED BY <1>0, <1>3, <2>1, <2>2 DEF InStep
  <1>12. NonceNeverReused'
    BY <1>0, <1>2, <1>4, <1>5 DEF IInv, NonceNeverReused, Sealed
  <1>13. NonceDecryptedOnce'
    BY <1>3 DEF IInv, NonceDecryptedOnce
  <1> QED BY <1>6, <1>7, <1>8, <1>9, <1>10, <1>11, <1>12, <1>13 DEF IInv

LEMMA UnwrapStep ==
  ASSUME IInv, TypeOK', NEW k \in DOMAIN cmds, NEW intact \in BOOLEAN,
         Unwrap(cmds[k], intact), pending' = None,
         UNCHANGED <<established, key, nonce, identPub, keys, cmds>>
  PROVE  IInv'
  <1> DEFINE m == cmds[k]
             n == Len(decrypts) + 1
  <1>0. /\ key \in Nat /\ keys \in Nat /\ nonce \in Nonces /\ nonce \in Nat
        /\ pending \in Nonces /\ Nonces \subseteq Nat
    BY DEF IInv, TypeOK, Nonces, Unwrap
  <1>1. /\ open /\ Responds(m) /\ <<key, pending>> \in Nat \X Nonces
        /\ decrypts \in Seq(Nat \X Nonces)
        /\ decrypts' = Append(decrypts, <<key, pending>>)
    BY <1>0 DEF IInv, TypeOK, Unwrap
  <1>2. /\ DOMAIN decrypts' = DOMAIN decrypts \union {n}
        /\ \A i \in DOMAIN decrypts : decrypts'[i] = decrypts[i] /\ i # n
        /\ decrypts'[n] = <<key, pending>>
        /\ decrypts'[n][1] = key /\ decrypts'[n][2] = pending
    BY <1>1, AppendFacts
  <1>3. /\ card'.key = card.key
        /\ Accepts(m) => card'.nonce = Successor(card.nonce)
        /\ ~Accepts(m) => card' = card
    BY <1>1, TypeOK DEF Responds, Executed, IInv, TypeOK
  <1>4. KeysDerived'
    BY <1>0, <1>1, <1>2, <1>3 DEF IInv, KeysDerived
  <1>5. WellFormed' /\ NoncesBelow'
    BY <1>1 DEF IInv, WellFormed, NoncesBelow, Sealed
  \* pending lies above everything decrypted under this key.
  <1>6. NonceDecryptedOnce'
    <2>1. pending # None
      BY <1>0, NoneAssumption
    <2>2. \A i \in DOMAIN decrypts : decrypts[i] # <<key, pending>>
      <3> SUFFICES ASSUME NEW i \in DOMAIN decrypts, decrypts[i] = <<key, pending>>
                   PROVE  FALSE
        OBVIOUS
      <3>1. decrypts[i][1] = key /\ decrypts[i][2] = pending
        OBVIOUS
      <3>2. pending < pending
        BY <1>1, <2>1, <3>1 DEF IInv, DecryptsBelow
      <3> QED BY <1>0, <3>2
    <2> QED BY <1>2, <2>2 DEF IInv, NonceDecryptedOnce
  <1>7. NonceNeverReused'
    BY DEF IInv, NonceNeverReused, Sealed
  <1>8. PendingIsLatest'
    BY <1>1, NoneAssumption, ElementTypes DEF IInv, PendingIsLatest, WellFormed, Sealed
  <1>9. CASE ~open'
    BY <1>4, <1>5, <1>6, <1>7, <1>8, <1>9 DEF IInv, DecryptsBelow, InStep
  <1>10. CASE open'
    <2>1. m.key = key /\ m.nonce = pending
      BY <1>10 DEF Unwrap, decrypt_ccm
    <2>2. Sealed(m) /\ Accepts(m) /\ card.key = key /\ card.nonce = pending
      BY <1>1, <2>1 DEF IInv, WellFormed, Sealed, Responds, Accepts
    <2>3. nonce = pending + 1
      BY <1>1, <2>1 DEF IInv, PendingIsLatest
    <2>4. Successor(pending) = nonce
      BY <1>0, <2>3, NonceModulusAssumption DEF Successor, Nonces
    <2>5. InStep'
      BY <1>0, <1>3, <2>2, <2>4 DEF InStep
    <2>6. DecryptsBelow'
      <3>1. \A i \in DOMAIN decrypts : decrypts[i][1] = key => decrypts[i][2] < nonce
        BY <1>1 DEF IInv, DecryptsBelow
      <3>2. \A i \in DOMAIN decrypts' : decrypts'[i][1] = key => decrypts'[i][2] < nonce
        BY <1>0, <1>2, <2>3, <3>1
      <3> QED BY <3>2 DEF DecryptsBelow
    <2> QED BY <1>4, <1>5, <1>6, <1>7, <1>8, <2>5, <2>6 DEF IInv
  <1> QED BY <1>9, <1>10

LEMMA TransmitStep ==
  ASSUME IInv, TypeOK', NEW k \in DOMAIN cmds, transmit(cmds[k])
  PROVE  IInv'
  <1> DEFINE m == cmds[k]
  <1>1. UNCHANGED <<established, key, nonce, identPub, keys, cmds>> /\ pending' = None
    BY DEF transmit
  <1>2. CASE SendFails(m) \/ StatusReturned \/ RawReturned(m) \/ NothingPending(m)
    <2>1. ~open' /\ UNCHANGED decrypts
      BY <1>2 DEF SendFails, StatusReturned, RawReturned, NothingPending, Close, Keep
    <2>2. card'.key \in {card.key, NoKey}
      BY <1>2 DEF SendFails, StatusReturned, RawReturned, NothingPending, Responds,
         Executed, Refused, WithSession, IInv, TypeOK
    <2>3. /\ key \in Nat /\ keys \in Nat /\ keys' = keys /\ key' = key
          /\ key <= keys /\ card.key <= keys
      BY <1>1 DEF IInv, TypeOK, KeysDerived
    <2>4. card'.key <= keys'
      BY <2>2, <2>3 DEF NoKey
    <2> QED BY <1>1, <2>1, <2>3, <2>4, ClosingPreservesIInv
  <1>3. CASE \E intact \in BOOLEAN : Unwrap(m, intact)
    BY <1>1, <1>3, UnwrapStep
  <1> QED BY <1>2, <1>3 DEF transmit

LEMMA IInvStep ==
  ASSUME IInv, [Next]_vars
  PROVE  IInv'
  <1>0. TypeOK'
    BY TypeStep DEF IInv
  <1>1. /\ key \in Nat /\ keys \in Nat /\ card.key \in Nat
        /\ key <= keys /\ card.key <= keys
    BY DEF IInv, TypeOK, KeysDerived
  <1>2. CASE CardDisturbed
    <2>1. card'.key = NoKey /\ UNCHANGED <<host, keys, cmds, decrypts>>
      BY <1>2 DEF CardDisturbed, WithSession
    <2>2. KeysDerived'
      BY <1>1, <2>1 DEF IInv, KeysDerived, NoKey, host
    <2>3. InStep'
      BY <2>1 DEF IInv, InStep, WellFormed, host
    <2> QED BY <1>0, <2>1, <2>2, <2>3 DEF IInv, WellFormed, NoncesBelow,
            PendingIsLatest, DecryptsBelow, NonceNeverReused, NonceDecryptedOnce,
            Sealed, host
  <1>3. ASSUME NEW c \in Cards, set_card_certificate(c) PROVE IInv'
    BY <1>0, <1>3 DEF set_card_certificate, IInv, KeysDerived, WellFormed, NoncesBelow,
       PendingIsLatest, DecryptsBelow, InStep, NonceNeverReused, NonceDecryptedOnce,
       Sealed
  <1>4. CASE open_secure_channel
    <2>1. card'.key \in {card.key, NoKey}
      BY <1>4 DEF open_secure_channel, Refused, WithSession
    <2>2. card'.key <= keys
      BY <1>1, <2>1 DEF NoKey
    <2> QED BY <1>0, <1>1, <1>4, <2>2, ClosingPreservesIInv DEF open_secure_channel
  <1>5. ASSUME NEW shared \in BOOLEAN, NEW intact \in BOOLEAN,
               process_handshake_response(shared, intact)
        PROVE  IInv'
    BY <1>0, <1>5, HandshakeStep
  <1>6. CASE reset
    BY <1>0, <1>1, <1>6, ClosingPreservesIInv DEF reset, NoKey
  <1>7. CASE protected_command
    BY <1>0, <1>7, PassThroughStep, SealStep DEF protected_command
  <1>8. CASE Transmit
    BY <1>0, <1>8, TransmitStep DEF Transmit
  <1>9. CASE UNCHANGED vars
    BY <1>0, <1>9 DEF vars, host, IInv, KeysDerived, WellFormed, NoncesBelow,
       PendingIsLatest, DecryptsBelow, InStep, NonceNeverReused, NonceDecryptedOnce,
       Sealed
  <1> QED BY <1>2, <1>3, <1>4, <1>5, <1>6, <1>7, <1>8, <1>9 DEF Next, auto_open

LEMMA Invariant == Spec => []IInv
  <1>1. IInv /\ [Next]_vars => IInv'
    BY IInvStep
  <1> QED BY InitEstablishesIInv, <1>1, PTL DEF Spec

\* The caller can build, retransmit, reopen and reset in any order, over any
\* link: no (key, nonce) pair encrypts two commands.
THEOREM NonceUniqueness == Spec => []NonceNeverReused
  BY Invariant, PTL DEF IInv

\* ... and none decrypts two responses.
THEOREM DecryptionUniqueness == Spec => []NonceDecryptedOnce
  BY Invariant, PTL DEF IInv

\* The two ends of an open session never drift apart.
THEOREM CountersInStep == Spec => []InStep
  BY Invariant, PTL DEF IInv
-----------------------------------------------------------------------------
(***************************************************************************)
(* A channel opens only with the card it was told about.                   *)
(***************************************************************************)
LEMMA OpeningStep ==
  ASSUME IInv, [Next]_vars
  PROVE  OpeningIsGenuine
  <1>1. ASSUME NEW shared \in BOOLEAN, NEW intact \in BOOLEAN,
               process_handshake_response(shared, intact), open'
        PROVE  OpeningIsGenuine
    <2>1. /\ intact /\ identPub' = card.id /\ nonce' = 0
          /\ card' = WithSession(card, keys') /\ key' = keys' /\ keys' = keys + 1
      BY <1>1 DEF process_handshake_response, verify_card_signature
    <2>2. card'.id = card.id /\ card'.key = keys' /\ card'.nonce = 0
      BY <2>1 DEF WithSession
    <2>3. \A i \in DOMAIN cmds : cmds[i].key # keys + 1
      BY ElementTypes DEF IInv, KeysDerived, TypeOK
    <2> QED BY <2>1, <2>2, <2>3 DEF OpeningIsGenuine
  <1>2. ASSUME NEW k \in DOMAIN cmds, transmit(cmds[k])
        PROVE  key' = key /\ (open' => open)
    BY <1>2 DEF transmit, SendFails, StatusReturned, RawReturned, NothingPending,
       Unwrap, Close, Keep
  <1>3. CASE protected_command
    BY <1>3 DEF protected_command, PassThrough, Seal, host, OpeningIsGenuine
  <1>4. CASE CardDisturbed \/ UNCHANGED vars
    BY <1>4 DEF CardDisturbed, vars, host, OpeningIsGenuine
  <1>5. ASSUME NEW c \in Cards, set_card_certificate(c) PROVE OpeningIsGenuine
    BY <1>5 DEF set_card_certificate, OpeningIsGenuine
  <1>6. CASE open_secure_channel \/ reset
    BY <1>6 DEF open_secure_channel, reset, OpeningIsGenuine
  <1> QED BY <1>1, <1>2, <1>3, <1>4, <1>5, <1>6
          DEF Next, auto_open, Transmit, OpeningIsGenuine

\* Whatever identity was installed, and however often opening was tried, a
\* channel that becomes open shares a fresh key with the card it was told about.
THEOREM GenuineOpening == Spec => OpensWithItsCard
  <1>1. IInv /\ [Next]_vars => [OpeningIsGenuine]_vars
    BY OpeningStep
  <1> QED BY Invariant, <1>1, PTL DEF Spec, OpensWithItsCard
-----------------------------------------------------------------------------
(***************************************************************************)
(* Refinement: the channel implements SecureSession.                       *)
(***************************************************************************)
LEMMA IssuedAppend ==
  ASSUME TypeOK, NEW m \in Message, cmds' = Append(cmds, m)
  PROVE  issued' = Append(issued, Sealed(m))
  <1> DEFINE n == Len(cmds) + 1
  <1>1. /\ DOMAIN cmds = 1 .. Len(cmds) /\ Len(cmds) \in Nat
        /\ DOMAIN cmds' = 1 .. n
        /\ \A i \in DOMAIN cmds : cmds'[i] = cmds[i]
        /\ cmds'[n] = m
    BY AppendFacts DEF TypeOK
  <1>2. issued \in Seq(BOOLEAN) /\ Len(issued) = Len(cmds) /\ Sealed(m) \in BOOLEAN
    BY <1>1 DEF issued, Sealed
  <1>3. /\ DOMAIN Append(issued, Sealed(m)) = 1 .. n
        /\ \A i \in 1 .. Len(cmds) : Append(issued, Sealed(m))[i] = issued[i]
        /\ Append(issued, Sealed(m))[n] = Sealed(m)
    BY <1>1, <1>2, AppendFacts
  <1>4. DOMAIN issued' = 1 .. n /\ \A i \in 1 .. n : issued'[i] = Sealed(cmds'[i])
    BY <1>1 DEF issued, Sealed
  <1> QED BY <1>1, <1>3, <1>4 DEF issued, Sealed

LEMMA RefinementInit == Init => Session!Init
  BY DEF Init, Session!Init, phase, keyed, issued

LEMMA RefinementStep ==
  ASSUME IInv, [Next]_vars
  PROVE  [Session!Next]_(Session!vars)
  <1> USE DEF Session!Next, Session!vars
  <1>1. ASSUME UNCHANGED cmds PROVE UNCHANGED issued
    BY <1>1 DEF issued, Sealed
  <1>2. ASSUME UNCHANGED <<open, established>> PROVE UNCHANGED phase
    BY <1>2 DEF phase
  <1>k. ASSUME UNCHANGED key PROVE UNCHANGED keyed
    BY <1>k DEF keyed
  \* What closes an open channel moves to refusing, and is invisible on another.
  <1>3. ASSUME UNCHANGED <<cmds, key, established>>, open' => open
        PROVE  [Session!Next]_(Session!vars)
    <2>1. CASE open' = open
      BY <1>1, <1>2, <1>k, <1>3, <2>1
    <2>2. CASE open' # open
      <3>1. open /\ ~open' /\ established
        BY <1>3, <2>2, TypeStep DEF IInv, WellFormed, TypeOK
      <3>2. phase = "secured" /\ phase' = "refusing"
        BY <1>3, <3>1 DEF phase
      <3> QED BY <1>1, <1>k, <1>3, <3>2 DEF Session!Break
    <2> QED BY <2>1, <2>2
  <1>4. CASE CardDisturbed \/ UNCHANGED vars
    BY <1>3, <1>4 DEF CardDisturbed, vars, host
  <1>5. ASSUME NEW c \in Cards, set_card_certificate(c)
        PROVE  [Session!Next]_(Session!vars)
    BY <1>3, <1>5 DEF set_card_certificate
  <1>6. CASE open_secure_channel
    BY <1>3, <1>6 DEF open_secure_channel
  <1>7. ASSUME NEW shared \in BOOLEAN, NEW intact \in BOOLEAN,
               process_handshake_response(shared, intact)
        PROVE  [Session!Next]_(Session!vars)
    <2>1. keyed' /\ UNCHANGED issued
      BY <1>1, <1>7 DEF process_handshake_response, keyed, NoKey, IInv, TypeOK
    <2>2. CASE open'
      BY <1>7, <2>1, <2>2 DEF process_handshake_response, phase, Session!Establish
    <2>3. CASE ~open'
      <3>1. UNCHANGED established /\ (open => established)
        BY <1>7, <2>3 DEF process_handshake_response, IInv, WellFormed
      <3>2. phase' = IF phase = "secured" THEN "refusing" ELSE phase
        BY <2>3, <3>1 DEF phase
      <3> QED BY <2>1, <3>2 DEF Session!EstablishFails
    <2> QED BY <2>2, <2>3
  <1>8. CASE reset
    BY <1>1, <1>8 DEF reset, phase, keyed, Session!Reset
  <1>9. CASE protected_command
    <2>1. CASE PassThrough
      <3>1. Plaintext \in Message /\ ~Sealed(Plaintext) /\ Sealed(Plaintext) = FALSE
        BY DEF Plaintext, Message, NoKey, Sealed
      <3>2. issued' = Append(issued, FALSE)
        BY <2>1, <3>1, IssuedAppend DEF PassThrough, IInv
      <3> QED BY <1>2, <1>k, <2>1, <3>2 DEF PassThrough, host, phase, Session!IssuePlain
    <2>2. CASE Seal
      <3>1. /\ [key |-> key, nonce |-> nonce] \in Message
            /\ Sealed([key |-> key, nonce |-> nonce]) = TRUE
        BY <2>2 DEF Seal, Message, Sealed, IInv, TypeOK, WellFormed
      <3>2. issued' = Append(issued, TRUE)
        BY <2>2, <3>1, IssuedAppend DEF Seal, IInv
      <3>3. phase = "secured" /\ phase' \in {"secured", "refusing"}
        BY <2>2 DEF Seal, phase, IInv, WellFormed
      <3> QED BY <1>k, <2>2, <3>2, <3>3 DEF Seal, Session!IssueSealed
    <2> QED BY <1>9, <2>1, <2>2 DEF protected_command
  <1>10. ASSUME NEW k \in DOMAIN cmds, transmit(cmds[k])
         PROVE  [Session!Next]_(Session!vars)
    <2>1. open' => open
      BY <1>10 DEF transmit, SendFails, StatusReturned, RawReturned, NothingPending,
         Unwrap, Close, Keep
    <2> QED BY <1>3, <1>10, <2>1 DEF transmit
  <1> QED BY <1>4, <1>5, <1>6, <1>7, <1>8, <1>9, <1>10 DEF Next, auto_open, Transmit

\* SecureChannelV2 implements SecureSession: once opened, it never falls back to
\* plaintext before it is reset.
THEOREM Refinement == Spec => KeepsSession
  <1>1. IInv /\ [Next]_vars => [Session!Next]_(Session!vars)
    BY RefinementStep
  <1> QED BY Invariant, RefinementInit, <1>1, PTL
          DEF Spec, KeepsSession, Session!Spec
=============================================================================
