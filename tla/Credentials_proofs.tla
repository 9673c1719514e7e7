------------------------- MODULE Credentials_proofs -------------------------
(***************************************************************************)
(* Proofs about Credentials: a caller can always conclude from results     *)
(* which PIN, PUK and secret the card may have, and INIT does what it was  *)
(* asked, for credentials of every length.                                 *)
(***************************************************************************)
EXTENDS Credentials, BerTlv_proofs

LEMMA Joined ==
  ASSUME NEW a \in Seq(Nat), NEW b \in Seq(Nat)
  PROVE  a \o b \in Seq(Nat) /\ Len(a \o b) = Len(a) + Len(b)
  OBVIOUS

\* A part of a concatenation that lies in its first sequence.
LEMMA Inside ==
  ASSUME NEW a \in Seq(Nat), NEW b \in Seq(Nat), NEW m \in Nat \ {0}, NEW n \in Nat, n <= Len(a)
  PROVE  SubSeq(a \o b, m, n) = SubSeq(a, m, n)
  OBVIOUS

\* The second sequence of a concatenation.
LEMMA SecondPart ==
  ASSUME NEW a \in Seq(Nat), NEW b \in Seq(Nat)
  PROVE  SubSeq(a \o b, Len(a) + 1, Len(a) + Len(b)) = b
  OBVIOUS

\* The first sequence of a concatenation.
LEMMA FirstPart ==
  ASSUME NEW a \in Seq(Nat), NEW b \in Seq(Nat)
  PROVE  SubSeq(a \o b, 1, Len(a)) = a
  OBVIOUS

LEMMA Associative ==
  ASSUME NEW a \in Seq(Nat), NEW b \in Seq(Nat), NEW c \in Seq(Nat)
  PROVE  a \o (b \o c) = (a \o b) \o c
  OBVIOUS

\* The PUK is cut off the data of UNBLOCK PIN where it ends.
LEMMA UnblockParts ==
  ASSUME NEW puk \in Puks, NEW pin \in Pins
  PROVE  /\ Len(UnblockData(puk, pin)) = PukLen + PinLen
         /\ SubSeq(UnblockData(puk, pin), 1, PukLen) = puk
         /\ SubSeq(UnblockData(puk, pin), PukLen + 1, PukLen + PinLen) = pin
<1>1. puk \in Seq(Nat) /\ pin \in Seq(Nat) /\ Len(puk) = PukLen /\ Len(pin) = PinLen
  BY LengthsAssumption
<1>2. Len(puk \o pin) = PukLen + PinLen
  BY <1>1, Joined
<1>3. SubSeq(puk \o pin, 1, PukLen) = puk
  BY <1>1, FirstPart
<1>4. SubSeq(puk \o pin, PukLen + 1, PukLen + PinLen) = pin
  BY <1>1, SecondPart
<1> QED BY <1>2, <1>3, <1>4 DEF UnblockData

\* The card that INIT was asked for.
AsAsked(pin, alt_pin, puk, secret, retries) ==
  [initialized |-> TRUE, pin |-> pin, alt_pin |-> alt_pin, puk |-> puk, secret |-> secret,
   limit |-> LimitOf(retries[1]), puk_limit |-> LimitOf(retries[2]),
   tries |-> LimitOf(retries[1]), puk_tries |-> LimitOf(retries[2]), verified |-> FALSE]

\* What the card cuts off the fixed part of the data of INIT is what was put there.
LEMMA BaseParts ==
  ASSUME NEW pin \in Pins, NEW puk \in Puks, NEW secret \in Secrets, NEW ext \in Seq(Nat)
  PROVE  /\ pin \o puk \o secret \in Seq(Nat)
         /\ Len(pin \o puk \o secret) = BaseLen
         /\ \A retries, alt_pin :
              Configured(pin \o puk \o secret \o ext, retries, alt_pin)
                = AsAsked(pin, alt_pin, puk, secret, retries)
<1>1. /\ pin \in Seq(Nat) /\ puk \in Seq(Nat) /\ secret \in Seq(Nat)
      /\ Len(pin) = PinLen /\ Len(puk) = PukLen /\ Len(secret) = SecretLen
      /\ PinLen \in Nat \ {0} /\ PukLen \in Nat \ {0} /\ SecretLen \in Nat
  BY LengthsAssumption
<1> DEFINE two == pin \o puk
           base == two \o secret
<1>2. two \in Seq(Nat) /\ Len(two) = PinLen + PukLen
  BY <1>1, Joined
<1> HIDE DEF two
<1>3. base \in Seq(Nat) /\ Len(base) = BaseLen
  BY <1>1, <1>2, Joined DEF BaseLen
<1> HIDE DEF base
<1>7. SubSeq(two, 1, PinLen) = pin
  BY <1>1, FirstPart DEF two
<1>11. SubSeq(two, PinLen + 1, PinLen + PukLen) = puk
  BY <1>1, SecondPart DEF two
<1>8. SubSeq(base, PinLen + PukLen + 1, PinLen + PukLen + SecretLen) = secret
  BY <1>1, <1>2, SecondPart DEF base
<1>9. /\ 1 \in Nat \ {0} /\ PinLen + 1 \in Nat \ {0} /\ PinLen + PukLen + 1 \in Nat \ {0}
      /\ PinLen \in Nat /\ PinLen + PukLen \in Nat /\ PinLen + PukLen + SecretLen \in Nat
      /\ PinLen <= Len(two) /\ PinLen + PukLen <= Len(two)
      /\ PinLen <= Len(base) /\ PinLen + PukLen <= Len(base)
      /\ PinLen + PukLen + SecretLen <= Len(base)
  BY <1>1, <1>2, <1>3 DEF BaseLen
<1>12. SubSeq(base \o ext, 1, PinLen) = pin
  <2>1. SubSeq(base \o ext, 1, PinLen) = SubSeq(base, 1, PinLen)
    BY <1>3, <1>9, Inside
  <2>2. SubSeq(two \o secret, 1, PinLen) = SubSeq(two, 1, PinLen)
    BY <1>1, <1>2, <1>9, Inside
  <2> QED BY <1>7, <2>1, <2>2 DEF base
<1>13. SubSeq(base \o ext, PinLen + 1, PinLen + PukLen) = puk
  <2>1. SubSeq(base \o ext, PinLen + 1, PinLen + PukLen)
          = SubSeq(base, PinLen + 1, PinLen + PukLen)
    BY <1>3, <1>9, Inside
  <2>2. SubSeq(two \o secret, PinLen + 1, PinLen + PukLen)
          = SubSeq(two, PinLen + 1, PinLen + PukLen)
    BY <1>1, <1>2, <1>9, Inside
  <2> QED BY <1>11, <2>1, <2>2 DEF base
<1>10. SubSeq(base \o ext, PinLen + PukLen + 1, PinLen + PukLen + SecretLen) = secret
  <2>1. SubSeq(base \o ext, PinLen + PukLen + 1, PinLen + PukLen + SecretLen)
          = SubSeq(base, PinLen + PukLen + 1, PinLen + PukLen + SecretLen)
    BY <1>3, <1>9, Inside
  <2> QED BY <1>8, <2>1
<1> DEFINE data == base \o ext
<1> HIDE DEF data
<1>14. ASSUME NEW retries, NEW alt_pin
       PROVE  Configured(data, retries, alt_pin) = AsAsked(pin, alt_pin, puk, secret, retries)
  BY <1>10, <1>12, <1>13, Zenon DEF Configured, AsAsked, data
<1> QED BY <1>3, <1>14 DEF base, two, data

\* A card that is not initialized takes the data of INIT apart into what the
\* caller put together, whatever of the optional part is there.
LEMMA InitAnswer ==
  ASSUME NEW pin \in Pins, NEW alt_pin \in Pins \union {None}, NEW puk \in Puks,
         NEW secret \in Secrets, NEW retries \in Retries \X Retries, ~card.initialized
  PROVE  OnInit(pin \o puk \o secret \o Extension(alt_pin, retries))
           = Answer(AsAsked(pin, alt_pin, puk, secret, retries), SW_OK)
<1> DEFINE base == pin \o puk \o secret
           ext == Extension(alt_pin, retries)
<1>1. PICK r1 \in Retries, r2 \in Retries : retries = <<r1, r2>>
  OBVIOUS
<1>2. r1 \in Nat /\ r2 \in Nat /\ <<r1, r2>> \in Seq(Nat) /\ Len(<<r1, r2>>) = 2
  BY LimitsAssumption
<1>3. BaseLen \in Nat /\ PinLen \in Nat \ {0}
  BY LengthsAssumption DEF BaseLen
<1>4. retries[1] = r1 /\ retries[2] = r2
  BY <1>1
<1>5. base \in Seq(Nat) /\ Len(base) = BaseLen
  BY <1>2, BaseParts
<1>6. ASSUME NEW tail \in Seq(Nat), NEW limits, NEW alt
      PROVE  Configured(base \o tail, limits, alt) = AsAsked(pin, alt, puk, secret, limits)
  BY BaseParts
<1>7. SUFFICES OnInit(base \o ext) = Answer(AsAsked(pin, alt_pin, puk, secret, retries), SW_OK)
  OBVIOUS
<1> HIDE DEF base
<1>8. CASE alt_pin = None /\ r1 = 0 /\ r2 = 0
  <2>1. ext = <<>> /\ <<>> \in Seq(Nat) /\ Len(<<>>) = 0
    BY <1>4, <1>8 DEF Extension
  <2> HIDE DEF ext
  <2>2. Len(base \o ext) = BaseLen
    BY <1>3, <1>5, <2>1, Joined
  <2>3. Configured(base \o ext, <<0, 0>>, None) = AsAsked(pin, None, puk, secret, <<0, 0>>)
    BY <1>6, <2>1
  <2>4. OnInit(base \o ext) = Answer(Configured(base \o ext, <<0, 0>>, None), SW_OK)
    BY <2>2 DEF OnInit
  <2> QED BY <1>1, <1>8, <2>3, <2>4
<1>9. CASE alt_pin = None /\ ~(r1 = 0 /\ r2 = 0)
  <2>1. ext = <<r1, r2>>
    BY <1>1, <1>4, <1>9 DEF Extension
  <2> HIDE DEF ext
  <2>2. SubSeq(base \o <<r1, r2>>, BaseLen + 1, BaseLen + 2) = <<r1, r2>>
    BY <1>2, <1>5, SecondPart
  <2>3. Len(base \o ext) = BaseLen + 2 /\ BaseLen + 2 # BaseLen
    BY <1>2, <1>3, <1>5, <2>1, Joined
  <2>4. Configured(base \o ext, <<r1, r2>>, None) = AsAsked(pin, None, puk, secret, <<r1, r2>>)
    BY <1>2, <1>6, <2>1
  <2>5. OnInit(base \o ext) = Answer(Configured(base \o ext, <<r1, r2>>, None), SW_OK)
    BY <2>1, <2>2, <2>3, Zenon DEF OnInit
  <2> QED BY <1>1, <1>9, <2>4, <2>5
<1>10. CASE alt_pin # None
  <2>1. alt_pin \in Seq(Nat) /\ Len(alt_pin) = PinLen
    BY <1>10, LengthsAssumption
  <2>2. ext = <<r1, r2>> \o alt_pin
    BY <1>1, <1>10 DEF Extension
  <2> HIDE DEF ext
  <2>3. ext \in Seq(Nat) /\ Len(ext) = 2 + PinLen
    BY <1>2, <2>1, <2>2, Joined
  <2> DEFINE front == base \o <<r1, r2>>
  <2>4. base \o ext = front \o alt_pin
    BY <1>2, <1>5, <2>1, <2>2, Associative
  <2>5. front \in Seq(Nat) /\ Len(front) = BaseLen + 2
    BY <1>2, <1>5, Joined
  <2>6. SubSeq(front, BaseLen + 1, BaseLen + 2) = <<r1, r2>>
    BY <1>2, <1>5, SecondPart
  <2> HIDE DEF front
  <2>7. BaseLen + 1 \in Nat \ {0} /\ BaseLen + 2 \in Nat /\ BaseLen + 2 <= Len(front)
    BY <1>3, <2>5
  <2>8. SubSeq(front \o alt_pin, BaseLen + 1, BaseLen + 2) = <<r1, r2>>
    BY <2>1, <2>5, <2>6, <2>7, Inside
  <2>9. SubSeq(front \o alt_pin, BaseLen + 3, BaseLen + 2 + PinLen) = alt_pin
    <3>1. Len(front) + 1 = BaseLen + 3 /\ Len(front) + Len(alt_pin) = BaseLen + 2 + PinLen
      BY <1>3, <2>1, <2>5
    <3>2. SubSeq(front \o alt_pin, Len(front) + 1, Len(front) + Len(alt_pin)) = alt_pin
      BY <2>1, <2>5, SecondPart
    <3> QED BY <3>1, <3>2, Zenon
  <2>10. /\ Len(base \o ext) = BaseLen + 2 + PinLen
         /\ BaseLen + 2 + PinLen # BaseLen /\ BaseLen + 2 + PinLen # BaseLen + 2
    <3>1. Len(base \o ext) = Len(base) + Len(ext)
      BY <1>5, <2>3, Joined
    <3> QED BY <1>3, <1>5, <2>3, <3>1
  <2>11. Configured(base \o ext, <<r1, r2>>, alt_pin)
           = AsAsked(pin, alt_pin, puk, secret, <<r1, r2>>)
    BY <1>6, <2>3
  <2>12. OnInit(base \o ext) = Answer(Configured(base \o ext, <<r1, r2>>, alt_pin), SW_OK)
    BY <2>4, <2>8, <2>9, <2>10, Zenon DEF OnInit
  <2> QED BY <1>1, <2>11, <2>12
<1> QED BY <1>8, <1>9, <1>10

-----------------------------------------------------------------------------
(***************************************************************************)
(* What a caller may conclude from the result of a call.                   *)
(***************************************************************************)
Refusals == {SW_CONDITIONS_OF_USE_NOT_SATISFIED, SW_WRONG_DATA, SW_INS_NOT_SUPPORTED}

\* No status word but 9000 is success, and no other refusal than that of a wrong
\* PIN with tries left says that there are tries left.
LEMMA StatusWords ==
  /\ check_auth_ok(SW_OK).is = "ok"
  /\ \A sw \in Int : sw # SW_OK => check_auth_ok(sw).is \in {"wrong", "status"}
  /\ \A sw \in Refusals : check_auth_ok(sw).is = "status"
  /\ check_auth_ok(SW_WRONG_PIN_MASK).retries = 0
<1>1. ~Masked(SW_OK)
  <2>1. (36864 \div 64) % 2 = 0
    OBVIOUS
  <2> QED BY <2>1 DEF Masked, SW_OK
<1>2. ASSUME NEW sw \in Refusals PROVE ~Masked(sw) /\ sw # SW_OK
  <2>1. (27013 \div 64) % 2 = 0 /\ (27264 \div 64) % 2 = 0 /\ (27904 \div 64) % 2 = 0
    OBVIOUS
  <2> QED BY <2>1 DEF Masked, Refusals, SW_CONDITIONS_OF_USE_NOT_SATISFIED, SW_WRONG_DATA,
               SW_INS_NOT_SUPPORTED, SW_OK
<1>3. Masked(SW_WRONG_PIN_MASK) /\ sw2(SW_WRONG_PIN_MASK) % 16 = 0
  BY DEF Masked, SW_WRONG_PIN_MASK, sw2
<1>4. /\ check_auth_ok(SW_OK).is = "ok"
      /\ check_auth_ok(SW_WRONG_PIN_MASK).retries = 0
  BY <1>1, <1>3 DEF check_auth_ok, check_ok
<1>5. \A sw \in Int : sw # SW_OK => check_auth_ok(sw).is \in {"wrong", "status"}
  BY DEF check_auth_ok, check_ok
<1>6. \A sw \in Refusals : check_auth_ok(sw).is = "status"
  BY <1>2 DEF check_auth_ok, check_ok
<1> QED BY <1>4, <1>5, <1>6

\* The results of a call.
LEMMA CallResults ==
  ASSUME NEW op, NEW answer, answer.sw \in Int, Call(op, answer)
  PROVE  /\ card' \in {card, answer.card}
         /\ result'.op = op
         /\ result'.outcome.is \in {"ok", "wrong", "status", "lost"}
         /\ result'.outcome.is # "lost" => card' = answer.card
         /\ result'.outcome.is = "ok" => answer.sw = SW_OK
         /\ result'.outcome.is \in {"wrong", "status"} => answer.sw # SW_OK
         /\ (result'.outcome.is = "wrong" /\ result'.outcome.retries > 0) =>
              answer.sw \notin Refusals \union {SW_WRONG_PIN_MASK}
<1>1. CASE card' = answer.card /\ result' = Result(op, check_auth_ok(answer.sw))
  <2>1. result'.op = op /\ result'.outcome = check_auth_ok(answer.sw)
    BY <1>1 DEF Result
  <2>2. answer.sw \in Refusals => result'.outcome.is = "status"
    BY <2>1, StatusWords
  <2>3. answer.sw = SW_WRONG_PIN_MASK => result'.outcome.retries = 0
    BY <2>1, StatusWords
  <2>4. answer.sw = SW_OK => result'.outcome.is = "ok"
    BY <2>1, StatusWords
  <2>5. answer.sw # SW_OK => result'.outcome.is \in {"wrong", "status"}
    BY <2>1, StatusWords
  <2> QED BY <1>1, <2>1, <2>2, <2>3, <2>4, <2>5
<1>2. CASE card' \in {card, answer.card} /\ result' = Result(op, Lost)
  BY <1>2 DEF Result, Lost
<1> QED BY <1>1, <1>2 DEF Call
-----------------------------------------------------------------------------
(***************************************************************************)
(* The invariants.  TypeOK is what makes PinIsKnown inductive: a card that *)
(* is not initialized is Blank and refuses everything but INIT.            *)
(***************************************************************************)
LEMMA Constants ==
  /\ PinLen \in Nat \ {0} /\ PukLen \in Nat \ {0} /\ SecretLen \in Nat
  /\ Limits \subseteq 1 .. 15 /\ DefaultLimit \in Limits
  /\ \A r \in Retries : LimitOf(r) \in Limits
  BY LengthsAssumption, LimitsAssumption DEF Limits, LimitOf

LEMMA VerifyPinStep ==
  ASSUME TypeOK, PinIsKnown, NEW pin \in Pins, verify_pin(pin)
  PROVE  TypeOK' /\ PinIsKnown'
<1> DEFINE answer == OnVerifyPin(pin)
<1>1. CASE card = Blank
  <2>1. answer = Answer(card, SW_INS_NOT_SUPPORTED)
    BY <1>1 DEF OnVerifyPin, Blank, Refusal
  <2>2. card' = card
    BY <2>1 DEF verify_pin, Call, Answer
  <2> QED BY <1>1, <2>2 DEF TypeOK, PinIsKnown, verify_pin, Blank
<1>2. CASE card \in Initialized
  <2>1. /\ answer.sw \in Int
        /\ answer.card \in Initialized
        /\ answer.card.tries <= answer.card.limit /\ answer.card.puk_tries <= answer.card.puk_limit
        /\ answer.card.pin = card.pin /\ answer.card.puk = card.puk
        /\ answer.card.secret = card.secret
        /\ card.pin = pin => answer.sw \in {SW_OK, SW_WRONG_PIN_MASK}
    <3>1. card.initialized
      BY <1>2 DEF Initialized
    <3>2. CASE card.tries = 0
      BY <1>2, <3>1, <3>2 DEF OnVerifyPin, Answer, Refusal, TypeOK, SW_WRONG_PIN_MASK
    <3>3. CASE card.tries # 0 /\ pin \in {card.pin, card.alt_pin}
      <4>1. answer = Answer([card EXCEPT !.tries = card.limit, !.verified = TRUE], SW_OK)
        BY <3>1, <3>3 DEF OnVerifyPin
      <4>2. /\ card.limit \in 0 .. 15 /\ card.limit <= card.limit
            /\ card.puk_tries <= card.puk_limit
        <5>1. card.limit \in Limits
          BY <1>2 DEF Initialized
        <5>2. card.limit \in 1 .. 15
          BY <5>1, Constants
        <5>3. card.limit \in 0 .. 15 /\ card.limit <= card.limit
          BY <5>2
        <5> QED BY <5>3 DEF TypeOK
      <4>3. /\ answer.sw = SW_OK /\ SW_OK \in Int
            /\ answer.card = [card EXCEPT !.tries = card.limit, !.verified = TRUE]
        BY <4>1 DEF Answer, SW_OK
      <4>4. answer.card \in Initialized
        BY <1>2, <4>2, <4>3 DEF Initialized
      <4>5. /\ answer.card.tries = card.limit /\ answer.card.limit = card.limit
            /\ answer.card.puk_tries = card.puk_tries /\ answer.card.puk_limit = card.puk_limit
            /\ answer.card.pin = card.pin /\ answer.card.puk = card.puk
            /\ answer.card.secret = card.secret
        BY <1>2, <4>3 DEF Initialized
      <4> QED BY <4>2, <4>3, <4>4, <4>5
    <3>4. CASE card.tries # 0 /\ pin \notin {card.pin, card.alt_pin}
      <4>1. answer = Answer([card EXCEPT !.tries = @ - 1, !.verified = FALSE],
                            SW_WRONG_PIN_MASK + card.tries - 1)
        BY <3>1, <3>4 DEF OnVerifyPin
      <4>2. /\ card.tries - 1 \in 0 .. 15 /\ card.tries - 1 <= card.limit
            /\ card.puk_tries <= card.puk_limit
        <5>1. card.limit \in Limits /\ card.tries \in 0 .. 15
          BY <1>2 DEF Initialized
        <5>2. card.limit \in 1 .. 15 /\ card.tries <= card.limit /\ card.puk_tries <= card.puk_limit
          BY <5>1, Constants DEF TypeOK
        <5> QED BY <3>4, <5>1, <5>2
      <4>3. /\ answer.sw = SW_WRONG_PIN_MASK + card.tries - 1 /\ answer.sw \in Int
            /\ answer.card = [card EXCEPT !.tries = card.tries - 1, !.verified = FALSE]
        BY <1>2, <4>1 DEF Answer, SW_WRONG_PIN_MASK, Initialized
      <4>4. answer.card \in Initialized
        BY <1>2, <4>2, <4>3 DEF Initialized
      <4> QED BY <1>2, <3>4, <4>2, <4>3, <4>4 DEF Initialized
    <3> QED BY <3>2, <3>3, <3>4
  <2> HIDE DEF answer
  <2>2. Call(Plain("verify_pin"), answer)
    BY DEF verify_pin, answer
  <2>3. card' \in {card, answer.card}
    BY <2>1, <2>2, CallResults
  <2>4. Excluded(pin) = {} \/ (Excluded(pin) = {pin} /\ answer.sw # SW_OK /\ answer.sw # SW_WRONG_PIN_MASK)
    BY <2>1, <2>2, CallResults DEF Excluded
  <2>5. card.pin \notin Excluded(pin)
    BY <2>1, <2>4
  <2>6. possible'.pin = possible.pin \ Excluded(pin) /\ possible'.puk = possible.puk
        /\ possible'.secret = possible.secret
        /\ possible' \in [pin : SUBSET Pins, puk : SUBSET Puks, secret : SUBSET Secrets]
    BY DEF verify_pin, TypeOK
  <2> QED BY <1>2, <2>1, <2>3, <2>5, <2>6 DEF TypeOK, PinIsKnown, Initialized
<1> QED BY <1>1, <1>2 DEF TypeOK

\* What is known of a credential that a call sets, or refuses to set.
LEMMA KnownAfter ==
  ASSUME NEW op, NEW answer, answer.sw \in Int, Call(op, answer), NEW old, NEW new
  PROVE  \/ Known(old, new) = {new} /\ card' = answer.card /\ answer.sw = SW_OK
         \/ Known(old, new) = old \union {new} /\ card' \in {card, answer.card}
         \/ Known(old, new) = old /\ card' = answer.card /\ answer.sw # SW_OK
<1>1. CASE result'.outcome.is = "ok"
  BY <1>1, CallResults DEF Known
<1>2. CASE result'.outcome.is = "lost"
  BY <1>2, CallResults DEF Known
<1>3. CASE result'.outcome.is \in {"wrong", "status"}
  BY <1>3, CallResults DEF Known
<1> QED BY <1>1, <1>2, <1>3, CallResults

\* What is excluded by a call that takes a try.
LEMMA ExcludedAfter ==
  ASSUME NEW op, NEW answer, answer.sw \in Int, Call(op, answer), NEW tried
  PROVE  \/ Excluded(tried) = {}
         \/ /\ Excluded(tried) = {tried} /\ card' = answer.card
            /\ answer.sw \notin Refusals \union {SW_OK, SW_WRONG_PIN_MASK}
  BY CallResults DEF Excluded

\* A call that sets a credential, or refuses.
LEMMA ChangePinStep ==
  ASSUME TypeOK, PinIsKnown, NEW pin \in Pins, change_pin(pin)
  PROVE  TypeOK' /\ PinIsKnown'
<1> DEFINE answer == OnChangePin(USER_PIN, pin)
<1>1. /\ answer.sw \in Int
      /\ \/ answer.card = card /\ answer.sw # SW_OK
         \/ /\ card \in Initialized /\ answer.sw = SW_OK
            /\ answer.card = [card EXCEPT !.pin = pin]
  <2>1. CASE ~card.verified
    BY <2>1 DEF OnChangePin, Answer, Refusal, SW_CONDITIONS_OF_USE_NOT_SATISFIED, SW_OK
  <2>2. CASE card.verified
    <3>1. card \in Initialized
      BY <2>2 DEF TypeOK, Blank
    <3>2. answer = Answer([card EXCEPT !.pin = pin], SW_OK)
      BY <2>2, LengthsAssumption DEF OnChangePin
    <3> QED BY <3>1, <3>2 DEF Answer, SW_OK
  <2> QED BY <2>1, <2>2
<1> HIDE DEF answer
<1>2. Call(Plain("change_pin"), answer)
  BY DEF change_pin, change_pin_with_type, answer
<1>3. possible' = [possible EXCEPT !.pin = Known(@, pin)]
  BY DEF change_pin
<1>4. possible'.pin = Known(possible.pin, pin)
  BY <1>3 DEF TypeOK
<1>5. \/ card' = card /\ possible'.pin \in {possible.pin, possible.pin \union {pin}}
      \/ /\ card \in Initialized /\ card' = [card EXCEPT !.pin = pin]
         /\ possible'.pin \in {{pin}, possible.pin \union {pin}}
  BY <1>1, <1>2, <1>4, KnownAfter
<1> QED BY <1>3, <1>5 DEF TypeOK, PinIsKnown, Initialized

LEMMA ChangePukStep ==
  ASSUME TypeOK, PinIsKnown, NEW puk \in Puks, change_puk(puk)
  PROVE  TypeOK' /\ PinIsKnown'
<1> DEFINE answer == OnChangePin(PUK, puk)
<1>1. /\ answer.sw \in Int
      /\ \/ answer.card = card /\ answer.sw # SW_OK
         \/ /\ card \in Initialized /\ answer.sw = SW_OK
            /\ answer.card = [card EXCEPT !.puk = puk]
  <2>1. CASE ~card.verified
    BY <2>1 DEF OnChangePin, Answer, Refusal, SW_CONDITIONS_OF_USE_NOT_SATISFIED, SW_OK
  <2>2. CASE card.verified
    <3>1. card \in Initialized
      BY <2>2 DEF TypeOK, Blank
    <3>2. answer = Answer([card EXCEPT !.puk = puk], SW_OK)
      BY <2>2, LengthsAssumption DEF OnChangePin, USER_PIN, PUK
    <3> QED BY <3>1, <3>2 DEF Answer, SW_OK
  <2> QED BY <2>1, <2>2
<1> HIDE DEF answer
<1>2. Call(Plain("change_pin"), answer)
  BY DEF change_puk, change_pin_with_type, answer
<1>3. possible' = [possible EXCEPT !.puk = Known(@, puk)]
  BY DEF change_puk
<1>4. possible'.puk = Known(possible.puk, puk)
  BY <1>3 DEF TypeOK
<1>5. \/ card' = card /\ possible'.puk \in {possible.puk, possible.puk \union {puk}}
      \/ /\ card \in Initialized /\ card' = [card EXCEPT !.puk = puk]
         /\ possible'.puk \in {{puk}, possible.puk \union {puk}}
  BY <1>1, <1>2, <1>4, KnownAfter
<1> QED BY <1>3, <1>5 DEF TypeOK, PinIsKnown, Initialized

LEMMA ChangeSecretStep ==
  ASSUME TypeOK, PinIsKnown, NEW secret \in Secrets, change_pairing_password(secret)
  PROVE  TypeOK' /\ PinIsKnown'
<1> DEFINE answer == OnChangePin(PAIRING_SECRET, secret)
<1>1. /\ answer.sw \in Int
      /\ \/ answer.card = card /\ answer.sw # SW_OK
         \/ /\ card \in Initialized /\ answer.sw = SW_OK
            /\ answer.card = [card EXCEPT !.secret = secret]
  <2>1. CASE ~card.verified
    BY <2>1 DEF OnChangePin, Answer, Refusal, SW_CONDITIONS_OF_USE_NOT_SATISFIED, SW_OK
  <2>2. CASE card.verified
    <3>1. card \in Initialized
      BY <2>2 DEF TypeOK, Blank
    <3>2. answer = Answer([card EXCEPT !.secret = secret], SW_OK)
      BY <2>2, LengthsAssumption DEF OnChangePin, USER_PIN, PUK, PAIRING_SECRET
    <3> QED BY <3>1, <3>2 DEF Answer, SW_OK
  <2> QED BY <2>1, <2>2
<1> HIDE DEF answer
<1>2. Call(Plain("change_pin"), answer)
  BY DEF change_pairing_password, change_pin_with_type, answer
<1>3. possible' = [possible EXCEPT !.secret = Known(@, secret)]
  BY DEF change_pairing_password
<1>4. possible'.secret = Known(possible.secret, secret)
  BY <1>3 DEF TypeOK
<1>5. \/ card' = card /\ possible'.secret \in {possible.secret, possible.secret \union {secret}}
      \/ /\ card \in Initialized /\ card' = [card EXCEPT !.secret = secret]
         /\ possible'.secret \in {{secret}, possible.secret \union {secret}}
  BY <1>1, <1>2, <1>4, KnownAfter
<1> QED BY <1>3, <1>5 DEF TypeOK, PinIsKnown, Initialized

LEMMA UnblockPinStep ==
  ASSUME TypeOK, PinIsKnown, NEW puk \in Puks, NEW pin \in Pins, unblock_pin(puk, pin)
  PROVE  TypeOK' /\ PinIsKnown'
<1> DEFINE answer == OnUnblockPin(UnblockData(puk, pin))
<1>1. /\ answer.sw \in Int
      /\ \/ answer.card = card /\ answer.sw \in Refusals \union {SW_WRONG_PIN_MASK}
         \/ /\ card \in Initialized /\ card.puk = puk /\ answer.sw = SW_OK
            /\ answer.card = [card EXCEPT !.pin = pin, !.tries = card.limit,
                                          !.puk_tries = card.puk_limit, !.verified = TRUE]
         \/ /\ card \in Initialized /\ card.puk # puk /\ answer.sw # SW_OK
            /\ card.puk_tries # 0
            /\ answer.card = [card EXCEPT !.puk_tries = @ - 1]
  <2>1. CASE ~card.initialized \/ card.tries # 0
    BY <2>1 DEF OnUnblockPin, Answer, Refusal, Refusals, SW_CONDITIONS_OF_USE_NOT_SATISFIED
  <2>2. CASE card.initialized /\ card.tries = 0
    <3>1. card \in Initialized
      BY <2>2 DEF TypeOK, Blank
    <3>2. CASE card.puk_tries = 0
      BY <2>2, <3>2, UnblockParts DEF OnUnblockPin, Answer, Refusal, SW_WRONG_PIN_MASK
    <3>3. CASE card.puk_tries # 0 /\ card.puk = puk
      <4>1. answer = Answer([card EXCEPT !.pin = pin, !.tries = card.limit,
                                         !.puk_tries = card.puk_limit, !.verified = TRUE], SW_OK)
        BY <2>2, <3>3, UnblockParts DEF OnUnblockPin
      <4> QED BY <3>1, <3>3, <4>1 DEF Answer, SW_OK
    <3>4. CASE card.puk_tries # 0 /\ card.puk # puk
      <4>1. answer = Answer([card EXCEPT !.puk_tries = @ - 1],
                            SW_WRONG_PIN_MASK + card.puk_tries - 1)
        BY <2>2, <3>4, UnblockParts DEF OnUnblockPin
      <4>2. /\ SW_WRONG_PIN_MASK + card.puk_tries - 1 \in Int
            /\ SW_WRONG_PIN_MASK + card.puk_tries - 1 # SW_OK
        BY <3>1 DEF Initialized, SW_WRONG_PIN_MASK, SW_OK
      <4> QED BY <3>1, <3>4, <4>1, <4>2 DEF Answer
    <3> QED BY <3>2, <3>3, <3>4
  <2> QED BY <2>1, <2>2
<1> HIDE DEF answer
<1>2. Call(Plain("unblock_pin"), answer)
  BY DEF unblock_pin, answer
<1>3. possible' = [possible EXCEPT !.pin = Known(@, pin), !.puk = @ \ Excluded(puk)]
  BY DEF unblock_pin
<1>4. possible'.pin = Known(possible.pin, pin) /\ possible'.puk = possible.puk \ Excluded(puk)
  BY <1>3 DEF TypeOK
<1>5. card.initialized => card.puk \in possible'.puk
  BY <1>1, <1>2, <1>4, ExcludedAfter DEF PinIsKnown
<1>6. \/ card' = card /\ possible'.pin \in {possible.pin, possible.pin \union {pin}}
      \/ /\ card \in Initialized /\ card.puk = puk
         /\ card' = [card EXCEPT !.pin = pin, !.tries = card.limit,
                                 !.puk_tries = card.puk_limit, !.verified = TRUE]
         /\ possible'.pin \in {{pin}, possible.pin \union {pin}}
      \/ /\ card \in Initialized /\ card.puk_tries # 0
         /\ card' = [card EXCEPT !.puk_tries = @ - 1]
         /\ possible'.pin \in {possible.pin, possible.pin \union {pin}}
  <2>1. Refusals \union {SW_WRONG_PIN_MASK} \subseteq Int \ {SW_OK}
    BY DEF Refusals, SW_CONDITIONS_OF_USE_NOT_SATISFIED, SW_WRONG_DATA, SW_INS_NOT_SUPPORTED,
           SW_WRONG_PIN_MASK, SW_OK
  <2> QED BY <1>1, <1>2, <1>4, <2>1, KnownAfter
<1>7. possible' \in [pin : SUBSET Pins, puk : SUBSET Puks, secret : SUBSET Secrets]
  BY <1>3, <1>4, <1>6 DEF TypeOK
<1>8. possible'.secret = possible.secret
  BY <1>3 DEF TypeOK
<1>9. CASE card' = card /\ possible'.pin \in {possible.pin, possible.pin \union {pin}}
  BY <1>5, <1>7, <1>8, <1>9 DEF TypeOK, PinIsKnown
<1>10. CASE /\ card \in Initialized /\ card.puk = puk
            /\ card' = [card EXCEPT !.pin = pin, !.tries = card.limit,
                                    !.puk_tries = card.puk_limit, !.verified = TRUE]
            /\ possible'.pin \in {{pin}, possible.pin \union {pin}}
  <2>1. card.limit \in 0 .. 15 /\ card.puk_limit \in 0 .. 15
    BY <1>10, Constants DEF Initialized
  <2>2. card' \in Initialized
    BY <1>10, <2>1 DEF Initialized
  <2>3. /\ card'.tries = card.limit /\ card'.limit = card.limit
        /\ card'.puk_tries = card.puk_limit /\ card'.puk_limit = card.puk_limit
        /\ card'.pin = pin /\ card'.puk = card.puk /\ card'.secret = card.secret
        /\ card.initialized
    BY <1>10 DEF Initialized
  <2>4. card'.tries <= card'.limit /\ card'.puk_tries <= card'.puk_limit
    BY <2>1, <2>3
  <2> QED BY <1>5, <1>7, <1>8, <1>10, <2>2, <2>3, <2>4 DEF TypeOK, PinIsKnown
<1>11. CASE /\ card \in Initialized /\ card.puk_tries # 0
            /\ card' = [card EXCEPT !.puk_tries = @ - 1]
            /\ possible'.pin \in {possible.pin, possible.pin \union {pin}}
  <2>1. /\ card.puk_tries - 1 \in 0 .. 15 /\ card.puk_tries - 1 <= card.puk_limit
        /\ card.tries <= card.limit
    BY <1>11, Constants DEF Initialized, TypeOK
  <2>2. card' \in Initialized
    BY <1>11, <2>1 DEF Initialized
  <2> QED BY <1>5, <1>7, <1>8, <1>11, <2>1, <2>2 DEF TypeOK, PinIsKnown, Initialized
<1> QED BY <1>6, <1>9, <1>10, <1>11

\* INIT configures a card as it was asked, or is refused because it is
\* initialized already.
LEMMA InitStep ==
  ASSUME TypeOK, PinIsKnown, NEW pin \in Pins, NEW alt_pin \in Pins \union {None},
         NEW puk \in Puks, NEW secret \in Secrets, NEW retries \in Retries \X Retries,
         init_with_secret(pin, alt_pin, puk, secret, retries)
  PROVE  TypeOK' /\ PinIsKnown' /\ InitAsAsked'
<1> DEFINE op == [name |-> "init", alt_pin |-> alt_pin, retries |-> retries]
           asked == AsAsked(pin, alt_pin, puk, secret, retries)
           answer == OnInit(pin \o puk \o secret \o Extension(alt_pin, retries))
<1>1. \/ card \in Initialized /\ answer.card = card /\ answer.sw # SW_OK /\ answer.sw \in Int
      \/ answer.card = asked /\ answer.sw = SW_OK /\ answer.sw \in Int
  <2>1. CASE card.initialized
    BY <2>1 DEF OnInit, Answer, Refusal, TypeOK, Blank, SW_INS_NOT_SUPPORTED, SW_OK
  <2>2. CASE ~card.initialized
    BY <2>2, InitAnswer DEF Answer, SW_OK
  <2> QED BY <2>1, <2>2
<1>2. retries[1] \in Retries /\ retries[2] \in Retries
  OBVIOUS
<1>3. LimitOf(retries[1]) \in Limits /\ LimitOf(retries[2]) \in Limits
  BY <1>2, Constants
<1>4. asked \in Initialized /\ asked.tries <= asked.limit /\ asked.puk_tries <= asked.puk_limit
  <2>2. LimitOf(retries[1]) \in 1 .. 15 /\ LimitOf(retries[2]) \in 1 .. 15
    BY <1>3, Constants
  <2>1. LimitOf(retries[1]) \in 0 .. 15 /\ LimitOf(retries[2]) \in 0 .. 15
    BY <2>2
  <2> QED BY <1>3, <2>1 DEF AsAsked, Initialized
<1>5. /\ asked.initialized /\ asked.pin = pin /\ asked.puk = puk /\ asked.secret = secret
      /\ asked.alt_pin = alt_pin
      /\ asked.limit = LimitOf(retries[1]) /\ asked.puk_limit = LimitOf(retries[2])
  BY DEF AsAsked
<1> HIDE DEF asked, answer
<1>6. Call(op, answer) /\ op.name = "init" /\ op.alt_pin = alt_pin /\ op.retries = retries
  BY DEF init_with_secret, answer
<1> HIDE DEF op
<1>7. possible' = [pin |-> Known(possible.pin, pin), puk |-> Known(possible.puk, puk),
                   secret |-> Known(possible.secret, secret)]
  BY DEF init_with_secret
<1>8. card' \in {card, asked}
  BY <1>1, <1>6, CallResults
<1>9. InitAsAsked'
  <2>1. result'.op = op
    BY <1>1, <1>6, CallResults
  <2>2. result'.outcome.is = "ok" => card' = asked
    BY <1>1, <1>6, CallResults
  <2> QED BY <1>5, <1>6, <2>1, <2>2 DEF InitAsAsked
<1>10. /\ Known(possible.pin, pin) \in SUBSET Pins
       /\ card' = asked => pin \in Known(possible.pin, pin)
       /\ card' = card /\ card.initialized => card.pin \in Known(possible.pin, pin)
  BY <1>1, <1>5, <1>6, KnownAfter DEF TypeOK, PinIsKnown
<1>11. /\ Known(possible.puk, puk) \in SUBSET Puks
       /\ card' = asked => puk \in Known(possible.puk, puk)
       /\ card' = card /\ card.initialized => card.puk \in Known(possible.puk, puk)
  BY <1>1, <1>5, <1>6, KnownAfter DEF TypeOK, PinIsKnown
<1>12. /\ Known(possible.secret, secret) \in SUBSET Secrets
       /\ card' = asked => secret \in Known(possible.secret, secret)
       /\ card' = card /\ card.initialized => card.secret \in Known(possible.secret, secret)
  BY <1>1, <1>5, <1>6, KnownAfter DEF TypeOK, PinIsKnown
<1>13. TypeOK'
  BY <1>4, <1>7, <1>8, <1>10, <1>11, <1>12 DEF TypeOK
<1>14. PinIsKnown'
  BY <1>5, <1>7, <1>8, <1>10, <1>11, <1>12 DEF PinIsKnown
<1> QED BY <1>9, <1>13, <1>14

LEMMA FactoryResetStep ==
  ASSUME TypeOK, PinIsKnown, factory_reset
  PROVE  TypeOK' /\ PinIsKnown'
<1>1. Blank.tries <= Blank.limit /\ Blank.puk_tries <= Blank.puk_limit /\ ~Blank.initialized
  BY Constants DEF Blank
<1>2. OnFactoryReset.card = Blank /\ OnFactoryReset.sw = SW_OK /\ OnFactoryReset.sw \in Int
  BY DEF OnFactoryReset, Answer, SW_OK
<1>3. \/ card' = Blank
      \/ card' = card /\ possible' = possible
  BY <1>2, CallResults DEF factory_reset
<1>4. possible' \in [pin : SUBSET Pins, puk : SUBSET Puks, secret : SUBSET Secrets]
  BY DEF factory_reset, Nobody, TypeOK
<1> QED BY <1>1, <1>3, <1>4 DEF TypeOK, PinIsKnown

\* A step that leaves the credentials, the limits and the tries alone.
LEMMA QuietStep ==
  ASSUME TypeOK, PinIsKnown, get_status \/ CardReset
  PROVE  TypeOK' /\ PinIsKnown'
<1>1. CASE get_status
  BY <1>1 DEF get_status, TypeOK, PinIsKnown
<1>2. CASE CardReset /\ card = Blank
  BY <1>2 DEF CardReset, Blank
<1>3. CASE CardReset /\ card \in Initialized
  <2>1. card' \in Initialized /\ possible' = possible
    BY <1>3 DEF CardReset, Initialized
  <2>2. /\ card'.tries = card.tries /\ card'.limit = card.limit
        /\ card'.puk_tries = card.puk_tries /\ card'.puk_limit = card.puk_limit
        /\ card'.pin = card.pin /\ card'.puk = card.puk /\ card'.secret = card.secret
        /\ card.initialized
    BY <1>3 DEF CardReset, Initialized
  <2> QED BY <2>1, <2>2 DEF TypeOK, PinIsKnown
<1> QED BY <1>1, <1>2, <1>3 DEF TypeOK

\* InitAsAsked speaks of the last result only: any other call ends it, and a
\* card that loses power keeps its configuration.
LEMMA InitAsAskedStep ==
  ASSUME TypeOK, PinIsKnown, InitAsAsked, Next
  PROVE  InitAsAsked'
<1>1. ASSUME NEW op, NEW answer, Call(op, answer), op.name # "init"
      PROVE  InitAsAsked'
  <2>1. result'.op = op
    BY <1>1 DEF Call, Result
  <2> QED BY <1>1, <2>1 DEF InitAsAsked
<1>2. \A name : Plain(name).name = name
  BY DEF Plain
<1>3. ASSUME NEW pin \in Pins, verify_pin(pin) PROVE InitAsAsked'
  BY <1>1, <1>2, <1>3 DEF verify_pin
<1>4. ASSUME NEW p1, NEW data, change_pin_with_type(p1, data) PROVE InitAsAsked'
  BY <1>1, <1>2, <1>4 DEF change_pin_with_type
<1>5. ASSUME NEW puk \in Puks, NEW pin \in Pins, unblock_pin(puk, pin) PROVE InitAsAsked'
  BY <1>1, <1>2, <1>5 DEF unblock_pin
<1>6. CASE factory_reset
  BY <1>1, <1>2, <1>6 DEF factory_reset
<1>7. CASE get_status
  <2>1. result'.op.name = "get_status"
    BY <1>7 DEF get_status, Result, Plain
  <2> QED BY <2>1 DEF InitAsAsked
<1>8. CASE CardReset
  <2>1. /\ card'.alt_pin = card.alt_pin /\ card'.limit = card.limit
        /\ card'.puk_limit = card.puk_limit /\ result' = result
    BY <1>8 DEF CardReset, TypeOK, Initialized, Blank
  <2> QED BY <2>1 DEF InitAsAsked
<1>9. ASSUME NEW pin \in Pins, NEW alt_pin \in Pins \union {None}, NEW puk \in Puks,
             NEW secret \in Secrets, NEW retries \in Retries \X Retries,
             init_with_secret(pin, alt_pin, puk, secret, retries)
      PROVE  InitAsAsked'
  BY <1>9, InitStep
<1>10. ASSUME NEW pin \in Pins, change_pin(pin) PROVE InitAsAsked'
  BY <1>4, <1>10 DEF change_pin
<1>11. ASSUME NEW puk \in Puks, change_puk(puk) PROVE InitAsAsked'
  BY <1>4, <1>11 DEF change_puk
<1>12. ASSUME NEW secret \in Secrets, change_pairing_password(secret) PROVE InitAsAsked'
  BY <1>4, <1>12 DEF change_pairing_password
<1> QED BY <1>3, <1>5, <1>6, <1>7, <1>8, <1>9, <1>10, <1>11, <1>12 DEF Next

-----------------------------------------------------------------------------
(***************************************************************************)
(* What a caller is told of the tries that are left.                       *)
(***************************************************************************)

\* The status word of a wrong PIN carries its tries, in four bits.
LEMMA WrongTells ==
  ASSUME NEW n \in Nat, n < 16
  PROVE  check_auth_ok(SW_WRONG_PIN_MASK + n) = [is |-> "wrong", retries |-> n]
<1>1. \A bit \in {64, 128, 256, 512, 8192, 16384} : ((25536 + n) \div bit) % 2 = 1
  <2>1. ((25536 + n) \div 64) % 2 = 1 /\ ((25536 + n) \div 128) % 2 = 1
    OBVIOUS
  <2>2. ((25536 + n) \div 256) % 2 = 1 /\ ((25536 + n) \div 512) % 2 = 1
    OBVIOUS
  <2>3. ((25536 + n) \div 8192) % 2 = 1 /\ ((25536 + n) \div 16384) % 2 = 1
    OBVIOUS
  <2> QED BY <2>1, <2>2, <2>3
<1>2. ((25536 + n) % 256) % 16 = n
  OBVIOUS
<1>3. Masked(25536 + n) /\ sw2(25536 + n) % 16 = n
  BY <1>1, <1>2 DEF Masked, sw2
<1> QED BY <1>3 DEF check_auth_ok, SW_WRONG_PIN_MASK

\* A call tells of the card's tries if its status word does.
LEMMA CallTells ==
  ASSUME NEW op, NEW answer, Call(op, answer), "status" \notin DOMAIN op,
         \/ answer.sw \in Refusals \union {SW_OK}
         \/ \E n \in Nat :
              /\ n < 16 /\ answer.sw = SW_WRONG_PIN_MASK + n
              /\ \/ op.name = "verify_pin" /\ n = answer.card.tries
                 \/ op.name = "unblock_pin" /\ n = answer.card.puk_tries
  PROVE  TriesAreTheCards'
<1>1. CASE result' = Result(op, Lost)
  <2>1. result'.op = op /\ result'.outcome.is = "lost"
    BY <1>1 DEF Result, Lost
  <2> QED BY <2>1 DEF TriesAreTheCards
<1>2. CASE card' = answer.card /\ result' = Result(op, check_auth_ok(answer.sw))
  <2>1. result'.op = op /\ result'.outcome = check_auth_ok(answer.sw)
    BY <1>2 DEF Result
  <2>2. CASE answer.sw \in Refusals \union {SW_OK}
    <3>1. result'.outcome.is # "wrong"
      BY <2>1, <2>2, StatusWords
    <3> QED BY <2>1, <3>1 DEF TriesAreTheCards
  <2>3. CASE answer.sw \notin Refusals \union {SW_OK}
    <3>1. PICK n \in Nat :
              /\ n < 16 /\ answer.sw = SW_WRONG_PIN_MASK + n
              /\ \/ op.name = "verify_pin" /\ n = answer.card.tries
                 \/ op.name = "unblock_pin" /\ n = answer.card.puk_tries
      BY <2>3
    <3>2. check_auth_ok(answer.sw) = [is |-> "wrong", retries |-> n]
      BY <3>1, WrongTells
    <3>3. result'.outcome.retries = n
      BY <2>1, <3>2
    <3> QED BY <1>2, <2>1, <3>1, <3>3 DEF TriesAreTheCards
  <2> QED BY <2>2, <2>3
<1> QED BY <1>1, <1>2 DEF Call

LEMMA CountersOf ==
  ASSUME TypeOK
  PROVE  /\ card.tries \in Nat /\ card.tries < 16
         /\ card.puk_tries \in Nat /\ card.puk_tries < 16
<1>1. CASE card = Blank
  <2>1. DefaultLimit \in Nat /\ DefaultLimit < 16
    BY LimitsAssumption
  <2> QED BY <1>1, <2>1 DEF Blank
<1>2. CASE card \in Initialized
  BY <1>2 DEF Initialized
<1> QED BY <1>1, <1>2 DEF TypeOK

LEMMA VerifyPinTells ==
  ASSUME TypeOK, NEW pin, verify_pin(pin)
  PROVE  TriesAreTheCards'
<1> DEFINE answer == OnVerifyPin(pin)
           op == Plain("verify_pin")
<1>1. Call(op, answer)
  BY DEF verify_pin
<1>2. "status" \notin DOMAIN op /\ op.name = "verify_pin"
  BY DEF Plain
<1>3. CASE ~card.initialized
  <2>1. answer.sw \in Refusals
    BY <1>3 DEF OnVerifyPin, Refusal, Answer, Refusals
  <2> HIDE DEF answer, op
  <2> QED BY <1>1, <1>2, <2>1, CallTells
<1>4. CASE card.initialized /\ card.tries = 0
  <2>1. answer.sw = SW_WRONG_PIN_MASK + 0 /\ answer.card.tries = 0
    BY <1>4 DEF OnVerifyPin, Refusal, Answer, SW_WRONG_PIN_MASK
  <2> HIDE DEF answer, op
  <2> QED BY <1>1, <1>2, <2>1, CallTells
<1>5. CASE card.initialized /\ card.tries # 0 /\ pin \in {card.pin, card.alt_pin}
  <2>1. answer.sw = SW_OK
    BY <1>5 DEF OnVerifyPin, Answer
  <2> HIDE DEF answer, op
  <2> QED BY <1>1, <1>2, <2>1, CallTells
<1>6. CASE card.initialized /\ card.tries # 0 /\ pin \notin {card.pin, card.alt_pin}
  <2>1. answer = Answer([card EXCEPT !.tries = @ - 1, !.verified = FALSE],
                        SW_WRONG_PIN_MASK + card.tries - 1)
    BY <1>6 DEF OnVerifyPin
  <2>2. card.tries - 1 \in Nat /\ card.tries - 1 < 16
        /\ SW_WRONG_PIN_MASK + card.tries - 1 = SW_WRONG_PIN_MASK + (card.tries - 1)
    BY <1>6, CountersOf DEF SW_WRONG_PIN_MASK
  <2>3. card \in Initialized
    BY <1>6 DEF TypeOK, Blank
  <2>4. answer.sw = SW_WRONG_PIN_MASK + (card.tries - 1) /\ answer.card.tries = card.tries - 1
    <3>1. /\ answer.sw = SW_WRONG_PIN_MASK + card.tries - 1
          /\ answer.card = [card EXCEPT !.tries = @ - 1, !.verified = FALSE]
      BY <2>1 DEF Answer
    <3> HIDE DEF answer
    <3>2. answer.card.tries = card.tries - 1
      BY <2>3, <3>1 DEF Initialized
    <3> QED BY <2>2, <3>1, <3>2
  <2> HIDE DEF answer, op
  <2> QED BY <1>1, <1>2, <2>2, <2>4, CallTells
<1> QED BY <1>3, <1>4, <1>5, <1>6

LEMMA ChangePinTells ==
  ASSUME NEW p1, NEW data, change_pin_with_type(p1, data)
  PROVE  TriesAreTheCards'
<1> DEFINE answer == OnChangePin(p1, data)
           op == Plain("change_pin")
<1>1. Call(op, answer) /\ "status" \notin DOMAIN op
  BY DEF change_pin_with_type, Plain
<1>2. answer.sw \in Refusals \union {SW_OK}
  BY DEF OnChangePin, Refusal, Answer, Refusals
<1> HIDE DEF answer, op
<1> QED BY <1>1, <1>2, CallTells

LEMMA UnblockPinTells ==
  ASSUME TypeOK, NEW puk \in Puks, NEW pin \in Pins, unblock_pin(puk, pin)
  PROVE  TriesAreTheCards'
<1> DEFINE answer == OnUnblockPin(UnblockData(puk, pin))
           op == Plain("unblock_pin")
<1>1. Call(op, answer)
  BY DEF unblock_pin
<1>2. "status" \notin DOMAIN op /\ op.name = "unblock_pin"
  BY DEF Plain
<1>3. CASE ~card.initialized \/ card.tries # 0
  <2>1. answer.sw \in Refusals
    BY <1>3 DEF OnUnblockPin, Refusal, Answer, Refusals
  <2> HIDE DEF answer, op
  <2> QED BY <1>1, <1>2, <2>1, CallTells
<1>4. CASE card.initialized /\ card.tries = 0 /\ card.puk_tries = 0
  <2>1. answer.sw = SW_WRONG_PIN_MASK + 0 /\ answer.card.puk_tries = 0
    BY <1>4, UnblockParts DEF OnUnblockPin, Refusal, Answer, SW_WRONG_PIN_MASK
  <2> HIDE DEF answer, op
  <2> QED BY <1>1, <1>2, <2>1, CallTells
<1>5. CASE card.initialized /\ card.tries = 0 /\ card.puk_tries # 0 /\ card.puk = puk
  <2>1. answer.sw = SW_OK
    BY <1>5, UnblockParts DEF OnUnblockPin, Answer
  <2> HIDE DEF answer, op
  <2> QED BY <1>1, <1>2, <2>1, CallTells
<1>6. CASE card.initialized /\ card.tries = 0 /\ card.puk_tries # 0 /\ card.puk # puk
  <2>1. answer = Answer([card EXCEPT !.puk_tries = @ - 1], SW_WRONG_PIN_MASK + card.puk_tries - 1)
    BY <1>6, UnblockParts DEF OnUnblockPin
  <2>2. card.puk_tries - 1 \in Nat /\ card.puk_tries - 1 < 16
        /\ SW_WRONG_PIN_MASK + card.puk_tries - 1 = SW_WRONG_PIN_MASK + (card.puk_tries - 1)
    BY <1>6, CountersOf DEF SW_WRONG_PIN_MASK
  <2>3. card \in Initialized
    BY <1>6 DEF TypeOK, Blank
  <2>4. /\ answer.sw = SW_WRONG_PIN_MASK + (card.puk_tries - 1)
        /\ answer.card.puk_tries = card.puk_tries - 1
    BY <2>1, <2>2, <2>3 DEF Answer, Initialized
  <2> HIDE DEF answer, op
  <2> QED BY <1>1, <1>2, <2>2, <2>4, CallTells
<1> QED BY <1>3, <1>4, <1>5, <1>6

LEMMA InitTells ==
  ASSUME NEW pin, NEW alt_pin, NEW puk, NEW secret, NEW retries,
         init_with_secret(pin, alt_pin, puk, secret, retries)
  PROVE  TriesAreTheCards'
<1> DEFINE answer == OnInit(pin \o puk \o secret \o Extension(alt_pin, retries))
           op == [name |-> "init", alt_pin |-> alt_pin, retries |-> retries]
<1>1. Call(op, answer) /\ "status" \notin DOMAIN op
  BY DEF init_with_secret
<1>2. answer.sw \in Refusals \union {SW_OK}
  <2> DEFINE data == pin \o puk \o secret \o Extension(alt_pin, retries)
  <2> HIDE DEF data
  <2>1. OnInit(data).sw \in Refusals \union {SW_OK}
    BY DEF OnInit, Refusal, Answer, Refusals
  <2> QED BY <2>1 DEF data
<1> HIDE DEF answer, op
<1> QED BY <1>1, <1>2, CallTells

LEMMA FactoryResetTells ==
  ASSUME factory_reset
  PROVE  TriesAreTheCards'
<1> DEFINE op == Plain("factory_reset")
<1>1. Call(op, OnFactoryReset) /\ "status" \notin DOMAIN op
  BY DEF factory_reset, Plain
<1>2. OnFactoryReset.sw = SW_OK
  BY DEF OnFactoryReset, Answer
<1> HIDE DEF op
<1> QED BY <1>1, <1>2, CallTells

\* The response to GET STATUS is read as the card wrote it.
LEMMA StatusIsRead ==
  ASSUME TypeOK
  PROVE  from_tlv(StatusResponse) = [pin_retry_count |-> card.tries,
                                     puk_retry_count |-> card.puk_tries]
<1> DEFINE none == <<>>
           pin_tries == card.tries
           puk_tries == card.puk_tries
           r4 == write_primitive(TLV.BOOL, Bytes(1, 255)) \o none
           r3 == write_primitive(TLV.INT, Bytes(1, puk_tries)) \o r4
           r2 == write_primitive(TLV.INT, Bytes(1, pin_tries)) \o r3
           content == Bytes(Len(r2), "content")
           S == {Item(TLV.BOOL, Bytes(1, 255)), Item(TLV.INT, Bytes(1, puk_tries)),
                 Item(TLV.INT, Bytes(1, pin_tries)),
                 Item(TLV.APPLICATION_STATUS_TEMPLATE, content)}
           r1 == write_primitive(TLV.APPLICATION_STATUS_TEMPLATE, content) \o r2
           w0 == <<>>
           w1 == Append(w0, content)
           w2 == Append(w1, Bytes(1, pin_tries))
           w3 == Append(w2, Bytes(1, puk_tries))
           w4 == Append(w3, Bytes(1, 255))
<1>1. /\ none \in Seq(S) /\ r4 \in Seq(S) /\ r3 \in Seq(S) /\ r2 \in Seq(S)
  <2>1. none \in Seq(S)
    OBVIOUS
  <2>2. r4 \in Seq(S)
    BY <2>1 DEF write_primitive
  <2> HIDE DEF r4
  <2>3. r3 \in Seq(S)
    BY <2>2 DEF write_primitive
  <2> HIDE DEF r3
  <2>4. r2 \in Seq(S)
    BY <2>3 DEF write_primitive
  <2> QED BY <2>1, <2>2, <2>3, <2>4
<1>2. StatusResponse = r1
  <2>1. /\ r2 = write_primitive(TLV.INT, Bytes(1, card.tries))
                 \o write_primitive(TLV.INT, Bytes(1, card.puk_tries))
                 \o write_primitive(TLV.BOOL, Bytes(1, 255))
    BY DEF write_primitive
  <2>2. StatusResponse = write_constructed(TLV.APPLICATION_STATUS_TEMPLATE, r2)
    BY <2>1 DEF StatusResponse
  <2> QED BY <2>2 DEF write_constructed, write_primitive
<1>3. Len(r2) \in AnySize /\ 1 \in 1 .. 4 /\ 1 \in Sizes(1)
  <2>1. Len(r2) \in Nat
    <3> HIDE DEF r2, S
    <3> QED BY <1>1
  <2> HIDE DEF r2
  <2> QED BY <2>1 DEF AnySize, Sizes
<1>4. /\ Item(TLV.BOOL, Bytes(1, 255)) \in S /\ Item(TLV.INT, Bytes(1, puk_tries)) \in S
      /\ Item(TLV.INT, Bytes(1, pin_tries)) \in S
      /\ Item(TLV.APPLICATION_STATUS_TEMPLATE, Bytes(Len(r2), "content")) \in S
  OBVIOUS
<1> HIDE DEF S, none, pin_tries, puk_tries
<1>5. Unread(r1, w0) & Required(TLV.APPLICATION_STATUS_TEMPLATE, AnySize) = Unread(r2, w1)
  <2> HIDE DEF r2, w0
  <2> QED BY <1>1, <1>3, <1>4, RequiredField
<1>6. Unread(r2, w1) & Required(TLV.INT, 1 .. 4) = Unread(r3, w2)
  <2> HIDE DEF r3, w1
  <2> QED BY <1>1, <1>3, <1>4, RequiredField
<1>7. Unread(r3, w2) & Required(TLV.INT, 1 .. 4) = Unread(r4, w3)
  <2> HIDE DEF r4, w2
  <2> QED BY <1>1, <1>3, <1>4, RequiredField
<1>8. Unread(r4, w3) & Required(TLV.BOOL, Sizes(1)) = Unread(none, w4)
  <2> HIDE DEF w3
  <2> QED BY <1>1, <1>3, <1>4, RequiredField
<1>9. read_status(StatusResponse) = Unread(none, w4)
  <2> HIDE DEF r1, r2, r3, r4, w0, w1, w2, w3, w4
  <2>1. read_status(r1) = Unread(r1, w0) & Required(TLV.APPLICATION_STATUS_TEMPLATE, AnySize)
                          & Required(TLV.INT, 1 .. 4) & Required(TLV.INT, 1 .. 4)
                          & Required(TLV.BOOL, Sizes(1))
    BY StartIsUnread DEF read_status, read_integer, read_boolean, enter_constructed, w0
  <2> QED BY <1>2, <1>5, <1>6, <1>7, <1>8, <2>1
<1>10. w4[2] = Bytes(1, pin_tries) /\ w4[3] = Bytes(1, puk_tries)
  <2> DEFINE x2 == Bytes(1, pin_tries)
             x3 == Bytes(1, puk_tries)
             x4 == Bytes(1, 255)
             V == {content, x2, x3, x4}
             w5 == Append(w4, x4)
  <2>1. content \in V /\ x2 \in V /\ x3 \in V /\ x4 \in V
    OBVIOUS
  <2>2. /\ w1 = Append(<<>>, content) /\ w2 = Append(w1, x2) /\ w3 = Append(w2, x3)
        /\ w4 = Append(w3, x4) /\ w5 = Append(w4, x4)
    OBVIOUS
  <2> HIDE DEF content, x2, x3, x4, V, w1, w2, w3, w4, w5
  <2>3. w4[2] = x2 /\ w4[3] = x3
    BY <2>1, <2>2, ValuesInOrder
  <2> QED BY <2>3 DEF x2, x3
<1> HIDE DEF w4
<1>11. read_status(StatusResponse) # Err /\ read_status(StatusResponse).values = w4
  BY <1>9, NoErr DEF Unread
<1>12. w4[2].of = card.tries /\ w4[3].of = card.puk_tries
  BY <1>10 DEF Bytes, pin_tries, puk_tries
<1>13. card.tries % 256 = card.tries /\ card.puk_tries % 256 = card.puk_tries
  BY CountersOf
<1> QED BY <1>11, <1>12, <1>13 DEF from_tlv

LEMMA GetStatusTells ==
  ASSUME TypeOK, get_status
  PROVE  TriesAreTheCards'
<1>1. card' = card
  BY DEF get_status
<1>2. CASE result' = Result(Plain("get_status"), Lost)
  <2>1. result'.outcome.is = "lost" /\ "status" \notin DOMAIN result'.op
    BY <1>2 DEF Result, Plain, Lost
  <2> QED BY <2>1 DEF TriesAreTheCards
<1>3. CASE result' = Result([name |-> "get_status", status |-> from_tlv(StatusResponse)],
                            check_ok(SW_OK))
  <2>1. result'.op.status = from_tlv(StatusResponse) /\ result'.outcome.is = "ok"
    BY <1>3 DEF Result, check_ok
  <2>2. result'.op.status = [pin_retry_count |-> card'.tries, puk_retry_count |-> card'.puk_tries]
    BY <1>1, <2>1, StatusIsRead
  <2> QED BY <2>1, <2>2 DEF TriesAreTheCards
<1> QED BY <1>2, <1>3 DEF get_status

LEMMA CardResetTells ==
  ASSUME TypeOK, TriesAreTheCards, CardReset
  PROVE  TriesAreTheCards'
<1>1. card'.tries = card.tries /\ card'.puk_tries = card.puk_tries /\ result' = result
  BY DEF CardReset, TypeOK, Initialized, Blank
<1> QED BY <1>1 DEF TriesAreTheCards

LEMMA TriesStep ==
  ASSUME TypeOK, TriesAreTheCards, Next
  PROVE  TriesAreTheCards'
<1>1. ASSUME NEW pin \in Pins, change_pin(pin) PROVE TriesAreTheCards'
  BY <1>1, ChangePinTells DEF change_pin
<1>2. ASSUME NEW puk \in Puks, change_puk(puk) PROVE TriesAreTheCards'
  BY <1>2, ChangePinTells DEF change_puk
<1>3. ASSUME NEW secret \in Secrets, change_pairing_password(secret) PROVE TriesAreTheCards'
  BY <1>3, ChangePinTells DEF change_pairing_password
<1> QED BY <1>1, <1>2, <1>3, VerifyPinTells, UnblockPinTells, InitTells, FactoryResetTells,
           GetStatusTells, CardResetTells DEF Next
-----------------------------------------------------------------------------
IInv == TypeOK /\ PinIsKnown /\ InitAsAsked /\ TriesAreTheCards

LEMMA Initially == Init => IInv
<1> SUFFICES ASSUME Init PROVE IInv
  OBVIOUS
<1>1. TypeOK
  <2>1. DefaultLimit \in 1 .. 15
    BY Constants
  <2>2. Blank.tries <= Blank.limit /\ Blank.puk_tries <= Blank.puk_limit
    BY <2>1 DEF Blank
  <2>3. Nobody \in [pin : SUBSET Pins, puk : SUBSET Puks, secret : SUBSET Secrets]
    BY DEF Nobody
  <2> QED BY <2>2, <2>3 DEF Init, TypeOK
<1>2. PinIsKnown
  BY DEF Init, PinIsKnown, Blank
<1>3. InitAsAsked
  BY DEF Init, InitAsAsked, Plain, Lost
<1>4. TriesAreTheCards
  BY DEF Init, TriesAreTheCards, Plain, Lost
<1> QED BY <1>1, <1>2, <1>3, <1>4 DEF IInv

LEMMA Step == IInv /\ [Next]_vars => IInv'
<1> SUFFICES ASSUME IInv, [Next]_vars PROVE IInv'
  OBVIOUS
<1>1. CASE UNCHANGED vars
  BY <1>1 DEF IInv, vars, TypeOK, PinIsKnown, InitAsAsked, TriesAreTheCards
<1>2. CASE Next
  <2>1. TypeOK' /\ PinIsKnown'
    BY <1>2, VerifyPinStep, ChangePinStep, ChangePukStep, ChangeSecretStep, UnblockPinStep,
       InitStep, FactoryResetStep, QuietStep DEF Next, IInv
  <2> QED BY <1>2, <2>1, InitAsAskedStep, TriesStep DEF IInv
<1> QED BY <1>1, <1>2

THEOREM Invariant == Spec => []IInv
  BY Initially, Step, PTL DEF Spec

\* The card's credentials have the lengths it works with and its counters stay
\* within their limits, for credentials of any lengths.
THEOREM Typing == Spec => []TypeOK
  BY Invariant, PTL DEF IInv

\* A caller always has the credentials the card accepts among those it may have
\* to try, whatever was lost or refused.
THEOREM AlwaysKnown == Spec => []PinIsKnown
  BY Invariant, PTL DEF IInv

\* INIT sets what it was asked to set, whichever optional parts are given.
THEOREM InitSetsWhatIsAsked == Spec => []InitAsAsked
  BY Invariant, PTL DEF IInv

\* The tries a caller is told are left, by the status word of a wrong PIN or PUK
\* or by GET STATUS, are those the card has (check_auth_ok, ApplicationStatus).
THEOREM TriesAreTold == Spec => []TriesAreTheCards
  BY Invariant, PTL DEF IInv
=============================================================================
