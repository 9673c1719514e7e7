---------------------------- MODULE Credentials ----------------------------
(***************************************************************************)
(* PIN, PUK and pairing secret: INIT, VERIFY PIN, CHANGE PIN, UNBLOCK PIN, *)
(* GET STATUS and FACTORY RESET of keycard.rs, with the layout of their    *)
(* data, and the status words of apdu.rs by which a caller learns what     *)
(* became of them.                                                         *)
(*                                                                         *)
(* The library keeps no copy of the credentials: the caller must conclude  *)
(* from results alone what the card may now accept.  Any exchange may be   *)
(* lost before or after the card executed it.  The card is external; the   *)
(* channels that carry the commands are modelled elsewhere.                *)
(*                                                                         *)
(* An operator named Bug... is a plausible mistake in the definition that  *)
(* follows it, used to show that a property would notice.                  *)
(***************************************************************************)
EXTENDS BerTlv

CONSTANTS
  Pins, Puks, Secrets,  \* the caller's, as sequences of bytes
  PinLen, PukLen,       \* 6 and 12 bytes
  SecretLen,            \* 32 bytes; 0 for init_v2
  Retries,              \* retry limits a caller may ask for, 0 for none
  DefaultLimit,         \* the card's own limit
  None                  \* Rust's None

Limits == (Retries \ {0}) \union {DefaultLimit}

\* Callers give credentials of the lengths the card expects.
ASSUME LengthsAssumption ==
  /\ PinLen \in Nat \ {0} /\ PukLen \in Nat \ {0} /\ SecretLen \in Nat
  /\ \A pin \in Pins : pin \in Seq(Nat) /\ Len(pin) = PinLen
  /\ \A puk \in Puks : puk \in Seq(Nat) /\ Len(puk) = PukLen
  /\ \A secret \in Secrets : secret \in Seq(Nat) /\ Len(secret) = SecretLen
ASSUME LimitsAssumption ==
  Retries \subseteq 0 .. 15 /\ 0 \in Retries /\ DefaultLimit \in 1 .. 15
ASSUME NoneAssumption == None \notin Seq(Nat)

VARIABLES
  card,      \* the card
  possible,  \* the credentials it may have, as far as its caller can tell
  result     \* what the last call returned

vars == <<card, possible, result>>

Initialized == [initialized : {TRUE}, pin : Pins, alt_pin : Pins \union {None}, puk : Puks,
                secret : Secrets, limit : Limits, puk_limit : Limits,
                tries : 0 .. 15, puk_tries : 0 .. 15, verified : BOOLEAN]

Blank == [initialized |-> FALSE, pin |-> None, alt_pin |-> None, puk |-> None,
          secret |-> None, limit |-> DefaultLimit, puk_limit |-> DefaultLimit,
          tries |-> DefaultLimit, puk_tries |-> DefaultLimit, verified |-> FALSE]
-----------------------------------------------------------------------------
(***************************************************************************)
(* ApduResponse.                                                           *)
(***************************************************************************)
SW_OK == 36864                                  \* 0x9000
SW_CONDITIONS_OF_USE_NOT_SATISFIED == 27013     \* 0x6985
SW_WRONG_DATA == 27264                          \* 0x6A80
SW_INS_NOT_SUPPORTED == 27904                   \* 0x6D00
SW_WRONG_PIN_MASK == 25536                      \* 0x63C0

BugMasked(sw) == (sw \div 8192) % 2 = 1   \* any bit of the mask will do

\* (sw & SW_WRONG_PIN_MASK) == SW_WRONG_PIN_MASK
Masked(sw) == \A bit \in {64, 128, 256, 512, 8192, 16384} : (sw \div bit) % 2 = 1

sw2(sw) == sw % 256

check_ok(sw) == [is |-> IF sw = SW_OK THEN "ok" ELSE "status", retries |-> None]

check_auth_ok(sw) ==
  IF Masked(sw) THEN [is |-> "wrong", retries |-> sw2(sw) % 16] ELSE check_ok(sw)

Lost == [is |-> "lost", retries |-> None]
-----------------------------------------------------------------------------
(***************************************************************************)
(* The card, external: what each command answers and leaves behind.  With  *)
(* no tries left it refuses the right PIN as well.                         *)
(***************************************************************************)
Answer(after, sw) == [card |-> after, sw |-> sw]
Refusal(sw) == Answer(card, sw)

OnVerifyPin(pin) ==
  IF ~card.initialized THEN Refusal(SW_INS_NOT_SUPPORTED)
  ELSE IF card.tries = 0 THEN Refusal(SW_WRONG_PIN_MASK)
  ELSE IF pin \in {card.pin, card.alt_pin}
    THEN Answer([card EXCEPT !.tries = card.limit, !.verified = TRUE], SW_OK)
  ELSE Answer([card EXCEPT !.tries = @ - 1, !.verified = FALSE],
              SW_WRONG_PIN_MASK + card.tries - 1)

USER_PIN == 0
PUK == 1
PAIRING_SECRET == 2

OnChangePin(p1, data) ==
  IF ~card.verified THEN Refusal(SW_CONDITIONS_OF_USE_NOT_SATISFIED)
  ELSE IF p1 = USER_PIN /\ Len(data) = PinLen THEN Answer([card EXCEPT !.pin = data], SW_OK)
  ELSE IF p1 = PUK /\ Len(data) = PukLen THEN Answer([card EXCEPT !.puk = data], SW_OK)
  ELSE IF p1 = PAIRING_SECRET /\ Len(data) = SecretLen
    THEN Answer([card EXCEPT !.secret = data], SW_OK)
  ELSE Refusal(SW_WRONG_DATA)

\* The PUK comes first.
OnUnblockPin(data) ==
  IF ~card.initialized \/ card.tries # 0 THEN Refusal(SW_CONDITIONS_OF_USE_NOT_SATISFIED)
  ELSE IF Len(data) # PukLen + PinLen THEN Refusal(SW_WRONG_DATA)
  ELSE IF card.puk_tries = 0 THEN Refusal(SW_WRONG_PIN_MASK)
  ELSE IF SubSeq(data, 1, PukLen) = card.puk
    THEN Answer([card EXCEPT !.pin = SubSeq(data, PukLen + 1, PukLen + PinLen),
                             !.tries = card.limit, !.puk_tries = card.puk_limit,
                             !.verified = TRUE], SW_OK)
  ELSE Answer([card EXCEPT !.puk_tries = @ - 1], SW_WRONG_PIN_MASK + card.puk_tries - 1)

\* A limit of 0 is the card's own.  The length tells what is there.
LimitOf(retries) == IF retries = 0 THEN DefaultLimit ELSE retries

Configured(data, retries, alt_pin) ==
  [initialized |-> TRUE, pin |-> SubSeq(data, 1, PinLen), alt_pin |-> alt_pin,
   puk |-> SubSeq(data, PinLen + 1, PinLen + PukLen),
   secret |-> SubSeq(data, PinLen + PukLen + 1, PinLen + PukLen + SecretLen),
   limit |-> LimitOf(retries[1]), puk_limit |-> LimitOf(retries[2]),
   tries |-> LimitOf(retries[1]), puk_tries |-> LimitOf(retries[2]), verified |-> FALSE]

BaseLen == PinLen + PukLen + SecretLen

OnInit(data) ==
  IF card.initialized THEN Refusal(SW_INS_NOT_SUPPORTED)
  ELSE IF Len(data) = BaseLen THEN Answer(Configured(data, <<0, 0>>, None), SW_OK)
  ELSE IF Len(data) = BaseLen + 2
    THEN Answer(Configured(data, SubSeq(data, BaseLen + 1, BaseLen + 2), None), SW_OK)
  ELSE IF Len(data) = BaseLen + 2 + PinLen
    THEN Answer(Configured(data, SubSeq(data, BaseLen + 1, BaseLen + 2),
                           SubSeq(data, BaseLen + 3, BaseLen + 2 + PinLen)), SW_OK)
  ELSE Refusal(SW_WRONG_DATA)

OnFactoryReset == Answer(Blank, SW_OK)

StatusResponse ==
  write_constructed(TLV.APPLICATION_STATUS_TEMPLATE,
    write_primitive(TLV.INT, Bytes(1, card.tries))
    \o write_primitive(TLV.INT, Bytes(1, card.puk_tries))
    \o write_primitive(TLV.BOOL, Bytes(1, 255)))
-----------------------------------------------------------------------------
(***************************************************************************)
(* One call: the answer arrives, or the exchange is lost on its way or on  *)
(* its way back.                                                           *)
(***************************************************************************)
Result(op, outcome) == [op |-> op, outcome |-> outcome]

Call(op, answer) ==
  \/ card' = answer.card /\ result' = Result(op, check_auth_ok(answer.sw))
  \/ card' \in {card, answer.card} /\ result' = Result(op, Lost)

Plain(name) == [name |-> name]

\* What a caller concludes for a credential that a call sets.
Known(old, new) ==
  CASE result'.outcome.is = "ok" -> {new}
    [] result'.outcome.is = "lost" -> old \union {new}
    [] OTHER -> old

\* What a wrong try excludes: nothing, if the card takes no tries any more.
Excluded(tried) ==
  IF result'.outcome.is = "wrong" /\ result'.outcome.retries > 0 THEN {tried} ELSE {}

verify_pin(pin) ==
  /\ Call(Plain("verify_pin"), OnVerifyPin(pin))
  /\ possible' = [possible EXCEPT !.pin = @ \ Excluded(pin)]

change_pin_with_type(p1, data) == Call(Plain("change_pin"), OnChangePin(p1, data))

change_pin(pin) ==
  /\ change_pin_with_type(USER_PIN, pin)
  /\ possible' = [possible EXCEPT !.pin = Known(@, pin)]

change_puk(puk) ==
  /\ change_pin_with_type(PUK, puk)
  /\ possible' = [possible EXCEPT !.puk = Known(@, puk)]

change_pairing_password(secret) ==
  /\ change_pin_with_type(PAIRING_SECRET, secret)
  /\ possible' = [possible EXCEPT !.secret = Known(@, secret)]

BugUnblockData(puk, pin) == pin \o puk   \* in the order of INIT

UnblockData(puk, pin) == puk \o pin

unblock_pin(puk, pin) ==
  /\ Call(Plain("unblock_pin"), OnUnblockPin(UnblockData(puk, pin)))
  /\ possible' = [possible EXCEPT !.pin = Known(@, pin),
                                  !.puk = @ \ Excluded(puk)]

BugExtension(alt_pin, retries) ==   \* only if both limits are given
  IF alt_pin # None THEN retries \o alt_pin
  ELSE IF retries[1] # 0 /\ retries[2] # 0 THEN retries ELSE <<>>

BugAltPinFirst(alt_pin, retries) ==
  IF alt_pin # None THEN alt_pin \o retries
  ELSE IF retries[1] # 0 \/ retries[2] # 0 THEN retries ELSE <<>>

Extension(alt_pin, retries) ==
  IF alt_pin # None THEN retries \o alt_pin
  ELSE IF retries[1] # 0 \/ retries[2] # 0 THEN retries ELSE <<>>

init_with_secret(pin, alt_pin, puk, secret, retries) ==
  /\ Call([name |-> "init", alt_pin |-> alt_pin, retries |-> retries],
          OnInit(pin \o puk \o secret \o Extension(alt_pin, retries)))
  /\ possible' = [pin |-> Known(possible.pin, pin),
                  puk |-> Known(possible.puk, puk),
                  secret |-> Known(possible.secret, secret)]

Nobody == [pin |-> {}, puk |-> {}, secret |-> {}]

factory_reset ==
  /\ Call(Plain("factory_reset"), OnFactoryReset)
  /\ possible' = IF result'.outcome.is = "ok" THEN Nobody ELSE possible

read_status(items) ==
  Start(items) & enter_constructed(TLV.APPLICATION_STATUS_TEMPLATE)
  & read_integer & read_integer & read_boolean

\* ApplicationStatus: the counters are cut to a byte.
from_tlv(items) ==
  LET read == read_status(items)
  IN  IF read = Err THEN Err
      ELSE [pin_retry_count |-> read.values[2].of % 256,
            puk_retry_count |-> read.values[3].of % 256]

get_status ==
  /\ \/ result' = Result(Plain("get_status"), Lost)
     \/ result' = Result([name |-> "get_status", status |-> from_tlv(StatusResponse)],
                         check_ok(SW_OK))
  /\ UNCHANGED <<card, possible>>

\* The card loses power, and with it that the PIN was verified.
CardReset ==
  /\ card.verified
  /\ card' = [card EXCEPT !.verified = FALSE]
  /\ UNCHANGED <<possible, result>>
-----------------------------------------------------------------------------
Init ==
  /\ card = Blank
  /\ possible = Nobody
  /\ result = [op |-> Plain("none"), outcome |-> Lost]

Next ==
  \/ \E pin \in Pins : verify_pin(pin) \/ change_pin(pin)
  \/ \E puk \in Puks : change_puk(puk)
  \/ \E secret \in Secrets : change_pairing_password(secret)
  \/ \E puk \in Puks, pin \in Pins : unblock_pin(puk, pin)
  \/ \E pin \in Pins, alt_pin \in Pins \union {None}, puk \in Puks, secret \in Secrets,
       retries \in Retries \X Retries :
       init_with_secret(pin, alt_pin, puk, secret, retries)
  \/ get_status
  \/ factory_reset
  \/ CardReset

Spec == Init /\ [][Next]_vars
-----------------------------------------------------------------------------
(***************************************************************************)
(* Properties.                                                             *)
(***************************************************************************)

\* The card's credentials have the lengths it works with, whichever command set
\* them, and its counters never exceed their limits.
TypeOK ==
  /\ card \in Initialized \union {Blank}
  /\ card.tries <= card.limit /\ card.puk_tries <= card.puk_limit
  /\ possible \in [pin : SUBSET Pins, puk : SUBSET Puks, secret : SUBSET Secrets]

\* Whatever was lost, refused or tried, a caller that keeps the credentials the
\* results leave possible has those the card accepts among them: no sequence of
\* calls leaves the card with a PIN, PUK or secret nobody gave it.
PinIsKnown ==
  card.initialized => /\ card.pin \in possible.pin
                      /\ card.puk \in possible.puk
                      /\ card.secret \in possible.secret

\* The tries a caller is told are left, by a wrong PIN or PUK and by GET STATUS,
\* are those the card has, and no other refusal is taken for a wrong PIN.
TriesAreTheCards ==
  /\ result.outcome.is = "wrong" =>
       result.outcome.retries = IF result.op.name = "verify_pin" THEN card.tries
                                ELSE card.puk_tries
  /\ result.outcome.is = "wrong" => result.op.name \in {"verify_pin", "unblock_pin"}
  /\ "status" \in DOMAIN result.op =>
       result.op.status = [pin_retry_count |-> card.tries, puk_retry_count |-> card.puk_tries]

\* After an INIT that succeeded the card has the second PIN and the limits that
\* were asked for, its own where none was: also if only one of the two was given.
InitAsAsked ==
  (result.op.name = "init" /\ result.outcome.is = "ok") =>
    /\ card.alt_pin = result.op.alt_pin
    /\ <<card.limit, card.puk_limit>>
         = <<LimitOf(result.op.retries[1]), LimitOf(result.op.retries[2])>>
=============================================================================
