-------------------------- MODULE SecureChannelV1 --------------------------
(***************************************************************************)
(* The Secure Channel V1 of secure_channel/v1.rs: a client pairs once and  *)
(* gets one of the card's few slots, opens sessions with its pairing, and  *)
(* seals every command with AES-CBC under an IV that both ends chain from  *)
(* message to message.                                                     *)
(*                                                                         *)
(* The channel is driven as KeycardCommandSet drives it: a sealed command  *)
(* is transmitted as soon as it is built.  Calls of several exchanges      *)
(* (auto_open, auto_pair, unpair_others) take one step per exchange, and   *)
(* another client of the same reader may use the card in between.  The     *)
(* card and the link are external.                                         *)
(*                                                                         *)
(* Session keys, pairing keys and IVs are numbers, fresh when they depend  *)
(* on fresh random input.  A MAC is the next IV of its receiver.           *)
(*                                                                         *)
(* An operator named Bug... is a plausible mistake in the definition that  *)
(* follows it, used to show that a property would notice.                  *)
(***************************************************************************)
EXTENDS Naturals

CONSTANTS
  None,         \* Rust's None
  MaxClients,   \* PAIRING_MAX_CLIENT_COUNT: the card's pairing slots
  MaxKeys,      \* bound on sessions opened
  MaxPairings,  \* bound on pairings the card grants to this client
  MaxIVs        \* bound on IVs drawn: two for every sealed exchange

ASSUME NoneAssumption == None \notin Nat
ASSUME MaxClientsAssumption == MaxClients \in Nat \ {0}
ASSUME BoundsAssumption == MaxKeys \in Nat /\ MaxPairings \in Nat /\ MaxIVs \in Nat

VARIABLES
  open, established,   \* the fields of SecureChannelV1
  secret, pairing,     \* was generate_secret called; the Pairing held
  key, iv,             \* enc_key and mac_key, iv
  call,                \* the call in progress, for calls of several exchanges
  result,              \* what the last call or exchange returned
  card,                \* session key, IV and slots of the card
  keys, pairings, ivs, \* how many of each were drawn
  genuine,             \* did the card derive the channel's session key too?
  carried              \* has a protected answer been unwrapped since reset?

session == <<open, established, key, iv>>
drawn == <<keys, pairings, ivs>>
history == <<genuine, carried>>
vars == <<session, secret, pairing, call, result, card, drawn, history>>

NoKey == 0
Foreign == 0     \* the pairing key of some other client
Slots == 0 .. MaxClients - 1
Answers == {"ok", "status", "error", "garbled"}
Results == Answers \union {"none", "unpaired"}

Idle == [op |-> "none"]
\* unpair_others: the next index, the index to keep, and the slots another
\* client took while the loop ran.
Unpairing(i, keep, taken) ==
  [op |-> "unpair_others", next |-> i, keep |-> keep, taken |-> taken]
Calls == {[op |-> o] : o \in {"none", "auto_open", "auto_pair"}}
         \union {Unpairing(i, k, t) : i \in 0 .. MaxClients,
                                      k \in Slots \union {None}, t \in SUBSET Slots}

TypeOK ==
  /\ open \in BOOLEAN /\ established \in BOOLEAN /\ secret \in BOOLEAN
  /\ pairing \in [index : Slots, key : Nat] \union {None}
  /\ key \in Nat /\ iv \in Nat
  /\ call \in Calls /\ result \in Results
  /\ card \in [key : Nat, iv : Nat, slots : [Slots -> Nat \union {None}], ours : BOOLEAN]
  /\ keys \in Nat /\ pairings \in Nat /\ ivs \in Nat
  /\ genuine \in BOOLEAN /\ carried \in BOOLEAN

Init ==
  /\ open = FALSE /\ established = FALSE /\ secret = FALSE
  /\ pairing = None /\ key = NoKey /\ iv = 0
  /\ call = Idle /\ result = "none"
  /\ card \in [key : {NoKey}, iv : {0}, slots : [Slots -> {None, Foreign}], ours : {FALSE}]
  /\ keys = 0 /\ pairings = 0 /\ ivs = 0
  /\ genuine = FALSE /\ carried = FALSE
-----------------------------------------------------------------------------
(***************************************************************************)
(* The card, external.  card.key is NoKey without a session this channel   *)
(* could share; card.ours says that the last PAIR challenge the card gave  *)
(* was answered to this client.                                            *)
(***************************************************************************)
SessionLost == [card EXCEPT !.key = NoKey]

\* The IV after the n-th message of an exchange: a MAC, which is as fresh as the
\* random input of the session it chains from.
update_iv(n) == ivs + n

\* The card executed a sealed command that leaves it with these slots.
Executed(slots) == [card EXCEPT !.iv = update_iv(2), !.slots = slots]

\* Another client of the reader, or a reset of the card, between two exchanges.
OtherClient ==
  /\ \/ card' = [SessionLost EXCEPT !.ours = FALSE] /\ UNCHANGED call
     \/ \E i \in Slots :
          /\ card.slots[i] = None
          /\ card' = [SessionLost EXCEPT !.slots[i] = Foreign, !.ours = FALSE]
          /\ call' = IF call.op = "unpair_others"
                       THEN [call EXCEPT !.taken = @ \union {i}] ELSE call
     \/ \E i \in Slots :
          /\ card' = [SessionLost EXCEPT !.slots[i] = None]
          /\ UNCHANGED call
  /\ UNCHANGED <<session, secret, pairing, result, drawn, history>>
-----------------------------------------------------------------------------
(***************************************************************************)
(* One exchange: protected_command followed by transmit.  r is what the    *)
(* caller gets: "ok" and "status" for a response with SW 9000 or another,  *)
(* "error" for Err, "garbled" for a response decrypted under an IV its     *)
(* sender did not use, which the MAC does not notice.  slots are the       *)
(* card's slots if it executes the command.                                *)
(*                                                                         *)
(* iv is left alone when the channel closes: it is only read while open,   *)
(* and opening overwrites it.                                              *)
(***************************************************************************)
Close == open' = FALSE /\ UNCHANGED iv

\* The card reads a sealed command only in the session it was sealed in.
ExecutedIf(slots) == IF open /\ card.key = key THEN {Executed(slots)} ELSE {}

BugSendFails(slots) ==   \* a lost exchange leaves the session open
  /\ UNCHANGED open /\ iv' = update_iv(1)
  /\ card' \in {card} \union ExecutedIf(slots)

\* The request or the response was lost.
SendFails(slots) == Close /\ card' \in {card} \union ExecutedIf(slots)

\* SW 6982: the card has no such session, or wants one.
SecurityConditionNotSatisfied == Close /\ card' \in {card, SessionLost}

BugUndecipherable(slots) ==   \* a bad MAC is an Err and nothing else
  /\ open /\ UNCHANGED <<open, iv>>
  /\ card' \in {card, SessionLost} \union ExecutedIf(slots)

\* Too short (as is any other status word), damaged, or sealed otherwise.
Undecipherable(slots) ==
  /\ open /\ Close
  /\ card' \in {card, SessionLost} \union ExecutedIf(slots)

\* The response verifies.  One without a status word inside is an Err that
\* leaves the session open.
Unwrapped(slots, r) ==
  /\ open /\ card.key = key
  /\ iv' = update_iv(2) /\ UNCHANGED open
  /\ IF card.iv = iv THEN r \in {"ok", "status", "error"} ELSE r = "garbled"
  /\ card' = Executed(IF r = "ok" THEN slots ELSE card.slots)

\* On a channel that was never established the exchange is in plaintext; the
\* card changes no slot without a session.
PlaintextAnswer(slots, r) ==
  /\ ~open
  /\ r \in IF slots = card.slots THEN {"ok", "status"} ELSE {"status"}
  /\ UNCHANGED <<open, iv, card>>

\* protected_command refuses on a channel that was established and is closed.
Refused == ~open /\ established

exchange(slots, r) ==
  /\ ~Refused
  /\ ivs' = IF open THEN ivs + 2 ELSE ivs
  /\ \/ r = "error" /\ (SendFails(slots) \/ Undecipherable(slots))
     \/ r = "status" /\ SecurityConditionNotSatisfied
     \/ Unwrapped(slots, r)
     \/ PlaintextAnswer(slots, r)
  /\ UNCHANGED <<key, secret, pairing, keys, pairings, genuine>>

\* Bound: a call begins if IVs are left for so many sealed exchanges.
RoomFor(exchanges) == ivs + 2 * exchanges <= MaxIVs

\* A protected command of KeycardCommandSet that leaves the slots alone.
send_protected ==
  /\ call = Idle /\ RoomFor(1)
  /\ \E r \in Answers :
       /\ exchange(card.slots, r)
       /\ result' = r
       /\ carried' = (carried \/ (open /\ r = "ok"))
  /\ UNCHANGED <<established, call>>
-----------------------------------------------------------------------------
(***************************************************************************)
(* Opening.                                                                *)
(***************************************************************************)
generate_secret ==
  /\ call = Idle /\ ~secret /\ secret' = TRUE
  /\ UNCHANGED <<session, pairing, call, result, card, drawn, history>>

\* A pairing the client had stored, still valid or not.
set_pairing(p) ==
  /\ call = Idle /\ pairing' = p
  /\ UNCHANGED <<session, secret, call, result, card, drawn, history>>

\* An OPEN SECURE CHANNEL without a usable response, or sent by itself.
open_secure_channel ==
  /\ call = Idle
  /\ Close /\ result' = "error"
  /\ card' \in {card, SessionLost}
  /\ UNCHANGED <<established, key, secret, pairing, call, drawn, history>>

\* First exchange of auto_open.  Both ends derive the session key from the ECDH
\* secret, the pairing key and the card's salt: the keys agree if the card's
\* slot holds the pairing key and the response arrived undamaged.
process_open_response ==
  /\ call = Idle /\ secret /\ pairing # None
  /\ keys < MaxKeys /\ ivs + 1 + 2 <= MaxIVs
  /\ keys' = keys + 1 /\ ivs' = ivs + 1
  /\ key' = keys' /\ iv' = ivs'
  /\ open' = TRUE
  /\ genuine' \in {FALSE, card.slots[pairing.index] = pairing.key}
  /\ card' = [card EXCEPT !.key = IF genuine' THEN keys' ELSE NoKey, !.iv = ivs']
  /\ call' = [op |-> "auto_open"]
  /\ UNCHANGED <<established, secret, pairing, result, pairings, carried>>

\* Second exchange of auto_open: check_ok, then the length of the card's data.
mutually_authenticate ==
  /\ call.op = "auto_open" /\ call' = Idle
  /\ \E r \in Answers :
       /\ exchange(card.slots, r)
       /\ \/ r \in {"ok", "garbled"} /\ established' = TRUE /\ result' = "ok"
          \/ UNCHANGED established /\ result' = "error"
  /\ UNCHANGED carried

reset ==
  /\ call = Idle
  /\ open' = FALSE /\ established' = FALSE
  /\ key' = NoKey /\ iv' = 0
  /\ carried' = FALSE
  /\ UNCHANGED <<secret, pairing, call, result, card, drawn, genuine>>
-----------------------------------------------------------------------------
(***************************************************************************)
(* Pairing: two PAIR commands in plaintext, sent through transmit.  On an  *)
(* open channel transmit takes the answer for a sealed one, and closes.    *)
(* after is the card once it executed the command.                         *)
(***************************************************************************)
pair(after, r) ==
  /\ \/ r = "error" /\ Close /\ card' \in {card, after}
     \/ r = "status" /\ Close /\ UNCHANGED card
     \/ r = "ok" /\ ~open /\ Close /\ card' = after
  /\ UNCHANGED <<established, key, secret, keys, ivs, history>>

\* First exchange of auto_pair.  A card that does not know the shared secret
\* fails the check of its cryptogram: "ok" and the call ends all the same.
auto_pair ==
  /\ call = Idle /\ pairings < MaxPairings
  /\ \E r \in {"ok", "status", "error"} :
       /\ pair([card EXCEPT !.ours = TRUE], r)
       /\ \/ r = "ok" /\ call' = [op |-> "auto_pair"] /\ UNCHANGED result
          \/ UNCHANGED call /\ result' = "error"
  /\ UNCHANGED <<pairing, pairings>>

\* Second exchange: the card puts the new pairing in a free slot.  The client
\* learns of it by the response only, and stores it if that is long enough.
auto_pair_confirm ==
  /\ call.op = "auto_pair" /\ call' = Idle
  /\ pairings' = pairings + 1
  /\ \/ \E i \in Slots, r \in {"ok", "error"} :
          /\ card.ours /\ card.slots[i] = None
          /\ pair([card EXCEPT !.slots[i] = pairings', !.ours = FALSE], r)
          /\ \/ r = "ok" /\ result' = "ok" /\ pairing' = [index |-> i, key |-> pairings']
             \/ result' = "error" /\ UNCHANGED pairing
     \/ pair(card, "status") /\ result' = "error" /\ UNCHANGED pairing

Without(i) == [card.slots EXCEPT ![i] = None]

\* The status word of the card's answer is not looked at.
auto_unpair ==
  /\ call = Idle /\ pairing # None /\ RoomFor(1)
  /\ \E r \in Answers :
       /\ exchange(Without(pairing.index), r)
       /\ result' = IF r = "error" THEN "error" ELSE "unpaired"
  /\ UNCHANGED <<established, call, carried>>

BugSkip(i, keep) == IF i = keep THEN i + 2 ELSE i   \* skips a neighbour as well

Skip(i, keep) == IF i = keep THEN i + 1 ELSE i

unpair_others ==
  /\ call = Idle /\ RoomFor(MaxClients)
  /\ LET keep == IF pairing = None THEN None ELSE pairing.index
     IN  call' = Unpairing(Skip(0, keep), keep, {})
  /\ UNCHANGED <<session, secret, pairing, result, card, drawn, history>>

BugUnpairNext ==   \* the answer of the card is not checked
  /\ call.op = "unpair_others" /\ call.next < MaxClients
  /\ \E r \in Answers :
       /\ exchange(Without(call.next), r)
       /\ call' = [call EXCEPT !.next = Skip(@ + 1, call.keep)]
  /\ UNCHANGED <<established, result, carried>>

BugRetries ==   \* a turn that fails is tried again
  /\ call.op = "unpair_others" /\ call.next < MaxClients
  /\ \E r \in Answers :
       /\ exchange(Without(call.next), r)
       /\ call' = IF r \in {"ok", "garbled"}
                    THEN [call EXCEPT !.next = Skip(@ + 1, call.keep)] ELSE call
  /\ UNCHANGED <<established, result, carried>>

\* One turn of the loop: anything but an answer with SW 9000 ends it.
unpair_next ==
  /\ call.op = "unpair_others" /\ call.next < MaxClients
  /\ \E r \in Answers :
       /\ exchange(Without(call.next), r)
       /\ IF r \in {"ok", "garbled"}
            THEN call' = [call EXCEPT !.next = Skip(@ + 1, call.keep)] /\ UNCHANGED result
            ELSE call' = Idle /\ result' = "error"
  /\ UNCHANGED <<established, carried>>

\* The loop is over, or the channel refuses its first command.
unpair_others_returns ==
  /\ call.op = "unpair_others" /\ call' = Idle
  /\ \/ call.next = MaxClients /\ result' = "ok"
     \/ call.next < MaxClients /\ Refused /\ result' = "error"
  /\ UNCHANGED <<session, secret, pairing, card, drawn, history>>
-----------------------------------------------------------------------------
Next ==
  \/ OtherClient
  \/ generate_secret
  \/ \E p \in [index : Slots, key : 1 .. pairings] : set_pairing(p)
  \/ open_secure_channel
  \/ process_open_response
  \/ mutually_authenticate
  \/ reset
  \/ send_protected
  \/ auto_pair
  \/ auto_pair_confirm
  \/ auto_unpair
  \/ unpair_others
  \/ unpair_next
  \/ unpair_others_returns

\* A call in progress takes its next step: every exchange ends, with a response
\* or with an error of the reader.
Continue ==
  mutually_authenticate \/ auto_pair_confirm \/ unpair_next \/ unpair_others_returns

Spec == Init /\ [][Next]_vars /\ WF_vars(Continue)
-----------------------------------------------------------------------------
(***************************************************************************)
(* Properties.                                                             *)
(***************************************************************************)

\* While the channel is open and the card still holds its key, both ends are at
\* the same IV between exchanges, so that no command and no answer is garbled:
\* every exchange that may have moved one end alone has closed the channel.
InStep ==
  /\ open /\ card.key = key => card.iv = iv
  /\ result # "garbled"

\* Once auto_open has returned, with Ok or with Err, a channel that is open
\* shares its key with a card that holds the pairing: mutual authentication
\* leaves no channel open with a key the card did not derive.
OpenIsAuthenticated == open /\ call = Idle => genuine

\* unpair_others returns Ok only when every slot but its own is free, except
\* those another client took while it ran, and it frees its own in no step.
UnpairsTheOthers ==
  [][call.op = "unpair_others" =>
       /\ call' = Idle /\ result' = "ok" /\ call.next = MaxClients =>
            \A i \in Slots \ {call.keep} : card.slots[i] = None \/ i \in call.taken
       /\ unpair_next /\ call.keep # None =>
            card'.slots[call.keep] = card.slots[call.keep]]_vars

\* A call of several exchanges returns, whatever the card answers, whatever is
\* lost and whatever another client does to the card between its exchanges.
CallsReturn == call # Idle ~> call = Idle

\* "established" keeps a closed channel from sending plaintext "once the session
\* has previously carried protected traffic" (its comment in v1.rs).
RefusesAfterTraffic == carried /\ ~open => established
=============================================================================
