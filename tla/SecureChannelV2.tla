-------------------------- MODULE SecureChannelV2 --------------------------
(***************************************************************************)
(* The Secure Channel V2 of secure_channel/v2.rs: one authenticated        *)
(* handshake, then commands sealed with AES-CCM under a counter nonce.     *)
(*                                                                         *)
(* The caller uses the public trait as it likes: it may build several      *)
(* commands before it transmits one, transmit the same command again,      *)
(* transmit it after the channel was reopened, or never.  The card and the *)
(* PC/SC link between them are external: a request or a response may be    *)
(* lost, a response may be damaged, the card may be reset, swapped, or     *)
(* taken over by another client between any two calls.                     *)
(*                                                                         *)
(* A key pair (key_h2c, key_c2h) is one number, fresh for every handshake  *)
(* because both sides contribute fresh ephemeral keys; NoKey is None.      *)
(* Payloads are left out, and with them the limit on their length.         *)
(*                                                                         *)
(* An operator named Bug... is not part of the model: it is a plausible    *)
(* mistake in the definition that follows it, used to show that a property *)
(* would notice.                                                           *)
(***************************************************************************)
EXTENDS Naturals, Sequences

CONSTANTS
  Cards,          \* card identity keys
  None,           \* Rust's None
  NonceModulus,   \* the counter counts modulo this: 256^13 in the code
  MaxKeys,        \* bound on handshakes that reach key derivation
  MaxCmds         \* bound on commands built

ASSUME NoneAssumption == None \notin Nat /\ None \notin Cards
ASSUME NonceModulusAssumption == NonceModulus \in Nat \ {0}
ASSUME BoundsAssumption == MaxKeys \in Nat /\ MaxCmds \in Nat

VARIABLES
  open, established,   \* the fields of SecureChannelV2
  key, nonce, pending, \* key_h2c/key_c2h, nonce_counter, pending_decrypt_nonce
  identPub,            \* card_ident_pub
  card,                \* the card in the reader: identity, session key, nonce
  keys,                \* how many key pairs have been derived so far
  cmds,                \* every ApduCommand built, all still in the caller's hands
  decrypts,            \* every (key, nonce) handed to decrypt_ccm, in order
  result               \* what the last transmit returned

host == <<open, established, key, nonce, pending, identPub>>
vars == <<host, card, keys, cmds, decrypts, result>>

NoKey == 0
Nonces == 0 .. NonceModulus - 1
Results == {"none", "answer", "plain", "wrapped", "status", "error"}

\* A command or a response: sealed under a key with a nonce, or plaintext.
Message == [key : Nat, nonce : Nonces \union {None}]
Plaintext == [key |-> NoKey, nonce |-> None]
Sealed(m) == m.key # NoKey

TypeOK ==
  /\ open \in BOOLEAN /\ established \in BOOLEAN
  /\ key \in Nat /\ nonce \in Nonces /\ pending \in Nonces \union {None}
  /\ identPub \in Cards \union {None}
  /\ card \in [id : Cards, key : Nat, nonce : Nonces]
  /\ keys \in Nat
  /\ cmds \in Seq(Message)
  /\ decrypts \in Seq(Nat \X Nonces)
  /\ result \in Results

Init ==
  /\ open = FALSE /\ established = FALSE
  /\ key = NoKey /\ nonce = 0 /\ pending = None
  /\ identPub = None
  /\ card \in [id : Cards, key : {NoKey}, nonce : {0}]
  /\ keys = 0
  /\ cmds = <<>> /\ decrypts = <<>> /\ result = "none"
-----------------------------------------------------------------------------
(***************************************************************************)
(* The card, external.  NoKey stands for no session, and for one whose key *)
(* this channel does not hold.                                             *)
(***************************************************************************)
WithSession(c, k) == [id |-> c.id, key |-> k, nonce |-> 0]

BugSuccessor(n) == n + 1   \* a counter that never wraps

Successor(n) == (n + 1) % NonceModulus

Accepts(m) == Sealed(m) /\ m.key = card.key /\ m.nonce = card.nonce

\* The card after it executed m.
Executed(m) ==
  IF Accepts(m) THEN [card EXCEPT !.nonce = Successor(@)] ELSE card

\* A card may lose its session when it refuses a command.
Refused == {card, WithSession(card, NoKey)}

\* The reader lost power, the card was swapped, or another client of the
\* reader opened a session of its own.
CardDisturbed ==
  /\ card' \in {WithSession([card EXCEPT !.id = c], NoKey) : c \in Cards}
  /\ UNCHANGED <<host, keys, cmds, decrypts, result>>
-----------------------------------------------------------------------------
(***************************************************************************)
(* Opening.                                                                *)
(***************************************************************************)

\* The identity is stored before the certificate is found trusted or not, so
\* the Result of the call changes nothing here.
set_card_certificate(c) ==
  /\ identPub' = c
  /\ UNCHANGED <<open, established, key, nonce, pending>>
  /\ UNCHANGED <<card, keys, cmds, decrypts, result>>

BugOpenForgets ==   \* a new attempt to open forgets the previous session
  /\ open' = FALSE /\ established' = FALSE
  /\ card' \in Refused
  /\ UNCHANGED <<key, nonce, pending, identPub>>
  /\ UNCHANGED <<keys, cmds, decrypts, result>>

\* A request that leads to no open channel: it was lost, the card refused, the
\* response was too short or held no point, or the caller sent it by itself and
\* did the key agreement elsewhere.  A card that served it holds a key the
\* channel does not.
open_secure_channel ==
  /\ open' = FALSE
  /\ card' \in Refused
  /\ UNCHANGED <<established, key, nonce, pending, identPub>>
  /\ UNCHANGED <<keys, cmds, decrypts, result>>

BugVerify(intact) == intact   \* the signature of any card will do

\* The signature of the card in the reader verifies under card_ident_pub.
verify_card_signature(intact) == intact /\ identPub = card.id

\* auto_open with a response to process.  Keys are stored before the
\* signature is checked; the card shares them unless its point was damaged.
process_handshake_response(shared, intact) ==
  /\ keys < MaxKeys
  /\ intact => shared
  /\ keys' = keys + 1
  /\ key' = keys'
  /\ card' = WithSession(card, IF shared THEN keys' ELSE NoKey)
  /\ IF verify_card_signature(intact)
       THEN /\ nonce' = 0
            /\ open' = TRUE
            /\ established' = TRUE
       ELSE /\ open' = FALSE
            /\ UNCHANGED <<nonce, established>>
  /\ UNCHANGED <<pending, identPub, cmds, decrypts, result>>

reset ==
  /\ open' = FALSE /\ established' = FALSE
  /\ key' = NoKey /\ nonce' = 0 /\ pending' = None
  /\ identPub' = None
  /\ UNCHANGED <<card, keys, cmds, decrypts, result>>
-----------------------------------------------------------------------------
(***************************************************************************)
(* Building a command.  A closed channel that was established refuses,     *)
(* which changes nothing.                                                  *)
(***************************************************************************)
PassThrough ==
  /\ ~open /\ ~established
  /\ cmds' = Append(cmds, Plaintext)
  /\ UNCHANGED host

BugSeal ==   \* the session outlives the wrap of its counter
  /\ open
  /\ cmds' = Append(cmds, [key |-> key, nonce |-> nonce])
  /\ pending' = nonce
  /\ nonce' = Successor(nonce)
  /\ UNCHANGED <<open, established, key, identPub>>

\* The counter advances with the encryption; when it wraps the session ends.
Seal ==
  /\ open
  /\ cmds' = Append(cmds, [key |-> key, nonce |-> nonce])
  /\ pending' = nonce
  /\ nonce' = Successor(nonce)
  /\ open' = (nonce' # 0)
  /\ UNCHANGED <<established, key, identPub>>

protected_command ==
  /\ Len(cmds) < MaxCmds
  /\ PassThrough \/ Seal
  /\ UNCHANGED <<card, keys, decrypts, result>>
-----------------------------------------------------------------------------
(***************************************************************************)
(* Transmitting a command: what comes back, and what transmit does with    *)
(* it.  The pending nonce is consumed in every case.                       *)
(***************************************************************************)
Close == open' = FALSE /\ UNCHANGED decrypts
Keep == UNCHANGED <<open, decrypts>>

BugSendFails(m) ==   \* a lost exchange leaves the session open
  /\ card' \in {card, Executed(m)}
  /\ Keep /\ result' = "error"

\* The request or the response was lost.
SendFails(m) ==
  /\ card' \in {card, Executed(m)}
  /\ Close /\ result' = "error"

\* A status word other than 9000.
StatusReturned ==
  /\ card' \in Refused
  /\ Close /\ result' = "status"

\* The card executed m; the response is sealed if and only if m was.
Responds(m) == (Accepts(m) \/ ~Sealed(m)) /\ card' = Executed(m)

\* On a channel that is not open the body is handed over as it came.
RawReturned(m) ==
  /\ Responds(m) /\ ~open
  /\ Keep /\ result' = IF Sealed(m) THEN "wrapped" ELSE "plain"

NothingPending(m) ==
  /\ Responds(m) /\ open /\ pending = None
  /\ Close /\ result' = "error"

decrypt_ccm(m, n) == m.key = key /\ m.nonce = n

Unwrap(m, intact) ==
  /\ Responds(m) /\ open /\ pending # None
  /\ decrypts' = Append(decrypts, <<key, pending>>)
  /\ IF intact /\ decrypt_ccm(m, pending)
       \* "error": a body too short to hold a status word; the session stays open
       THEN UNCHANGED open /\ result' \in {"answer", "error"}
       ELSE open' = FALSE /\ result' = "error"

BugTransmit(m) ==   \* the pending nonce is read, not taken
  /\ \/ SendFails(m)
     \/ StatusReturned
     \/ RawReturned(m)
     \/ NothingPending(m)
     \/ \E intact \in BOOLEAN : Unwrap(m, intact)
  /\ UNCHANGED <<established, key, nonce, pending, identPub, keys, cmds>>

transmit(m) ==
  /\ \/ SendFails(m)
     \/ StatusReturned
     \/ RawReturned(m)
     \/ NothingPending(m)
     \/ \E intact \in BOOLEAN : Unwrap(m, intact)
  /\ pending' = None
  /\ UNCHANGED <<established, key, nonce, identPub, keys, cmds>>
-----------------------------------------------------------------------------
auto_open ==
  \/ open_secure_channel
  \/ \E shared, intact \in BOOLEAN : process_handshake_response(shared, intact)

Transmit == \E i \in DOMAIN cmds : transmit(cmds[i])

Next ==
  \/ CardDisturbed
  \/ \E c \in Cards : set_card_certificate(c)
  \/ auto_open
  \/ reset
  \/ protected_command
  \/ Transmit

Spec == Init /\ [][Next]_vars
-----------------------------------------------------------------------------
(***************************************************************************)
(* Properties.                                                             *)
(***************************************************************************)

\* No two commands are ever encrypted under the same key with the same nonce,
\* whatever fails, is retried, is reopened or overflows in between
\* (protected_command advances nonce_counter before the round trip).
NonceNeverReused ==
  \A i, j \in DOMAIN cmds :
    Sealed(cmds[i]) /\ cmds[i] = cmds[j] => i = j

\* No nonce is handed to decrypt_ccm twice under one key (transmit takes
\* pending_decrypt_nonce whether or not the exchange succeeds).
NonceDecryptedOnce ==
  \A i, j \in DOMAIN decrypts : decrypts[i] = decrypts[j] => i = j

\* While the channel is open and the card still holds its key, the two
\* counters agree once nothing waits for a response, and the card is never
\* ahead: the next exchange over a working link succeeds.  Every exchange that
\* could have left them apart has closed the channel.
InStep ==
  open /\ card.key = key =>
    /\ card.nonce <= nonce
    /\ pending = None => card.nonce = nonce

\* A channel becomes open with a new key only when the card in the reader owns
\* card_ident_pub and holds the same key, with both counters at zero and no
\* command ever sealed under that key.
OpeningIsGenuine ==
  open' /\ (~open \/ key' # key) =>
    /\ card'.id = identPub'
    /\ card'.key = key'
    /\ card'.nonce = 0 /\ nonce' = 0
    /\ \A i \in DOMAIN cmds : cmds[i].key # key'

OpensWithItsCard == [][OpeningIsGenuine]_vars

\* The channel keeps the promise of the SecureChannel trait: after it was
\* opened it never falls back to plaintext before a reset that clears its keys.
phase == IF open THEN "secured" ELSE IF established THEN "refusing" ELSE "plaintext"
keyed == key # NoKey
issued == [i \in DOMAIN cmds |-> Sealed(cmds[i])]

Session == INSTANCE SecureSession WITH phase <- phase, keyed <- keyed, issued <- issued

KeepsSession == Session!Spec

\* transmit "Transmits a protected command APDU and unwraps the response"
\* (the SecureChannel trait): it never hands over a body that is still sealed.
NeverReturnsSealedBody == result # "wrapped"
=============================================================================
