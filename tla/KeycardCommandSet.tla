------------------------- MODULE KeycardCommandSet -------------------------
(***************************************************************************)
(* The KeycardCommandSet of keycard.rs: SELECT finds out which applet is   *)
(* there, checks its certificate and installs a secure channel of the      *)
(* right version; INIT and the protected commands go through the channel.  *)
(*                                                                         *)
(* The channels are reduced to what the command set can see of them, whose *)
(* key they hold and whether they are open; SecureChannelV1 and            *)
(* SecureChannelV2 model what they do inside.  A card is its identity: the *)
(* key in its certificate, or the static key a V1 card answers SELECT      *)
(* with.  The card in the reader may be swapped between any two exchanges, *)
(* and the link may lose any of them.                                      *)
(*                                                                         *)
(* An operator named Bug... is a plausible mistake in the definition that  *)
(* follows it, used to show that a property would notice.                  *)
(***************************************************************************)

CONSTANTS
  PlainCards,  \* applets without the secure channel capability
  V1Cards,     \* app_version below 4.0, and uninitialized cards
  V2Cards,     \* app_version 4.0 and above
  Trusted,     \* V2 cards certified by a known CA, or whitelisted
  None         \* Rust's None

Cards == PlainCards \union V1Cards \union V2Cards

ASSUME CardsAssumption ==
  /\ PlainCards \intersect V1Cards = {} /\ PlainCards \intersect V2Cards = {}
  /\ V1Cards \intersect V2Cards = {}
  /\ Trusted \subseteq V2Cards
  /\ None \notin Cards

VARIABLES
  card,     \* the card in the reader
  info,     \* whose SELECT response is cached
  channel,  \* the secure channel installed
  peer,     \* the card that shares the channel's session key
  init,     \* has init opened the channel and not yet sent its command?
  sent      \* every command with the user's secrets that left the host

vars == <<card, info, channel, peer, init, sent>>

\* ident: the card a V2 channel will accept (card_ident_pub), the card a V1
\* channel computed its ECDH secret with (secret).
Channel == [version : {"V1", "V2"}, ident : Cards \union {None},
            paired : BOOLEAN, open : BOOLEAN, established : BOOLEAN]
New(version, ident) == [version |-> version, ident |-> ident,
                        paired |-> FALSE, open |-> FALSE, established |-> FALSE]

\* form: in plaintext, sealed by the session of a card, or encrypted once with
\* the ECDH secret of a card (one_shot_encrypt).
Command == [ins : {"INIT", "other"}, form : {"plain"}, for : {None}]
           \union [ins : {"INIT", "other"}, form : {"sealed", "one shot"}, for : Cards]

TypeOK ==
  /\ card \in Cards
  /\ info \in Cards \union {None}
  /\ channel \in Channel
  /\ peer \in Cards \union {None}
  /\ init \in BOOLEAN
  /\ sent \subseteq Command

Init ==
  /\ card \in Cards
  /\ info = None
  /\ channel = New("V2", None)
  /\ peer = None
  /\ init = FALSE
  /\ sent = {}
-----------------------------------------------------------------------------
\* The user swaps the card.
Swap ==
  /\ card' \in Cards
  /\ UNCHANGED <<info, channel, peer, init, sent>>

-----------------------------------------------------------------------------
(***************************************************************************)
(* SELECT.  A lost exchange, another status word and a response that does  *)
(* not parse change nothing.  The response may lack the certificate, or    *)
(* the public key.                                                         *)
(***************************************************************************)
Install(c) == channel' = c /\ peer' = None

BugSelectV2 ==   \* installs the channel, then looks at the certificate
  /\ card \in V2Cards
  /\ \E ident \in {card, None} : Install(New("V2", ident))

\* set_card_certificate comes first: an error leaves the old channel in place.
select_v2 ==
  /\ card \in V2Cards
  /\ \/ card \in Trusted /\ Install(New("V2", card))
     \/ Install(New("V2", None))
     \/ UNCHANGED <<channel, peer>>

select_v1 ==
  /\ card \in V1Cards
  /\ \E ident \in {card, None} : Install(New("V1", ident))

select_plain == card \in PlainCards /\ UNCHANGED <<channel, peer>>

select_with_index ==
  /\ ~init
  /\ info' = card
  /\ select_v2 \/ select_v1 \/ select_plain
  /\ UNCHANGED <<card, init, sent>>
-----------------------------------------------------------------------------
(***************************************************************************)
(* The secure channel.                                                     *)
(***************************************************************************)
Opened ==
  /\ channel.ident = card
  /\ channel.version = "V1" => channel.paired
  /\ channel' = [channel EXCEPT !.open = TRUE, !.established = TRUE]
  /\ peer' = card

\* A V1 channel whose card answers the mutual authentication with an error
\* stays open with the card's key, though auto_open fails.
HalfOpened ==
  /\ channel.version = "V1" /\ channel.paired /\ channel.ident = card
  /\ channel' = [channel EXCEPT !.open = TRUE]
  /\ peer' = card

\* Also: an exchange failed, or the caller sent the request by itself.
Closed ==
  /\ channel' = [channel EXCEPT !.open = FALSE]
  /\ UNCHANGED peer

NotOpened == Closed \/ HalfOpened \/ UNCHANGED <<channel, peer>>

auto_open_secure_channel ==
  /\ ~init
  /\ Opened \/ NotOpened
  /\ UNCHANGED <<card, info, init, sent>>

\* auto_pair and set_pairing; on an open channel auto_pair closes it.
pair ==
  /\ ~init
  /\ channel.version = "V1"
  /\ channel' \in {[channel EXCEPT !.paired = TRUE], [channel EXCEPT !.open = FALSE]}
  /\ UNCHANGED <<card, info, peer, init, sent>>

\* protected_command refuses, passes through, or seals; transmit may close.
send_protected(ins) ==
  /\ channel.open \/ ~channel.established
  /\ sent' = sent \union
       {IF channel.open THEN [ins |-> ins, form |-> "sealed", for |-> peer]
                        ELSE [ins |-> ins, form |-> "plain", for |-> None]}
  /\ Closed \/ UNCHANGED <<channel, peer>>

\* verify_pin, sign, export_key and the other commands, unpair among them.
protected ==
  /\ ~init
  /\ send_protected("other")
  /\ UNCHANGED <<card, info, init>>
-----------------------------------------------------------------------------
(***************************************************************************)
(* INIT carries PIN, PUK and pairing secret.                               *)
(***************************************************************************)

BugInitV2 ==   \* a channel that did not open is no reason to stop
  /\ ~init /\ channel.version = "V2"
  /\ Opened \/ NotOpened
  /\ init' = TRUE
  /\ UNCHANGED <<card, info, sent>>

init_v2 ==
  /\ ~init /\ channel.version = "V2"
  /\ \/ Opened /\ init' = TRUE
     \/ NotOpened /\ UNCHANGED init
  /\ UNCHANGED <<card, info, sent>>

init_v2_send ==
  /\ init /\ init' = FALSE
  /\ send_protected("INIT")
  /\ UNCHANGED <<card, info>>

BugOneShot(ins) ==   \* encrypts before generate_secret was called
  /\ channel.version = "V1"
  /\ sent' = sent \union {[ins |-> ins, form |-> "one shot", for |-> channel.ident]}

one_shot_encrypt(ins) ==
  /\ channel.version = "V1" /\ channel.ident # None
  /\ sent' = sent \union {[ins |-> ins, form |-> "one shot", for |-> channel.ident]}

init_v1 ==
  /\ ~init
  /\ one_shot_encrypt("INIT")
  /\ UNCHANGED <<card, info, channel, peer, init>>

-----------------------------------------------------------------------------
Next ==
  \/ Swap
  \/ select_with_index
  \/ auto_open_secure_channel
  \/ pair
  \/ protected
  \/ init_v2
  \/ init_v2_send
  \/ init_v1

Spec == Init /\ [][Next]_vars
-----------------------------------------------------------------------------
(***************************************************************************)
(* Properties.                                                             *)
(***************************************************************************)

\* A channel is open only to the card it was installed for, and a V2 channel
\* only to a trusted one, whatever selects failed and whichever cards came and
\* went in between.
OpenOnlyToTrusted ==
  channel.open =>
    /\ peer = channel.ident
    /\ channel.version = "V2" => peer \in Trusted

\* The PIN, the PUK and the pairing secret that INIT carries never leave in
\* plaintext, and never sealed for a V2 card that is not trusted.
InitIsSealed ==
  \A m \in sent : m.ins = "INIT" =>
    \/ m.form = "sealed" /\ m.for \in Trusted
    \/ m.form = "one shot" /\ m.for \in V1Cards
=============================================================================
