----------------------------- MODULE Selection -----------------------------
(***************************************************************************)
(* SELECT of keycard.rs in detail, in place of the select_with_index of    *)
(* KeycardCommandSet: the card's response, its parser                      *)
(* (parsing/application_info.rs), and the decision by version,             *)
(* capabilities and certificate which secure channel to install.           *)
(*                                                                         *)
(* The responses are those of the applet's generations, as the parser's    *)
(* comments and tests describe them.  One that does not parse changes      *)
(* nothing.                                                                *)
(***************************************************************************)
EXTENDS KeycardCommandSet, BerTlv

CONSTANTS
  Applet,       \* of each card: its version, capabilities, keys, certificate
  CardStates,   \* what SELECT may tell of a card that changes
  CAs,          \* ca_public_keys
  Whitelisted   \* whitelisted_card_public_keys

VARIABLES
  parsed,  \* the field info of KeycardCommandSet
  told     \* what the card that was selected last told about itself

selection_vars == <<vars, parsed, told>>

SECURE_CHANNEL == 1
CREDENTIALS_MANAGEMENT == 4
ALL == 31
INITIALIZED == 16

Bit(flags, b) == (flags \div b) % 2 = 1
Fits(n, size) == n \in Nat /\ n < size

\* 4.0 and 2.0, major in the upper byte
V4 == 1024
V2 == 512

SecureApplet(c) == Bit(Applet[c].capabilities, SECURE_CHANNEL)
CertifiedBy(c, cas) == Applet[c].issuer \in cas

\* Version and capabilities are a u16 and a u8; the tries share a byte with the
\* flag INITIALIZED.  Applets without the capabilities field have them all.
ASSUME AppletAssumption ==
  /\ \A c \in Cards :
       /\ Fits(Applet[c].version, 65536) /\ Applet[c].initialized \in BOOLEAN
       /\ Fits(Applet[c].capabilities, 256)
       /\ Applet[c].version < V2 => Applet[c].capabilities = ALL
  /\ \A state \in CardStates :
       state.keyed \in BOOLEAN /\ Fits(state.tries, 16) /\ Fits(state.slots, 256)

\* The sets of KeycardCommandSet are what these applets make of the cards.
ASSUME CardsOfApplets ==
  /\ PlainCards = {c \in Cards : ~SecureApplet(c)}
  /\ V2Cards = {c \in Cards : SecureApplet(c) /\ Applet[c].version >= V4}
  /\ Trusted = {c \in V2Cards : Applet[c].issuer # None /\
                                 (CertifiedBy(c, CAs) \/ c \in Whitelisted)}
-----------------------------------------------------------------------------
(***************************************************************************)
(* The applet's response, external.  Up to version 3 an applet without     *)
(* PIN answers with its public key alone, or with an empty one; later ones *)
(* always with the template.                                               *)
(***************************************************************************)
SelectResponse(c, state) ==
  LET a == Applet[c]
      legacy == a.version < V4
      key == Bytes(IF SecureApplet(c) THEN 65 ELSE 0, c)
      status == (IF a.initialized THEN INITIALIZED ELSE 0) + IF legacy THEN 0 ELSE state.tries
  IN  IF legacy /\ ~a.initialized THEN write_primitive(TLV.PUB_KEY, key)
      ELSE write_constructed(TLV.APPLICATION_INFO_TEMPLATE,
             When(legacy, write_primitive(TLV.UID, Bytes(16, c)))
             \o When(legacy, write_primitive(TLV.PUB_KEY, key))
             \o write_primitive(TLV.INT, Bytes(2, a.version))
             \o When(~legacy, write_primitive(TLV.STATUS, Bytes(1, status)))
             \o When(legacy, write_primitive(TLV.INT, Bytes(1, state.slots)))
             \o write_primitive(TLV.KEY_UID, Bytes(IF state.keyed THEN 32 ELSE 0, c))
             \o When(a.version >= V2, write_primitive(TLV.CAPABILITIES, Bytes(1, a.capabilities)))
             \o When(a.issuer # None, write_primitive(TLV.CERT, Bytes(98, [ident |-> c, ca |-> a.issuer]))))
-----------------------------------------------------------------------------
(***************************************************************************)
(* ApplicationInfo.                                                        *)
(***************************************************************************)

\* A card that is not initialized answers with its public key alone.
uninitialized_from_tlv(key) ==
  [initialized |-> FALSE, pub_key |-> key, app_version |-> 0, free_pairing_slots |-> 0,
   key_uid |-> Bytes(0, None), status |-> 0, cert_data |-> Absent,
   capabilities |-> CREDENTIALS_MANAGEMENT + IF key.size > 0 THEN SECURE_CHANNEL ELSE 0]

read_template(items) ==
  Start(items)
  & enter_constructed(TLV.APPLICATION_INFO_TEMPLATE)
  & Optional(TLV.UID, AnySize) & Optional(TLV.PUB_KEY, AnySize) & read_integer
  & Optional(TLV.STATUS, Nat \ {0}) & Optional(TLV.INT, 1 .. 4)
  & Required(TLV.KEY_UID, AnySize) & Optional(TLV.CAPABILITIES, Nat \ {0})
  & Optional(TLV.CERT, AnySize)

Default(value, default) == IF value = Absent THEN default ELSE value.of

BugTemplate(values) ==   \* an applet without the status field is not initialized
  LET status == Default(values[5], 0)
  IN  [initialized |-> Bit(status, INITIALIZED), pub_key |-> values[3],
       app_version |-> values[4].of % 65536,
       free_pairing_slots |-> Default(values[6], 0) % 256,
       key_uid |-> values[7], status |-> status, cert_data |-> values[9],
       capabilities |-> Default(values[8], ALL)]

template_from_tlv(values) ==
  LET status == Default(values[5], INITIALIZED)
  IN  [initialized |-> Bit(status, INITIALIZED), pub_key |-> values[3],
       app_version |-> values[4].of % 65536,
       free_pairing_slots |-> Default(values[6], 0) % 256,
       key_uid |-> values[7], status |-> status, cert_data |-> values[9],
       capabilities |-> Default(values[8], ALL)]

from_tlv(items) ==
  LET key == read_primitive(items, TLV.PUB_KEY)
      template == read_template(items)
  IN  IF next_tag_is(items, TLV.PUB_KEY)
        THEN IF key = Err THEN Err ELSE uninitialized_from_tlv(key)
      ELSE IF template = Err THEN Err ELSE template_from_tlv(template.values)

ApplicationInfo ==
  [c \in Cards |-> [state \in CardStates |-> from_tlv(SelectResponse(c, state))]]

has_secure_channel(info_) == Bit(info_.capabilities, SECURE_CHANNEL)
has_master_key(info_) == info_.key_uid.size > 0
pin_retries(info_) == IF info_.app_version < V4 THEN None ELSE info_.status % 16
-----------------------------------------------------------------------------
(***************************************************************************)
(* What select_with_index does with it.                                    *)
(***************************************************************************)
BugIsV2(info_) == info_.app_version > V4   \* version 4.0 itself is left out

is_secure_channel_v2(info_) == info_.app_version >= V4

\* Certificate::from_tlv recovers the CA's key from 98 bytes or more.
certificate(data) == IF data.size < 98 THEN Err ELSE data.of

is_card_trusted(cert) == cert.ca \in CAs \/ cert.ident \in Whitelisted

BugInstallV2(info_) ==   \* installs the channel, then checks the certificate
  Install(New("V2", IF info_.cert_data = Absent THEN None ELSE info_.cert_data.of.ident))

install_v2(info_) ==
  LET cert == certificate(info_.cert_data)
  IN  \/ /\ info_.cert_data = Absent /\ Install(New("V2", None))
      \/ /\ info_.cert_data # Absent
         /\ IF cert # Err /\ is_card_trusted(cert)
              THEN Install(New("V2", cert.ident))
              ELSE UNCHANGED <<channel, peer>>

BugInstallV1(info_) ==   \* keeps the bytes of the response for the secret
  Install(New("V1", info_.pub_key))

install_v1(info_) ==
  Install(New("V1", IF info_.pub_key = Absent THEN None ELSE info_.pub_key.of))

install(info_) ==
  \/ ~has_secure_channel(info_) /\ UNCHANGED <<channel, peer>>
  \/ has_secure_channel(info_) /\ is_secure_channel_v2(info_) /\ install_v2(info_)
  \/ has_secure_channel(info_) /\ ~is_secure_channel_v2(info_) /\ install_v1(info_)

select ==
  /\ ~init
  /\ \E state \in CardStates :
       LET answer == ApplicationInfo[card][state]
       IN  /\ answer # Err
           /\ info' = card /\ parsed' = answer /\ told' = state
           /\ install(answer)
  /\ UNCHANGED <<card, init, sent>>
-----------------------------------------------------------------------------
SelectionInit == Init /\ parsed = Absent /\ told = Absent

SelectionNext ==
  \/ select
  \/ /\ \/ Swap
        \/ auto_open_secure_channel
        \/ pair
        \/ protected
        \/ init_v2
        \/ init_v2_send
        \/ init_v1
     /\ UNCHANGED <<parsed, told>>

SelectionSpec == SelectionInit /\ [][SelectionNext]_selection_vars
-----------------------------------------------------------------------------
(***************************************************************************)
(* Properties.                                                             *)
(***************************************************************************)

\* SELECT's parser and its choice of a channel do what KeycardCommandSet says:
\* the channel is of the card's own version and for its own identity, and what
\* the certificate does not vouch for leaves the channel as it was.
CommandSet == Spec

\* app_info() tells of the card that was selected last what that card said of
\* itself, whichever fields its generation leaves out: an applet is never taken
\* for one of another version, for one that has no PIN, key or tries left, or for
\* one that has.  The response of every applet parses.
InfoIsTrue ==
  /\ \A c \in Cards, state \in CardStates : ApplicationInfo[c][state] # Err
  /\ told # Absent =>
    LET a == Applet[info]
    IN  /\ parsed # Absent
        /\ parsed.initialized <=> a.initialized
        /\ has_secure_channel(parsed) <=> SecureApplet(info)
        /\ a.initialized \/ a.version >= V4 =>
             /\ parsed.app_version = a.version
             /\ has_master_key(parsed) <=> told.keyed
             /\ pin_retries(parsed) = IF a.version < V4 THEN None ELSE told.tries
             /\ parsed.free_pairing_slots = IF a.version < V4 THEN told.slots ELSE 0
=============================================================================
