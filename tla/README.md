# keycard-rs in TLA+

keycard-rs is a host library for the Keycard smart card. One `KeycardCommandSet`
owns a transport (one APDU at a time), a secure channel and what the last SELECT
returned. Every call is synchronous: the library has no threads, no timers and
no persistent state. What makes it hard is elsewhere:

- the card is a second party with state of its own (session key, nonce or IV,
  pairing slots, current key, NDEF record) that must stay in step with the host
  over a link that loses requests and responses;
- the card can be reset, swapped, or used by another client of the reader
  between any two exchanges, also in the middle of a call that makes several;
- a call of several exchanges can fail after any of them, and what it leaves
  behind is what the next call starts from;
- the public `SecureChannel` trait lets a caller build, keep, drop, repeat and
  reorder commands;
- formats have widths (nonce, P1, P2, wallet numbers) that arithmetic may leave.

## Inventory

| Component (source under `src/`) | State | Operations | What makes it correct |
|---|---|---|---|
| SecureChannel trait (`secure_channel/mod.rs`) | none | open, protect, transmit, reset, pair | once opened, never plaintext again before a reset |
| SecureChannelV2 (`secure_channel/v2.rs`) | `open`, `established`, keys, nonce counter, pending nonce, certificate identity | `set_card_certificate`, `auto_open`, `open_secure_channel`, `protected_command`, `transmit`, `reset` | no CCM nonce twice under a key; host and card in step; opens only to the certified card |
| SecureChannelV1 and pairing (`secure_channel/v1.rs`, `pairing.rs`) | `open`, `established`, secret, pairing, IV | `auto_open`, `auto_pair`, `auto_unpair`, `unpair_others`, exchanges, `one_shot_encrypt`, `reset` | IV chained alike on both ends; no open channel without mutual authentication; slots freed as reported |
| KeycardCommandSet (`keycard.rs`): select, open, init | `info`, the installed channel | `select`, `auto_open_secure_channel`, `auto_pair`, protected commands, `init*` | open only to the selected, trusted card; INIT never in plaintext |
| KeycardCommandSet: PIN, PUK, INIT, status (`keycard.rs`, `parsing/application_status.rs`, `apdu.rs`) | none; the card has PIN, second PIN, PUK, secret, limits and tries | verify, change, unblock PIN; `init*`; status; factory reset | from the results alone the caller knows what the card may accept; INIT sets what was asked |
| KeycardCommandSet: key commands, KeyPath (`keycard.rs`, `parsing/key_path.rs`) | none; the card has a current key and a PIN-less path | sign, derive, export, LEE, BIP85, ECDH, PIN-less path, load, generate, identify | each works with the key its path names, and its answer is parsed as that key's |
| KeycardCommandSet: data storage (`keycard.rs`) | none; the card has the record | `set_ndef`, `store_data` | the record is whole when the call says so |
| Metadata (`metadata.rs`), BER length (`tlv.rs`) | name, wallet set | edit, `to_bytes`, `from_data` | what fits comes back, whatever does not; the decoder's work is bounded |
| ApplicationInfo (`parsing/application_info.rs`), Certificate at SELECT | none | `from_tlv` | version, capabilities and certificate decide which channel is built; every generation of applets is read as what it is |
| TLV reader and writer (`tlv.rs`) | buffer position | read, write | an optional field is absent, not malformed, when the next tag is another's |
| Key pairs, signatures, LEE keys, addresses, mnemonics, identities (`parsing/`) | none | `from_tlv`, `to_tlv`, recover, verify | what is parsed is of the key that was asked; what was exported loads again |
| APDU (`apdu.rs`) | none | serialize, status checks | LC is the length; a wrong PIN is told from another refusal |
| Transport (`channel.rs`, `pcsc.rs`) | connection | send | bytes in, bytes out |
| Constants and errors | none | none | named in the modules that use them |

The command set calls the channel, the channel calls the transport, and the
response travels back through `transmit`; the only shared state is the channel
the command set owns, which `select` replaces.

## Modules

| Module | Models | How |
|---|---|---|
| `SecureSession` | the trait's promise | three phases, *plaintext* (never opened), *secured*, *refusing*, whether session keys are held, and the history of what was issued in plaintext or sealed |
| `SecureChannelV2` | `v2.rs` with card and link | fields of the struct as variables; `cmds` holds every command ever built so that the caller may transmit any of them at any time; `decrypts` records what `decrypt_ccm` was given |
| `SecureChannelV1` | `v1.rs` with card and link | one command at a time, as `KeycardCommandSet` sends them; the calls of several exchanges (`auto_open`, `auto_pair`, `unpair_others`) are split at each exchange, `call` remembers where, and `OtherClient` runs in between; `Continue` is the next step of a call in progress |
| `KeycardCommandSet` | select, open, pair, protected commands and INIT | the channels reduced to version, identity and flags; `sent` records what left the host; `Swap` changes the card in the reader; V2 INIT is two exchanges |
| `BerTlv` | `tlv.rs` | a response is a sequence of items; a parser is one expression in the order of the code: it begins with `Start(items)` and takes a field after the other, optional or required, with its size |
| `Selection`, `MCSelection` | SELECT in detail | the response of each applet generation, its parser with every default, the certificate, and the choice of the channel; the rest of the behaviour is that of `KeycardCommandSet`, whose `Spec` it is checked to implement |
| `Credentials`, `MCCredentials` | INIT, VERIFY, CHANGE and UNBLOCK PIN, GET STATUS, FACTORY RESET | the bytes of each command's data, which the card cuts apart again; status words as numbers; `possible` is what a caller can conclude from results when any exchange may be lost before or after the card executed it |
| `KeyCommands` | path, source, P1 and the card's current key | the host's composition of P1 and data is translated, and the card takes P1 apart as `constants.rs` describes it; `last` relates what was asked with what was done |
| `KeyMaterial` | `KeyCommands` with data and answers | the layout of SIGN's data and of LOAD KEY's template, every form of the card's responses, and the parsers of key pairs, signatures, LEE keys, identities and mnemonics; `got` is what the caller holds and may load again |
| `NdefStorage` | `set_ndef` | one step per chunk (older applets: one step), the card's bytes, lost or refused exchanges, and the length of each command on each channel |
| `Metadata`, `MCMetadata` | `metadata.rs` and the BER length | the encoder and decoder as operators, the object and the card's blob as state |
| `MCSecureChannelV2` | | cards as model values, and the symmetry between them |
| `*_proofs` | | theorems for any values of the constants |

Cryptography is symbolic. A V2 session key is a number, fresh per handshake; a
sealed message opens only under its key and nonce. A V1 IV is a number, fresh
per message, because it is a MAC. `Trusted` stands for the outcome of
`Certificate` and the CA or whitelist check; `Selection` has that check itself. A
key is its root and its path, a public key or a signature is *of* a key, and what
is recovered from a signature under the wrong hash or recovery id is no key.
Payloads are left out of the channel models. The card side is translated from what the host code expects of it, and
each such definition is marked external in the map.

Operators called `Bug...` are not part of the models. Each is a plausible mistake
in the definition it precedes; substituting it makes one named property fail,
which shows the property speaks of the code.

`SecureChannelV2` is checked and proved to implement `SecureSession`: `phase` is
*secured* while `open`, *refusing* when `established` and not open, *plaintext*
otherwise, `keyed` says that `key` is set, and `issued` is read off `cmds`. The
keys are what tells a reset from any other step: a channel that forgot it had
been opened without dropping them would not implement the session. A step of the channel is then a step
of the session or leaves it alone. `SecureChannelV1` does not implement it: see
the findings.

`Selection` is checked and proved to implement `KeycardCommandSet`: where the latter says
"a V2 card's channel is installed with the identity of a trusted card, without
identity, or not at all", the former parses a response and decides. Its own
variables are only what was parsed and what the card had told. In the same way
`KeyMaterial` is proved to implement `KeyCommands`: the answers and what is made
of them never change which key is used.

`from_data` and `to_bytes` are loops, and `Metadata` writes each as a function of
the number of the turn, from the state before the turn to the state after it.

## Runs

| Run | Bounds | Checks |
|---|---|---|
| `v2` | 2 cards (symmetric), 3 nonces, 3 handshakes, 4 commands | `TypeOK`; `NonceNeverReused`; `NonceDecryptedOnce`; `InStep`; `OpensWithItsCard`; `KeepsSession` (refinement of `SecureSession`) |
| `v1` | 3 slots, 2 sessions, 2 pairings, 9 IVs | `TypeOK`; `InStep`; `OpenIsAuthenticated`; `UnpairsTheOthers`; `CallsReturn` (liveness) |
| `command_set` (module `Selection`) | 7 cards: 1 plain, 2 V1, 4 V2 of which one trusted by its CA and one by the whitelist; 2 states a card may tell of; no bound on steps | `TypeOK`; `OpenOnlyToTrusted`; `InitIsSealed`; `InfoIsTrue`; `CommandSet` (refinement of `KeycardCommandSet`) |
| `credentials` | 2 PINs, 2 PUKs, 2 secrets of 1, 2 and 1 bytes, limits 0 to 2; no bound on steps | `TypeOK`; `PinIsKnown`; `TriesAreTheCards`; `InitAsAsked` |
| `key_commands` (module `KeyMaterial`) | 2 path components, paths of 1 (and one too long), keys down to depth 3, 1 seed, 2 CAs, 2 word indexes, `r` and `s` of 31 or 32 bytes; no bound on steps | `TypeOK`; `KeyIsTheNamedOne`; `MovesAsAsked`; `PinlessIsMeant`; `AnswersAreOfTheKey`; `LoadsTheKeyMeant` |
| `ndef` | bytes of 7 values, chunks of 4, units of 2, overheads of 1, 13 bytes on the card, records of 0, 2, 5, 6, 11 and 12 bytes; no bound on calls | `TypeOK`; `StoredWhole`; `TornInOrder`; `ChunksAreFramed`; `Returns` (liveness) |
| `metadata` | bytes of 12 values, limits of 5, headers with room for names of up to 2 bytes, names of 0, 2, 3, 4, 6 and 12 bytes, 6 wallet numbers at the boundaries of the forms, 2 of them too wide; no bound on steps | `TypeOK`; `RoundTrip`; `OnlyWideOnesAreLost`; `Bounded`; and, as an assumption evaluated once, that all 20736 scaled 32-bit numbers are decoded as they were encoded |
| `v2_sealed_body`, `v1_fallback`, `key_material_legacy`, `key_commands_current`, `key_commands_bip85` | as small as the counterexample allows | one property each, violated: the findings below |

Why these bounds are enough to be interesting:

- *v2*: three nonces let the counter wrap within four commands, with one command
  still unsent; three handshakes allow a successful one, a failed one over it,
  and another success; two cards allow a swap after the certificate was stored.
- *v1*: nine IVs are one opening (three) and a whole `unpair_others` (six), or
  three exchanges in its place; a call begins only if IVs are left for all of it,
  so that the bound never stops one halfway. Three slots leave `unpair_others`
  one before and one after its own, and two pairings let a lost confirmation use
  up a slot.
- *command_set*: versions on both sides of 2.0 and 4.0, with and without PIN,
  certificate, known CA and secure channel, so that every default of the parser
  is taken and every swap is to a card of the same or of another kind.
- *credentials*: credentials overlap: a PUK begins like a PIN and a PIN's byte
  may look like a limit, so that data cut at a wrong place is accepted, not
  refused by chance.
- *key_commands*: depth three lets the parent of a derived key differ from the
  master key and from the key itself; relative paths then have three meanings.
  What does not depend on the current key (mnemonics, identities) is asked in its
  initial state only (`Unused`). An `r` or `s` that needs 31 bytes stands for every
  short one: after `to_uint` only the 32 bytes of `recover_public_key` matter. The theorems of `KeyCommands_proofs` cover paths
  of every length.
- *ndef*: a record takes up to three chunks, and may be longer than the card and
  than what P2 can address; like the real 220 and 1024, the chunk is a multiple
  of the unit and does not divide what P2 can address. A chunk with a channel's
  overhead takes all a length byte of 7 values can say: one byte more wraps it.
- *metadata*: the numbers are the last and first of each BER form, adjacent ones
  among them, the first number that does not fit in 32 bits, adjacent to the last
  that does, and one that is cut to a number of the set; names are those that fit
  the header, and longer ones whose length reads as another length of version 1,
  as another version, or as no name at all because it is cut to a byte; blobs of
  other programs are cut short, of another version, at the limits and above, also
  by ranges that overlap and leave few wallets.

Fairness is assumed in two places. `SecureChannelV1` has `WF_vars(Continue)` and
`NdefStorage` has `WF_vars(store_data)`: a call that has begun takes its next
step. The code justifies it because every call is synchronous and every exchange
ends, with a response or with an error of the reader: there is no wait that is
not an exchange. Nothing is assumed of which answer comes: `CallsReturn` and
`Returns` hold although every exchange may fail and although another client may
act, because each failure ends the call and each success moves its loop on. The
library starts nothing by itself, so no other action has fairness, and there is
nothing else that must eventually happen. Deadlock is checked in every run.

## Findings

1. `v2_sealed_body`: `transmit` decides by the state of the channel, not by the
   command, how to read the response (`v2.rs:311`). A command sealed before the
   channel closed and transmitted after returns the card's ciphertext as `Ok`.
2. `v1_fallback`: `auto_open` sets `open` after its first exchange and
   `established` after its second (`v1.rs:156`). If the card answers the second
   with an error inside a valid response, `auto_open` fails and the channel stays
   open but not established; after its next failure commands go out in
   plaintext, which the comment at `v1.rs:46` says cannot happen.
3. `key_material_legacy`: in the legacy form `r` and `s` are integers as long as
   their value needs. One that begins with a zero byte (about one signature in 128
   has such an `r` or `s`) has fewer than 32 bytes, or loses them in `to_uint`, and
   `recover_public_key` takes 32 alone (`signature.rs:191`): a genuine signature is
   refused. The tests of the legacy form sign with a random key and unwrap, so they
   fail as often.
4. `key_commands_current`: `export_current_key` passes "current" (0x00) where a
   source is expected; 0x00 is the master source, `DERIVE` is ORed in, and the
   master key is exported (`keycard.rs:614`, `:646`).
5. `key_commands_bip85`: `export_bip85` drops the source of its path
   (`keycard.rs:705`), so `./x` and `../x` export `m/x`. `ecdh` and
   `set_pinless_path`, which cannot express a source either, refuse such paths.

Seen while modelling, and not stated as properties:

- *Lengths.* LC is one byte (`apdu.rs:43`). A V2 payload of 235 to 255 bytes
  passes the check at `v2.rs:256` and wraps it once sealed; so does a long SET
  NDEF of an applet up to version 2 in plaintext (V1 refuses it).
- *SELECT.* `info` is stored before the certificate is checked, so a rejected
  card's info sits beside the old channel (`keycard.rs:153`); selecting again
  replaces a V1 channel and with it the pairing.
- *INIT.* The lengths of PIN, PUK and secret are not checked, though the card
  cuts the data apart by them.
- *V1.* `auto_unpair` returns `Ok` whatever the card answered (`v1.rs:225`):
  nothing is said of its result. `generate_secret` panics on a malformed key; `sign_pinless`, documented as
  working without a secure channel, is refused once a channel was established
  and closed.
- *Paths.* `set_pinless_path("m")` sends the same empty path as
  `reset_pinless_path`.
- *Keys and signatures.* A key pair of `from_binary_seed`, or one parsed without
  its public key, has a compressed public key: `load_key_bip32` sends it in that
  form, and an Ethereum address computed from it is not the account's. That the card
  takes either form of a public key in LOAD KEY is assumed. `x_only_pubkey`
  panics on other lengths than a public key's. `verify_identity` takes any
  signature of 65 bytes for the raw form, and returns the CA for the caller to
  check.
- *Metadata.* `add_wallet` takes any `u64`, of which `to_bytes` keeps 32 bits
  and tells nobody (`OnlyWideOnesAreLost` says what is left of the set);
  `new` takes a name of any length, and one of 32 bytes or more spills into the
  version bits of the header: the blob is refused, or read with a cut name and the
  rest of it taken for wallets (the second half of `RoundTrip` says what the name
  is then); a set of more than 100,000 wallets is encoded and
  then refused.
- *Transport.* A reader is found by the beginning of its name.

## Proofs

TLAPS checks the following for all values of the constants, from the named
assumptions of the modules only (`None` is no card and no number, there is at
least one nonce, the kinds of card are disjoint and trusted cards are V2 cards,
credentials have the lengths the card expects and limits fit a status word, the
sizes of `set_ndef` stand in the relations of 220, 4, 16, 5 and 256, those of
`metadata.rs` in the relations of 256, 128, 32, 20, 100,000 and 2^32, the indexes of
words are in the list, `r` and `s` need at most 32 bytes, bounds are naturals).

- `SecureChannelV2_proofs`: `TypeCorrect`, `NonceUniqueness`,
  `DecryptionUniqueness`, `CountersInStep`, `GenuineOpening`, `Refinement`. None
  of these properties is inductive. The inductive invariant adds: what is well
  formed (an open channel has a key and is established; a pending nonce belongs
  to the current key); that every sealed command of the current key has a nonce
  below the counter, and likewise every decryption, so that a fresh seal cannot
  collide; that no command carries a key not yet derived, so that a fresh key has
  sealed nothing; and that the card is at most at the host's nonce. When the
  counter would wrap, the channel closes in the same step, so "below" needs no
  modular reading. The refinement is one lemma for the initial states and one for
  the steps, from the same invariant.
- `KeycardCommandSet_proofs`: `CommandSetTyped`, `TrustedOpening`, `InitSealing`.
  The invariant adds that an installed identity is trusted (V2) or a V1 card's,
  that an open channel's peer is its identity, and that between the two exchanges
  of a V2 INIT the channel has been established, so that the second is sealed or
  refused, never plaintext. Then, of `Selection`: `SelectionImplements` (the
  refinement) and `TruthfulInfo`. Both rest on one invariant, that what was parsed
  is what the parser makes of the response of the card in `info` in the state it
  told, and on `BerTlv_proofs`; `TruthfulInfo` is then a statement about the
  parser, for every applet and state.
- `BerTlv_proofs` has no theorem of its own to show: it says what a parser makes of
  a response field by field (the field that is there is taken, one that is absent
  leaves the rest where it was, an error stays an error), and with that the other
  modules follow each parser through each form of each response.
- `KeyCommands_proofs`: `KeyTypes`, `NamedKeyIsUsed`, `MovesOnlyAsAsked`,
  `PinlessAbsolute`. The four properties are inductive together. The work is in
  the lemmas: the card reads from P1 the mode and source that `derive_p1` put
  there (`P1RoundTrip`), and the source and the numbers lead to the key the path
  names (`NamedKey`). Then, of `KeyMaterial`: `MaterialImplements`,
  `ParsedAnswers`, `LoadedKeys`. The invariant adds that a master key is extended
  or not and that what the caller holds is an answer of the key and the message it
  was asked for, in one of the forms the code can make it; `ParsedAnswers` allows one refusal, of a
  signature with a short `r` or `s`; each form of response has its lemma (`PairIsLoaded`, `LeeIsRead`, `EcdsaIsParsed`, `SchnorrIsParsed`,
  `IdentityIsVerified`, `MnemonicIsRead`).
- `SecureChannelV1_proofs`: `ChannelTyped`, `ChainedAlike`,
  `MutualAuthentication`, `OthersUnpaired`. The invariant adds that an open
  channel has a key, so that a card without one cannot seem to share it; that a
  card with the channel's key derived it, and that after the opening call an open
  channel has seen it do so; and that `unpair_others` is never at its own slot and
  has freed, or seen taken, every other one it went past. The work is in one
  lemma, `Exchanged`: whatever an exchange does, a channel it leaves open shares
  key and IV with the card, and nothing was garbled.
- `NdefStorage_proofs`: `StorageTyped`, `TornOnlyInOrder`, `EveryChunkFramed`,
  `WholeWhenOk`. The invariant adds that a call in progress is at a multiple of
  the chunk within what the card holds. Hence `InPlace`: P2 names the very offset,
  because the offset is a multiple of the unit and what P2 can address is no
  multiple of the chunk. `WholeWhenOk` then follows from what was stored in order
  and from the two bytes of the prefix being the digits of the length.
- `Credentials_proofs`: `Typing`, `AlwaysKnown`, `TriesAreTold`,
  `InitSetsWhatIsAsked`. The four are inductive together, a blank card, which has
  no credentials, refusing everything but INIT. The work is in the lemmas
  on concatenations: what the card cuts off the data of UNBLOCK PIN and of the
  forms of INIT is what was put there. `TriesAreTold` needs that tries never
  exceed a limit, and a limit the four bits a status word has for it.
- `Metadata_proofs`: `MetadataTyped`, `InsertsAreBounded`, `StoredComesBack`,
  `WideOnesAreCut`, `DecodeEncoded`. The invariant is weak (wallets are a finite
  set, names are of any length, and what we stored is what `to_bytes` made); the
  properties are about loops, and about the header, a byte for every name and with
  the low bits of its length (`HeaderByte`), from which `MetadataTyped` follows. The first part derives from the well-foundedness of `<` that a loop's function exists and
  unfolds (`Recursion`, `Unfolding`) and that what a turn keeps holds at every turn
  (`Induction`, with a set for the predicate). `InsertsAreBounded`: in every turn
  the wallets are no more than the running total, and that no more than the limit. `StoredComesBack`: the encoder's
  ranges are in order, apart from one another and cover the set (`RangesCover`);
  each buffer is a prefix of the last (`BufferGrows`); so turn by turn the decoder
  is at the end of the encoder's buffer with the numbers written so far
  (`TurnFollows`), and `DecodeEncoded` reads each number back from its digits. Of
  a name that does not fit, the blob still begins with all its bytes
  (`BlobBegins`), so what is read is a prefix of it (`CutNameReadsBack`). What
  was written is the set, if all fits 32 bits, and otherwise the set up to
  multiples of 2^32 (`CutLosesWideOnes`), which is `WideOnesAreCut`. All this
  holds for every base, and so replaces for proof the assumption that TLC
  evaluates for base 12.

Every invariant that a run checks and expects to hold is a theorem, and so are the
action properties and the three refinements (`SecureChannelV2` of `SecureSession`,
`Selection` of `KeycardCommandSet`, `KeyMaterial` of `KeyCommands`). Only
model-checked: the liveness properties `CallsReturn` and `Returns`, because
fairness and ENABLED are out of the prover's reach, and the violated properties,
which are refuted by their counterexamples. The library's induction theorems take
a predicate as a parameter, which the provers cannot instantiate; that is why
`Metadata_proofs` has its own, over sets.

## Not modelled

- The PC/SC transport: pure I/O; its failures are lost exchanges.
- `*_raw` calls and the low-level V1 calls of the command set, whose caller
  composes the parameters itself; `store_data` with an offset of the caller's.
- V1 commands built before the previous one was transmitted.
- `remove_key`, after which there is no key to ask about; `get_data`,
  `get_challenge` and GET STATUS of the key path, which only return raw data.
- Instruction codes, AIDs, salts and LE: names, not behaviour; `check_sw`, which
  nothing calls.
- Cryptography: its outcome is symbolic. Of a mnemonic, the text of the words.

## Plan

1. *Done.* `SecureSession`, `SecureChannelV2` with its proofs and refinement;
   `SecureChannelV1` with liveness and proofs; `KeycardCommandSet` with proofs,
   and `Selection` which implements it; `KeyCommands` with proofs, and
   `KeyMaterial` over it; `Credentials` with proofs; `NdefStorage` with liveness
   and proofs; `Metadata`.
2. *Proved.* Every invariant, the action properties and the refinements, see above.
3. *Refine.* A version of `SecureSession` that `SecureChannelV1` implements once
   `auto_open` no longer leaves a half-opened channel, and `KeycardCommandSet`
   over the two channels.
4. *Extend.* V1 commands built ahead.
