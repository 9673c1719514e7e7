---------------------------- MODULE KeyMaterial ----------------------------
(***************************************************************************)
(* KeyCommands with what the commands carry: the layout of their data, the *)
(* card's responses, and the parsers that turn them into key pairs (bip32) *)
(* LEE keys (lee), signatures (signature), identities (certificate) and    *)
(* mnemonics (mnemonic).  What was parsed may be loaded again.             *)
(*                                                                         *)
(* Cryptography is symbolic: a key is where it comes from, its root and    *)
(* its path; a public key, a signature or an address is of a key; what is  *)
(* recovered under the wrong hash or rec_id is no key that matters.  The   *)
(* words of a list are distinct and nothing else.  A secret that was       *)
(* loaded from outside has the root Other from then on.                    *)
(***************************************************************************)
EXTENDS KeyCommands, BerTlv

CONSTANTS
  Seeds,    \* binary seeds the caller has
  Indexes,  \* word indexes the card draws
  IntegerSizes,  \* the bytes that r and s need: 32, or fewer by chance
  Issuers,  \* CAs, and cards that may answer IDENTIFY CARD
  Other

WORDS == 2048   \* WORDLIST_SIZE

\* r and s are below 2^256; the card draws indexes of words.
ASSUME MaterialAssumption == IntegerSizes \subseteq 1 .. 32 /\ Indexes \subseteq 0 .. WORDS - 1

VARIABLES
  master,  \* how the card's master key was loaded; its root is Other
  got      \* what the last command returned, as the caller parsed it

material_vars == <<vars, master, got>>

Key(path) == [root |-> Other, path |-> path]
Part(part, key) == [part |-> part, key |-> key]
Nothing == [op |-> "none"]

MaterialInit == /\ Init
                /\ master = [extended |-> TRUE, lee |-> FALSE]
                /\ got = Nothing
-----------------------------------------------------------------------------
(***************************************************************************)
(* Bip32KeyPair.  A private key of more than 32 bytes begins with a zero.  *)
(***************************************************************************)
strip_leading_zero(pk) == IF pk.size > 32 THEN [pk EXCEPT !.size = @ - 1] ELSE pk

\* The public key computed from a private one is compressed.
PublicOf(pk) ==
  IF strip_leading_zero(pk).size = 32 THEN Bytes(33, Part("public", pk.of.key))
                                      ELSE Bytes(0, None)

new(private_key, chain_code, public_key) ==
  [private_key |-> private_key, chain_code |-> chain_code,
   public_key |-> IF public_key # Absent THEN public_key
                  ELSE IF private_key # Absent THEN PublicOf(private_key) ELSE Bytes(0, None)]

from_binary_seed(seed) ==
  LET key == [root |-> seed.of, path |-> <<>>]
  IN  new(Bytes(32, Part("private", key)), Bytes(32, Part("chain", key)), Absent)

is_public_only(pair) == pair.private_key = Absent
is_extended(pair) == pair.chain_code # Absent

read_key(items) ==
  Start(items) & enter_constructed(TLV.KEY_TEMPLATE)
  & Optional(TLV.PUB_KEY, AnySize) & Optional(TLV.PRIV_KEY, AnySize)
  & Optional(TLV.CHAIN_CODE, AnySize)

from_tlv(items) ==
  LET read == read_key(items)
  IN  IF read = Err THEN Err ELSE new(read.values[3], read.values[4], read.values[2])

BugToTlv(pair, include_public) ==   \* the private key as it was given
  write_constructed(TLV.KEY_TEMPLATE,
    When(include_public, write_primitive(TLV.PUB_KEY, pair.public_key))
    \o When(~is_public_only(pair), write_primitive(TLV.PRIV_KEY, pair.private_key))
    \o When(is_extended(pair), write_primitive(TLV.CHAIN_CODE, pair.chain_code)))

to_tlv(pair, include_public) ==
  write_constructed(TLV.KEY_TEMPLATE,
    When(include_public, write_primitive(TLV.PUB_KEY, pair.public_key))
    \o When(~is_public_only(pair),
            write_primitive(TLV.PRIV_KEY, strip_leading_zero(pair.private_key)))
    \o When(is_extended(pair), write_primitive(TLV.CHAIN_CODE, pair.chain_code)))
-----------------------------------------------------------------------------
(***************************************************************************)
(* LeeKey, and the Mnemonic: two bytes of the response for every word,     *)
(* and a word list that the caller sets.                                   *)
(***************************************************************************)
read_lee(items) ==
  Start(items) & enter_constructed(TLV.KEY_TEMPLATE)
  & Required(TLV.LEE_ASK, Sizes(32)) & Required(TLV.LEE_NSK, Sizes(32))
  & Required(TLV.LEE_VSK_D, Sizes(32)) & Required(TLV.LEE_VSK_Z, Sizes(32))

lee_from_tlv(items) ==
  LET read == read_lee(items)
  IN  IF read = Err THEN Err
      ELSE [ask |-> read.values[2].of, nsk |-> read.values[3].of,
            vsk_d |-> read.values[4].of, vsk_z |-> read.values[5].of]

mnemonic_from_card_response(bytes) ==
  [indexes |-> [i \in 1 .. Len(bytes) \div 2 |-> bytes[2 * i - 1] * 256 + bytes[2 * i]],
   wordlist |-> Absent]

set_bip39_english(mnemonic) == [mnemonic EXCEPT !.wordlist = [is |-> "english"]]

\* The words at these indexes of the English list.
Phrase(indexes) == [words |-> [i \in DOMAIN indexes |-> [word |-> indexes[i]]]]

words(mnemonic) ==
  IF mnemonic.wordlist = Absent THEN Err
  ELSE IF \E i \in DOMAIN mnemonic.indexes : mnemonic.indexes[i] >= WORDS THEN Err
  ELSE Phrase(mnemonic.indexes)

to_bip32_keypair(mnemonic) ==
  LET phrase == words(mnemonic)
  IN  IF phrase = Err THEN Err ELSE from_binary_seed(Bytes(64, phrase))
-----------------------------------------------------------------------------
(***************************************************************************)
(* Signatures.  In the raw form r and s fill 32 bytes each; in the legacy  *)
(* form they are integers as long as their value needs, behind a zero if   *)
(* they would otherwise be negative.                                       *)
(***************************************************************************)
RAW_SIGNATURE == TLV.PUB_KEY

\* r and s are two halves of a signature, which is sig.
recover_public_key(rec_id, hash, r, s) ==
  IF rec_id \notin 0 .. 3 \/ r.size # 32 \/ s.size # 32 THEN Absent
  ELSE IF rec_id = r.of.rec_id /\ hash = r.of.over /\ s.of = r.of
    THEN Bytes(65, Part("public", r.of.key))
  ELSE Bytes(65, Part("public", None))

\* The value of an INTEGER.
SignedInt(needed, zero, sig) ==
  Bytes(IF zero THEN needed + 1 ELSE needed, [zero |-> zero, sig |-> sig])

BugToUint(int) == Bytes(int.size, int.of.sig)   \* r and s as they were read

\* Strips a leading zero, whatever the size.
to_uint(int) == Bytes(IF int.of.zero /\ int.size > 1 THEN int.size - 1 ELSE int.size, int.of.sig)

init_from_raw_signature(hash, value) ==
  LET half == Bytes(32, value.of)
      public_key == recover_public_key(value.of.rec_id, hash, half, half)
  IN  IF value.size # 65 THEN Err
      ELSE IF public_key = Absent THEN Err
      ELSE [public_key |-> public_key, over |-> <<hash>>]

read_legacy(items) ==
  Start(items) & enter_constructed(TLV.SIGNATURE_TEMPLATE) & Required(TLV.PUB_KEY, AnySize)
  & enter_constructed(TLV.ECDSA_TEMPLATE)
  & Required(TLV.INT, AnySize) & Required(TLV.INT, AnySize)

init_from_legacy(hash, items) ==
  LET read == read_legacy(items)
      r == to_uint(read.values[4])
      s == to_uint(read.values[5])
      rec_ids == {i \in 0 .. 3 : recover_public_key(i, hash, r, s) = read.values[2]}
  IN  IF read = Err THEN Err
      ELSE IF rec_ids = {} THEN Err
      ELSE [public_key |-> read.values[2], over |-> <<hash>>]

recoverable_from_card_response(hash, items) ==
  IF next_tag_is(items, RAW_SIGNATURE)
    THEN LET value == read_primitive(items, RAW_SIGNATURE)
         IN  IF value = Err THEN Err ELSE init_from_raw_signature(hash, value)
  ELSE IF next_tag_is(items, TLV.SIGNATURE_TEMPLATE) THEN init_from_legacy(hash, items)
  ELSE Err

read_schnorr(items) ==
  Start(items) & Required(TLV.PUB_KEY, AnySize) & Required(TLV.SCHNORR_SIGNATURE, Sizes(64))

schnorr_from_card_response(items) ==
  LET wrapped == next_tag_is(items, TLV.SIGNATURE_TEMPLATE)
      read == read_schnorr(IF wrapped THEN Tail(items) ELSE items)
  IN  IF read = Err THEN Err
      ELSE [public_key |-> read.values[1], r_and_s |-> read.values[2].of]

\* Without the byte that says how the key is encoded, and without y.
x_only_pubkey(public_key) ==
  IF public_key.size \in {32, 33, 65} THEN Bytes(32, public_key.of) ELSE Err

\* The hash of all bytes but the first.
to_ethereum_address(public_key) == [of |-> public_key.of, bytes |-> public_key.size - 1]
-----------------------------------------------------------------------------
(***************************************************************************)
(* Certificate::verify_identity.  The signature follows the certificate    *)
(* without a tag of its own, as 65 bytes or in DER.                        *)
(***************************************************************************)
certificate(data) == IF data.size < 98 THEN Err ELSE data.of

verify_identity(hash, items) ==
  LET read == Start(items) & enter_constructed(TLV.SIGNATURE_TEMPLATE) & Required(TLV.CERT, AnySize)
      cert == certificate(read.values[2])
      signature == read.unread[1].value
  IN  IF read = Err THEN Err
      ELSE IF cert = Err \/ read.unread = <<>> THEN Err
      ELSE IF signature.of = [by |-> cert.ident, over |-> hash] THEN cert.ca ELSE Err
-----------------------------------------------------------------------------
(***************************************************************************)
(* The card's responses, external.  Applets differ in what an exported key *)
(* comes with, in the form of a signature, and in its template.            *)
(***************************************************************************)
PRIVATE_AND_PUBLIC == 0
PUBLIC_ONLY == 1
EXTENDED_PUBLIC == 2

KeyResponse(key, p2, public, chain) ==
  write_constructed(TLV.KEY_TEMPLATE,
    When(public, write_primitive(TLV.PUB_KEY, Bytes(65, Part("public", key))))
    \o When(p2 = PRIVATE_AND_PUBLIC, write_primitive(TLV.PRIV_KEY, Bytes(32, Part("private", key))))
    \o When(chain, write_primitive(TLV.CHAIN_CODE, Bytes(32, Part("chain", key)))))

KeyResponses(key, p2, extended) ==
  {KeyResponse(key, p2, public, chain) :
   public \in {b \in BOOLEAN : p2 # PRIVATE_AND_PUBLIC => b},
   chain \in {b \in BOOLEAN : (b => extended /\ p2 # PUBLIC_ONLY)
                               /\ (p2 = EXTENDED_PUBLIC => b)}}

LeeResponse(key) ==
  write_constructed(TLV.KEY_TEMPLATE,
    write_primitive(TLV.LEE_ASK, Bytes(32, Part("ASK", key)))
    \o write_primitive(TLV.LEE_NSK, Bytes(32, Part("NSK", key)))
    \o write_primitive(TLV.LEE_VSK_D, Bytes(32, Part("VSK_D", key)))
    \o write_primitive(TLV.LEE_VSK_Z, Bytes(32, Part("VSK_Z", key))))

Sig(key, hash) == [key |-> key, over |-> hash, rec_id |-> 1]

LegacyResponse(key, r, s) ==
  write_constructed(TLV.SIGNATURE_TEMPLATE,
    write_primitive(TLV.PUB_KEY, Bytes(65, Part("public", key)))
    \o write_constructed(TLV.ECDSA_TEMPLATE,
         write_primitive(TLV.INT, r) \o write_primitive(TLV.INT, s)))

\* One of them needs less than 32 bytes.
Short(r, s) == r < 32 \/ s < 32

\* A response to SIGN, and whether it has a short r or s.
EcdsaResponses(key, hash) ==
  LET sig == Sig(key, hash)
  IN  {[short |-> FALSE, items |-> write_primitive(RAW_SIGNATURE, Bytes(65, sig))]} \union
      {[short |-> Short(r, s),
        items |-> LegacyResponse(key, SignedInt(r, r_zero, sig), SignedInt(s, s_zero, sig))] :
       r \in IntegerSizes, s \in IntegerSizes, r_zero \in BOOLEAN, s_zero \in BOOLEAN}

SchnorrContent(key, size) ==
  write_primitive(TLV.PUB_KEY, Bytes(size, Part("public", key)))
  \o write_primitive(TLV.SCHNORR_SIGNATURE, Bytes(64, Part("schnorr", key)))

\* The public key is x-only, compressed or uncompressed.
SchnorrResponses(key) ==
  UNION {{SchnorrContent(key, size),
          write_constructed(TLV.SIGNATURE_TEMPLATE, SchnorrContent(key, size))} :
         size \in {32, 33, 65}}

\* What the parsers make of the responses about a key the card can have.
KeyPairsOf ==
  [path \in BoundedSeq(Components, MaxDepth) |-> [p2 \in 0 .. 2 |-> [extended \in BOOLEAN |->
     {from_tlv(response) : response \in KeyResponses(Key(path), p2, extended)}]]]

SignaturesOf ==
  [path \in BoundedSeq(Components, MaxDepth) |->
     {[short |-> response.short,
       signature |-> recoverable_from_card_response("hash", response.items)] :
        response \in EcdsaResponses(Key(path), "hash")}]

SchnorrSignaturesOf ==
  [path \in BoundedSeq(Components, MaxDepth) |->
     {schnorr_from_card_response(response) : response \in SchnorrResponses(Key(path))}]

IdentityResponse(cert, signature, size) ==
  write_constructed(TLV.SIGNATURE_TEMPLATE,
    write_primitive(TLV.CERT, Bytes(98, cert)) \o <<Item(TLV.ECDSA_TEMPLATE, Bytes(size, signature))>>)

IdentityResponses ==
  {IdentityResponse(cert, signature, size) :
   cert \in [ident : Issuers, ca : Issuers],
   signature \in [by : Issuers, over : {"challenge", "another"}], size \in {65, 71}}
-----------------------------------------------------------------------------
(***************************************************************************)
(* SIGN.  The data is a hash, for Schnorr a tweak, and the path: the card  *)
(* takes the first one or two parts of 32 bytes for what to sign.          *)
(***************************************************************************)
ECDSA == 0
BIP340_SCHNORR == 3

\* A key of which no chain code was loaded has no others below it.
Derivable(path) == path = <<>> \/ master.extended

sign_raw(asked, data, p1, algo) ==
  LET parts == IF algo = BIP340_SCHNORR THEN 2 ELSE 1
  IN  /\ Len(data) >= parts
      /\ ExecuteP1(asked, p1, SubSeq(data, parts + 1, Len(data)))
      /\ Derivable(last'.used)
      /\ IF algo = ECDSA
           THEN \E answer \in SignaturesOf[last'.used] :
                  got' = [op |-> "signature", hash |-> data[1], short |-> answer.short,
                          signature |-> answer.signature]
           ELSE \E signature \in SchnorrSignaturesOf[last'.used] :
                  got' = [op |-> "schnorr", signature |-> signature]
      /\ UNCHANGED master

BugPadded(hash, algo) == hash   \* the card takes the path for the tweak

\* Without a tweak, 32 zero bytes.
Padded(hash, algo) ==
  IF algo = BIP340_SCHNORR /\ Len(hash) = 1 THEN hash \o <<"zeroes">> ELSE hash

sign_with_path_and_algo(hash, path, algo, make_current) ==
  /\ Len(hash) \in IF algo = BIP340_SCHNORR THEN {1, 2} ELSE {1}
  /\ Parses(path)
  /\ sign_raw(Request("sign_with_path", Named(path), make_current),
              Padded(hash, algo) \o path.numbers, derive_p1(source(path), make_current), algo)

sign_bip341_schnorr(hash, tweak, path) ==
  sign_with_path_and_algo(<<hash, tweak>>, path, BIP340_SCHNORR, FALSE)

SignCurrent == sign_raw(Request("sign", current, FALSE), <<"hash">>, CURRENT, ECDSA)

SignPinless == sign_raw(Request("sign_pinless", meant, FALSE), <<"hash">>, PINLESS, ECDSA)
-----------------------------------------------------------------------------
(***************************************************************************)
(* EXPORT KEY, EXPORT LEE, DERIVE KEY and the rest.                        *)
(***************************************************************************)
Exported(p2) ==
  /\ Derivable(last'.used)
  /\ \E pair \in KeyPairsOf[last'.used][p2][master.extended] :
       got' = [op |-> "export", private |-> p2 = PRIVATE_AND_PUBLIC, pair |-> pair]
  /\ UNCHANGED master

P2(public_only) == IF public_only THEN PUBLIC_ONLY ELSE PRIVATE_AND_PUBLIC

Export ==
  \/ \E p2 \in {P2(TRUE), P2(FALSE), EXTENDED_PUBLIC} : export_current_key /\ Exported(p2)
  \/ \E path \in Paths, make_current, public_only \in BOOLEAN :
       export_key(path, make_current) /\ Exported(P2(public_only))

export_lee_key_parsed(path) ==
  /\ export_lee_key(path) /\ Derivable(last'.used)
  /\ got' = [op |-> "lee", keys |-> lee_from_tlv(LeeResponse(Key(last'.used)))]
  /\ UNCHANGED master

\* Without a response to parse.
Plain == \E path \in Paths : derive_key(path) \/ export_bip85(path) \/ ecdh(path)

Pinless == reset_pinless_path \/ \E path \in Paths : set_pinless_path(path)

\* Bound: what has nothing to do with the card's current key is asked before it
\* was used.
Unused == last.asked.op = "none"

identify_card ==
  /\ Unused
  /\ \E response \in IdentityResponses :
       got' = [op |-> "identity", ca |-> verify_identity("challenge", response),
               cert |-> response[2].value.of, signature |-> response[3].value.of]
  /\ UNCHANGED <<vars, master>>
-----------------------------------------------------------------------------
(***************************************************************************)
(* LOAD KEY.  The card takes the data for what P1 announces: a seed, or a  *)
(* template of the parts of a key pair.                                    *)
(***************************************************************************)
EC == 1
EXT_EC == 2
SEED == 3
LEE == 4

MasterKey(root, p1) == [root |-> root, extended |-> p1 # EC, lee |-> p1 = LEE]

PairLoaded(p1, items) ==
  LET pair == Start(items) & enter_constructed(TLV.KEY_TEMPLATE)
              & Optional(TLV.PUB_KEY, AnySize) & Required(TLV.PRIV_KEY, Sizes(32))
      read == IF p1 = EC THEN pair ELSE pair & Required(TLV.CHAIN_CODE, Sizes(32))
  IN  IF read = Err THEN Err ELSE MasterKey(read.values[3].of.key, p1)

LoadedFrom(p1, data) ==
  IF p1 \in {SEED, LEE} THEN MasterKey(data.of, p1) ELSE PairLoaded(p1, data)

\* What the caller meant to load, and what the card has for it; or its refusal.
Load(intended, loaded) ==
  /\ got' = [op |-> "load", intended |-> intended, loaded |-> loaded]
  /\ IF loaded = Err THEN UNCHANGED <<vars, master>>
     ELSE load_key /\ master' = [extended |-> loaded.extended, lee |-> loaded.lee]

load_key_raw(intended, data, key_type) == Load(intended, LoadedFrom(key_type, data))

load_key_seed(seed) ==
  load_key_raw([root |-> seed, extended |-> TRUE, lee |-> FALSE], Bytes(64, seed), SEED)

load_lee_key(seed) ==
  load_key_raw([root |-> seed, extended |-> TRUE, lee |-> TRUE], Bytes(64, seed), LEE)

load_key_p1(pair) == IF is_extended(pair) THEN EXT_EC ELSE EC

load_key_bip32(pair, omit_public) ==
  load_key_raw(IF is_public_only(pair) THEN Err
               ELSE [root |-> pair.private_key.of.key, extended |-> is_extended(pair), lee |-> FALSE],
               to_tlv(pair, ~omit_public), load_key_p1(pair))

\* Key pairs the caller may have: of a seed, or built from its private key; the
\* one just exported; that of the mnemonic the card just generated.
Pairs ==
  {from_binary_seed(Bytes(64, seed)) : seed \in Seeds}
  \union {new(Bytes(33, Part("private", [root |-> seed, path |-> <<>>])), Absent, Absent) : seed \in Seeds}
  \union (IF got.op = "export" /\ got.pair # Err THEN {got.pair} ELSE {})
  \union (IF got.op = "mnemonic" THEN {to_bip32_keypair(got.mnemonic)} \ {Err} ELSE {})

\* The response has two bytes for every index.
generate_mnemonic ==
  /\ Unused
  /\ \E first, second \in Indexes :
       LET bytes == <<first \div 256, first % 256, second \div 256, second % 256>>
       IN  got' = [op |-> "mnemonic", drawn |-> <<first, second>>,
                   mnemonic |-> set_bip39_english(mnemonic_from_card_response(bytes))]
  /\ UNCHANGED <<vars, master>>

generate_key ==
  load_key /\ master' = [extended |-> TRUE, lee |-> FALSE] /\ got' = Nothing
-----------------------------------------------------------------------------
MaterialNext ==
  \/ SignCurrent
  \/ SignPinless
  \/ \E path \in Paths :
       \/ \E algo \in {ECDSA, BIP340_SCHNORR}, make_current \in BOOLEAN :
            sign_with_path_and_algo(<<"hash">>, path, algo, make_current)
       \/ sign_bip341_schnorr("hash", "tweak", path)
       \/ export_lee_key_parsed(path)
  \/ Export
  \/ Plain /\ Derivable(last'.used) /\ got' = Nothing /\ UNCHANGED master
  \/ Pinless /\ got' = Nothing /\ UNCHANGED master
  \/ identify_card
  \/ \E seed \in Seeds : load_key_seed(seed) \/ load_lee_key(seed)
  \/ \E pair \in Pairs, omit_public \in BOOLEAN : load_key_bip32(pair, omit_public)
  \/ generate_mnemonic
  \/ generate_key

MaterialSpec == MaterialInit /\ [][MaterialNext]_material_vars
-----------------------------------------------------------------------------
(***************************************************************************)
(* Properties.                                                             *)
(***************************************************************************)

\* What a parser returns is of the key the card worked with, and of the message
\* the caller gave: a key pair has its private key if and only if that was asked
\* for, a signature's recovered public key and address, or its x-only public key,
\* are the signing key's, the four LEE secrets are not mixed up, and a CA is named
\* exactly for a card that signed this challenge with the identity certified.  No
\* answer is refused but a signature with a short r or s.
AnswersAreOfTheKey ==
  LET key == Key(last.used)
  IN  /\ got.op = "export" =>
           /\ got.pair # Err
           /\ got.pair.public_key.of = Part("public", key)
           /\ is_public_only(got.pair) <=> ~got.private
           /\ got.private => got.pair.private_key.of = Part("private", key)
           /\ is_extended(got.pair) => got.pair.chain_code.of = Part("chain", key)
      /\ got.op = "signature" =>
           IF got.signature = Err THEN got.short
           ELSE /\ got.signature.public_key.of = Part("public", key)
                /\ got.signature.over[1] = got.hash
                /\ to_ethereum_address(got.signature.public_key)
                     = [of |-> Part("public", key), bytes |-> 64]
      /\ got.op = "schnorr" =>
           /\ got.signature # Err
           /\ x_only_pubkey(got.signature.public_key) = Bytes(32, Part("public", key))
           /\ got.signature.r_and_s = Part("schnorr", key)
      /\ got.op = "lee" =>
           got.keys = [ask |-> Part("ASK", key), nsk |-> Part("NSK", key),
                       vsk_d |-> Part("VSK_D", key), vsk_z |-> Part("VSK_Z", key)]
      /\ got.op = "identity" =>
           got.ca = IF got.signature = [by |-> got.cert.ident, over |-> "challenge"]
                      THEN got.cert.ca ELSE Err

\* A key pair that the caller derived, exported or got from a mnemonic becomes
\* the card's master key, with its chain code if it has one, whenever it has a
\* private key; the words of a mnemonic are those the card drew.
LoadsTheKeyMeant ==
  /\ got.op = "load" => got.loaded = got.intended
  /\ got.op = "mnemonic" => words(got.mnemonic) = Phrase(got.drawn)

\* from_card_response supports the legacy form: it parses every ECDSA signature
\* that the card answers with.
LegacySignaturesParse == got.op = "signature" => got.signature # Err
=============================================================================
