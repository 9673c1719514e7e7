---------------------------- MODULE KeyCommands ----------------------------
(***************************************************************************)
(* Which key a command of keycard.rs works with.  The caller names it by a *)
(* BIP32 path, relative or not; the command set parses the path (KeyPath,  *)
(* parsing/key_path.rs) and puts its source and what to do with it in P1;  *)
(* the card, external, keeps a current key that earlier commands moved.    *)
(*                                                                         *)
(* A command that the host refuses, that is lost on its way or that the    *)
(* card rejects leaves everything as it was; one whose response is lost    *)
(* has been executed.  Hashes, public keys and the exported bytes are left *)
(* out, and a path component is a member of a set.                         *)
(*                                                                         *)
(* An operator named Bug... is a plausible mistake in the definition that  *)
(* follows it, used to show that a property would notice.                  *)
(***************************************************************************)
EXTENDS Integers, Sequences, SequencesExt

CONSTANTS
  Components,     \* path components: a number with its hardened mark
  MaxComponents,  \* components allowed after the source: 10
  MaxDepth,       \* bound on the depth of keys the card derives
  None            \* Rust's None

ASSUME NoneAssumption == None \notin Seq(Components)
ASSUME BoundsAssumption == MaxComponents \in Nat /\ MaxDepth \in Nat

VARIABLES
  current,  \* the path of the card's current key
  pinless,  \* the path the card signs with when no PIN was verified
  meant,    \* the path of the key the caller meant by set_pinless_path
  last      \* the last command executed: what was asked, what was done

vars == <<current, pinless, meant, last>>

\* A request: the key it names, and whether to make that the current key.
Request(op, named, moves) == [op |-> op, named |-> named, moves |-> moves]

Ops == {"none", "sign", "sign_with_path", "sign_pinless", "derive_key", "export_key",
        "export_current_key", "export_lee_key", "export_bip85", "ecdh"}
Keys == Seq(Components)

TypeOK ==
  /\ current \in Keys
  /\ pinless \in Keys \union {None} /\ meant \in Keys \union {None}
  /\ last \in [asked : [op : Ops, named : Keys \union {None}, moves : BOOLEAN],
               used : Keys, moved : BOOLEAN]
  /\ last.asked.named = None => last.asked.op = "export_bip85"

Init ==
  /\ current = <<>> /\ pinless = None /\ meant = None
  /\ last = [asked |-> Request("none", <<>>, FALSE), used |-> <<>>, moved |-> FALSE]
-----------------------------------------------------------------------------
\* constants.rs: derive_p1, sign_p1 and export_key_p1
SOURCE_MASTER == 0
SOURCE_PARENT == 64
SOURCE_CURRENT == 128

CURRENT == 0
DERIVE == 1
DERIVE_AND_MAKE_CURRENT == 2
PINLESS == 3

\* A path as the caller writes it is a record: first is its first component if
\* that is one of "m", ".." and ".", or "" if it is one of the numbers.

BugParent(path) ==   \* the parent of the current key is the current key
  IF path.first = "m" THEN SOURCE_MASTER ELSE SOURCE_CURRENT

BugSource(path) ==   \* no source indicator: from the master key
  IF path.first = "." THEN SOURCE_CURRENT
  ELSE IF path.first = ".." THEN SOURCE_PARENT ELSE SOURCE_MASTER

source(path) ==
  IF path.first = "m" THEN SOURCE_MASTER
  ELSE IF path.first = ".." THEN SOURCE_PARENT ELSE SOURCE_CURRENT

\* KeyPath::from_str returns Ok; its data() is then path.numbers.
Parses(path) == Len(path.numbers) <= MaxComponents

BugDeriveP1(src, make_current) ==   \* the branches swapped
  src + IF make_current THEN DERIVE ELSE DERIVE_AND_MAKE_CURRENT

\* P1 of SIGN and EXPORT KEY.  The code writes "|"; the bits are disjoint.
derive_p1(src, make_current) ==
  src + IF make_current THEN DERIVE_AND_MAKE_CURRENT ELSE DERIVE
-----------------------------------------------------------------------------
(***************************************************************************)
(* The card, external, as constants.rs describes its parameters.           *)
(***************************************************************************)
Mode(p1) == p1 % 64
Source(p1) == p1 - Mode(p1)

\* The parent of the master key is no key.
Resolvable(src) == src = SOURCE_PARENT => current # <<>>

Base(src) ==
  IF src = SOURCE_MASTER THEN <<>>
  ELSE IF src = SOURCE_PARENT THEN Front(current) ELSE current

\* The card does what was asked with this key, and may make it current.
Execute(asked, key, moved) ==
  /\ Len(key) <= MaxDepth
  /\ last' = [asked |-> asked, used |-> key, moved |-> moved]
  /\ current' = IF moved THEN key ELSE current
  /\ UNCHANGED <<pinless, meant>>

\* SIGN, EXPORT KEY and ECDH take what to do, and the source, from P1.
ExecuteP1(asked, p1, data) ==
  \/ /\ Mode(p1) = CURRENT /\ Execute(asked, current, FALSE)
  \/ /\ Mode(p1) \in {DERIVE, DERIVE_AND_MAKE_CURRENT}
     /\ Resolvable(Source(p1))
     /\ Execute(asked, Base(Source(p1)) \o data, Mode(p1) = DERIVE_AND_MAKE_CURRENT)
  \/ /\ Mode(p1) = PINLESS /\ pinless # None /\ Execute(asked, pinless, FALSE)

\* DERIVE KEY and EXPORT LEE take the source alone.
ExecuteFrom(asked, src, data, moved) ==
  Resolvable(src) /\ Execute(asked, Base(src) \o data, moved)
-----------------------------------------------------------------------------
\* The key a path names: "m (master), .. (parent), . (current), or omitted
\* (= current)" in the words of KeyPath::from_str.
Named(path) ==
  IF path.first = "m" THEN path.numbers
  ELSE IF path.first \in {".", ""} THEN current \o path.numbers
  ELSE IF current = <<>> THEN None
  ELSE Front(current) \o path.numbers

sign == ExecuteP1(Request("sign", current, FALSE), CURRENT, <<>>)

sign_with_path(path, make_current) ==
  /\ Parses(path)
  /\ ExecuteP1(Request("sign_with_path", Named(path), make_current),
               derive_p1(source(path), make_current), path.numbers)

sign_pinless == ExecuteP1(Request("sign_pinless", meant, FALSE), PINLESS, <<>>)

derive_key(path) ==
  /\ Parses(path)
  /\ ExecuteFrom(Request("derive_key", Named(path), TRUE), source(path), path.numbers, TRUE)

\* The card takes an empty path for none: reset_pinless_path sends one, and so
\* does set_pinless_path("m").
set_pinless_path_raw(data) ==
  /\ pinless' = IF data = <<>> THEN None ELSE data
  /\ UNCHANGED <<current, last>>

BugSetPinlessPath(path) ==   \* a relative path is taken for an absolute one
  /\ Parses(path)
  /\ set_pinless_path_raw(path.numbers)
  /\ meant' = Named(path)

set_pinless_path(path) ==
  /\ Parses(path)
  /\ source(path) = SOURCE_MASTER
  /\ set_pinless_path_raw(path.numbers)
  /\ meant' = Named(path)

reset_pinless_path ==
  /\ set_pinless_path_raw(<<>>)
  /\ meant' = None

export_key_raw(asked, data, src, make_current) ==
  ExecuteP1(asked, derive_p1(src, make_current), data)

export_current_key ==
  export_key_raw(Request("export_current_key", current, FALSE), <<>>, CURRENT, FALSE)

export_key(path, make_current) ==
  /\ Parses(path)
  /\ export_key_raw(Request("export_key", Named(path), make_current),
                    path.numbers, source(path), make_current)

export_lee_key(path) ==
  /\ Parses(path)
  /\ ExecuteFrom(Request("export_lee_key", Named(path), FALSE), source(path), path.numbers, FALSE)

\* EXPORT BIP85 has no source: the card derives from the master key.
export_bip85(path) ==
  /\ Parses(path)
  /\ ExecuteFrom(Request("export_bip85", Named(path), FALSE), SOURCE_MASTER, path.numbers, FALSE)

ecdh(path) ==
  /\ Parses(path)
  /\ source(path) = SOURCE_MASTER
  /\ ExecuteP1(Request("ecdh", Named(path), FALSE), DERIVE, path.numbers)

\* LOAD KEY and GENERATE KEY, after REMOVE KEY or not: another master key.
load_key ==
  /\ current' = <<>> /\ pinless' = None /\ meant' = None
  /\ UNCHANGED last

Paths == {p \in [first : {"m", "..", ".", ""}, numbers : BoundedSeq(Components, MaxComponents + 1)] :
            p.first = "" => p.numbers # <<>>}

Next ==
  \/ sign
  \/ sign_pinless
  \/ reset_pinless_path
  \/ export_current_key
  \/ load_key
  \/ \E path \in Paths :
       \/ \E make_current \in BOOLEAN : \/ sign_with_path(path, make_current)
                                       \/ export_key(path, make_current)
       \/ derive_key(path)
       \/ set_pinless_path(path)
       \/ export_lee_key(path)
       \/ export_bip85(path)
       \/ ecdh(path)

Spec == Init /\ [][Next]_vars
-----------------------------------------------------------------------------
(***************************************************************************)
(* Properties.                                                             *)
(***************************************************************************)

\* The card signs, derives, exports and agrees with the key that the caller's
\* path names at that moment, relative paths after any number of moves of the
\* current key included (P1 and the data carry source and numbers intact).
KeyIsTheNamedOne ==
  last.asked.op \notin {"export_current_key", "export_bip85"} => last.used = last.asked.named

\* A command moves the card's current key if and only if it was asked to, so
\* that later relative paths mean what the caller thinks.
MovesAsAsked == last.moved = last.asked.moves

\* The key that the card signs with unasked for a PIN, if any, is the one the
\* caller named last: a path whose meaning depends on the current key never
\* becomes the PIN-less path (set_pinless_path).
PinlessIsMeant == pinless # None => pinless = meant

\* export_current_key "Exports the current key" (keycard.rs).
ExportsCurrentKey ==
  last.asked.op = "export_current_key" => last.used = last.asked.named

\* export_bip85 exports at "the given derivation path" (keycard.rs), whose first
\* component may be "m", ".." or "." (KeyPath::from_str).
Bip85AtGivenPath ==
  last.asked.op = "export_bip85" => last.used = last.asked.named
=============================================================================
