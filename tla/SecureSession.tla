--------------------------- MODULE SecureSession ---------------------------
(***************************************************************************)
(* What the SecureChannel trait promises its caller, whatever the protocol *)
(* version behind it: the part of an APDU session that decides between     *)
(* plaintext, a sealed command and a refusal.                              *)
(*                                                                         *)
(* A channel that was never opened passes commands through in plaintext.   *)
(* Once it has been opened it only ever issues sealed commands, and when   *)
(* it is then closed by an error it refuses until it is opened again: the  *)
(* way back to plaintext is reset() and nothing else (the trait's comment  *)
(* on protected_command), which is told from any other step by the session *)
(* keys: it alone leaves none behind.                                      *)
(***************************************************************************)
EXTENDS Sequences

VARIABLES phase,   \* what protected_command answers with, now
          keyed,   \* does the channel hold session keys?
          issued   \* for every command issued so far: was it sealed?

vars == <<phase, keyed, issued>>

Phases == {"plaintext", "secured", "refusing"}

TypeOK == phase \in Phases /\ keyed \in BOOLEAN /\ issued \in Seq(BOOLEAN)

Init == phase = "plaintext" /\ ~keyed /\ issued = <<>>

Establish == phase' = "secured" /\ keyed' /\ UNCHANGED issued

\* Keys agreed with a card that then fails to prove who it is: nothing opens.
EstablishFails ==
  /\ phase' = IF phase = "secured" THEN "refusing" ELSE phase
  /\ keyed'
  /\ UNCHANGED issued

Break == phase = "secured" /\ phase' = "refusing" /\ UNCHANGED <<keyed, issued>>

Reset == phase' = "plaintext" /\ ~keyed' /\ UNCHANGED issued

IssuePlain ==
  /\ phase = "plaintext"
  /\ issued' = Append(issued, FALSE)
  /\ UNCHANGED <<phase, keyed>>

\* A sealed command may be the last one its session can issue.
IssueSealed ==
  /\ phase = "secured"
  /\ issued' = Append(issued, TRUE)
  /\ phase' \in {"secured", "refusing"}
  /\ UNCHANGED keyed

Next ==
  \/ Establish \/ EstablishFails \/ Break \/ Reset
  \/ IssuePlain \/ IssueSealed

Spec == Init /\ [][Next]_vars
=============================================================================
