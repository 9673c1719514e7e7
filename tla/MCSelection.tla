---------------------------- MODULE MCSelection ----------------------------
(* Cards of every generation: versions on both sides of 2.0 and 4.0, with   *)
(* and without PIN, certificate and secure channel.                         *)
EXTENDS Selection

CONSTANTS p1, o1, o2, t1, t2, u1, u2, ca1, ca2

App(version, initialized, capabilities, issuer) ==
  [version |-> version, initialized |-> initialized,
   capabilities |-> capabilities, issuer |-> issuer]

MCApplet ==
  [c \in Cards |->
     CASE c = p1 -> App(V2 + 1, TRUE, ALL - SECURE_CHANNEL, None)
       [] c = o1 -> App(V2 - 255, TRUE, ALL, None)
       [] c = o2 -> App(V4 - 253, FALSE, ALL, None)
       [] c = t1 -> App(V4, TRUE, ALL, ca1)
       [] c = t2 -> App(V4 + 2, FALSE, ALL, ca2)
       [] c = u1 -> App(V4 + 1, TRUE, ALL, ca2)
       [] c = u2 -> App(V4 + 1, FALSE, ALL, None)]

MCCardStates == {[keyed |-> FALSE, tries |-> 3, slots |-> 5],
                 [keyed |-> TRUE, tries |-> 0, slots |-> 0]}
=============================================================================
