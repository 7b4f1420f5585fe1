---------------------------------- MODULE MCBay ----------------------------------
(***************************************************************************)
(* The screen with its parked jobs, and the kit under two sockets.  They   *)
(* share no variable, so a behaviour moves one of the two.  The screen has *)
(* three cars and room for two parked jobs and is explored until something *)
(* that excuses a loss has happened: the properties say nothing after it.  *)
(***************************************************************************)
EXTENDS BayJobs, KitChannel, TLC

VARIABLE part  \* which of the two moves

vars == <<bayVars, kitVars, part>>

Init == part \in {"screen", "kit"} /\ BayInit /\ KitInit

Next ==
  \/ part = "screen" /\ BayNext /\ UNCHANGED <<kitVars, part>>
  \/ part = "kit" /\ KitNext /\ UNCHANGED <<bayVars, part>>

Spec == Init /\ [][Next]_vars

(* The types and bounds of the screen, the parked jobs and the handlers,   *)
(* and of the kit and the commands that use it.                            *)
TypeOK == BayTypeOK /\ KitTypeOK

NothingExcused == ways = {}
AnyCar == Permutations(Cars)
=============================================================================
