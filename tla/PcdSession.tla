----------------------------- MODULE PcdSession ------------------------------
(***************************************************************************)
(* What a reader owes a card, abstractly: the order in which the commands  *)
(* of one activation may reach the air.  Anticollision and SELECT once per *)
(* cascade level, RATS only after the last SELECT, data only after RATS,   *)
(* and HLTA before the field goes off.                                     *)
(***************************************************************************)
EXTENDS Naturals

VARIABLES
  phase,   \* the last command the reader executed
  level    \* its cascade level, 0 when it has none

vars == <<phase, level>>

Init == phase = "start" /\ level = 0

Request == phase = "start" /\ phase' = "request" /\ level' = 0

(* The first anticollision of level 1 or of the next level, or another     *)
(* round at this level.                                                    *)
Anticollide ==
  /\ \/ phase = "request" /\ level' = 1
     \/ phase = "anticol" /\ level' = level
     \/ phase = "select" /\ level < 3 /\ level' = level + 1
  /\ phase' = "anticol"

Select == phase = "anticol" /\ phase' = "select" /\ level' = level

Rats     == phase = "select" /\ phase' = "rats" /\ level' = 0
Exchange == phase = "rats" /\ phase' = "data" /\ level' = 0
Halt     == phase \in {"select", "data"} /\ phase' = "halt" /\ level' = 0
Off      == phase = "halt" /\ phase' = "off" /\ level' = 0

Next == Request \/ Anticollide \/ Select \/ Rats \/ Exchange \/ Halt \/ Off

Spec == Init /\ [][Next]_vars
=============================================================================
