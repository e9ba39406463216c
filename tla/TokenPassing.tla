---------------------------- MODULE TokenPassing ----------------------------
(***************************************************************************)
(* What the token ring promises: one drone at a time has the token, and    *)
(* hands it to the next drone of the ring that is switched on.             *)
(***************************************************************************)
EXTENDS Integers

CONSTANTS NR_OF_NODES, Powered, MayFail

Node == 0 .. NR_OF_NODES - 1

VARIABLES
  up,       \* the drones that are on
  holder,   \* the drone that has the token or is being handed it
  held      \* whether it has claimed the token

vars == <<up, holder, held>>

(* How many places drone b is after drone a on the ring. *)
Distance(a, b) == IF b >= a THEN b - a ELSE b - a + NR_OF_NODES

NextUp(a, b) ==
  /\ b \in up \ {a}
  /\ \A c \in up \ {a} : Distance(a, b) <= Distance(a, c)

Init == up = Powered /\ holder = 0 /\ held = TRUE

Give ==
  /\ held
  /\ \E n \in Node : NextUp(holder, n) /\ holder' = n
  /\ held' = FALSE
  /\ UNCHANGED up

Take == ~held /\ held' = TRUE /\ UNCHANGED <<up, holder>>

PowerOff ==
  /\ \E n \in MayFail \ {holder} : up' = up \ {n}
  /\ UNCHANGED <<holder, held>>

Next == Give \/ Take \/ PowerOff

Spec == Init /\ [][Next]_vars

(* The token goes on for ever, while there is a drone to give it to.       *)
FairSpec == Spec /\ WF_vars(Give) /\ WF_vars(Take)
=============================================================================
