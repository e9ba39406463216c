----------------------------- MODULE FlightScan -----------------------------
(***************************************************************************)
(* What the rest of the drone relies on of the flight task: each time the  *)
(* drone stops and spins, it proposes at most one scan, which starts at    *)
(* the pose where it stopped.                                              *)
(***************************************************************************)
CONSTANT Id         \* pose ids

VARIABLES
  spinning,         \* the drone spins at an obstacle
  start,            \* the pose at which it stopped
  open,             \* a scan of this stop may still be proposed
  proposed          \* the scan proposed last

vars == <<spinning, start, open, proposed>>

Init ==
  /\ spinning = FALSE /\ open = FALSE
  /\ start \in Id /\ proposed \in Id

Stop(last) ==
  /\ ~spinning /\ spinning' = TRUE
  /\ start' = last
  /\ open' \in BOOLEAN
  /\ UNCHANGED proposed

Propose ==
  /\ spinning /\ open
  /\ open' = FALSE
  /\ proposed' = start
  /\ UNCHANGED <<spinning, start>>

GoOn ==
  /\ spinning
  /\ spinning' = FALSE /\ open' = FALSE
  /\ UNCHANGED <<start, proposed>>

Next == Propose \/ GoOn \/ \E last \in Id : Stop(last)

Spec == Init /\ [][Next]_vars
=============================================================================
