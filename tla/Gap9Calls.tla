------------------------------ MODULE Gap9Calls ------------------------------
(***************************************************************************)
(* What the tasks of the STM32 rely on when they call the GAP9: commands   *)
(* are executed one after the other; a call that has a result, or that     *)
(* waits, returns when its command has been executed.  A call is lost when *)
(* its packet is damaged, and when it follows an answer before the GAP9 is *)
(* back at its receive; a lost request costs the calls up to the next      *)
(* command without an answer as well, and so may any call behind an answer.*)
(***************************************************************************)
EXTENDS Naturals

CONSTANTS
  Command, Request, Waits,    \* all commands; with an answer; that wait
  None                        \* no command, and the result of a lost call

VARIABLES
  call,       \* the command of the call under way
  pending,    \* the command that the GAP9 has still to execute
  inStep,     \* the GAP9 understands the next packet
  result,     \* of the last call that had one
  answering,  \* the GAP9 has answered and is not back at its receive
  damaged     \* packets damaged so far

vars == <<call, pending, inStep, result, answering, damaged>>

Init ==
  /\ call = None /\ pending = None /\ result = None
  /\ inStep = TRUE /\ answering = FALSE /\ damaged = 0

Begin(c) == call = None /\ pending = None /\ call' = c /\ UNCHANGED result

Delivered(c) ==
  /\ Begin(c)
  /\ inStep /\ ~answering
  /\ pending' = c
  /\ UNCHANGED <<inStep, answering, damaged>>

Lost(c) ==
  /\ Begin(c)
  /\ \/ damaged' = damaged + 1
     \/ (~inStep \/ answering) /\ UNCHANGED damaged
  /\ \/ inStep' = (c \notin Request) /\ UNCHANGED answering
     \/ answering /\ inStep' = FALSE /\ answering' = FALSE
  /\ UNCHANGED pending

Execute ==
  /\ pending # None
  /\ pending' = None
  /\ UNCHANGED <<call, inStep, result, answering, damaged>>

Return ==
  /\ call # None
  /\ call \in Waits => pending = None
  /\ call' = None
  /\ answering' = (call \in Request /\ inStep)
  /\ result' = IF call \notin Request THEN result
               ELSE IF inStep THEN call ELSE None
  /\ UNCHANGED <<pending, inStep, damaged>>

Receive ==
  /\ answering /\ answering' = FALSE
  /\ UNCHANGED <<call, pending, inStep, result, damaged>>

Next ==
  Execute \/ Return \/ Receive \/ \E c \in Command : Delivered(c) \/ Lost(c)

Spec == Init /\ [][Next]_vars
=============================================================================
