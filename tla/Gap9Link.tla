------------------------------ MODULE Gap9Link ------------------------------
(***************************************************************************)
(* The SPI link between the UWB task of the STM32 (spi_comm.c and its      *)
(* callers) and the command loop of the GAP9 (main.c).                     *)
(*                                                                         *)
(* The STM32 clocks packets out and, after fixed delays, answers in.  The  *)
(* GAP9 gets only what arrives while it is in spi_rcv_blocking, and one    *)
(* line tells the STM32 that it is busy.  Time is counted in ticks of the  *)
(* STM32; a delay of n ends with the n-th tick, the first of which may     *)
(* come at once.                                                           *)
(***************************************************************************)
EXTENDS Naturals

CONSTANTS
  GAP9_TICKS,    \* ticks that may pass while the GAP9 handles a packet
  MaxDamaged     \* bound: packets damaged on their way

ASSUME LinkAssumption == {GAP9_TICKS, MaxDamaged} \subseteq Nat

VARIABLES
  pc,         \* of the UWB task, in its call
  call,       \* the command of this call
  delay,      \* ticks left of its vTaskDelay
  result,     \* history: whose answer to_recv holds
  gap,        \* where the GAP9 is in slam_loop
  cmd,        \* the packet in spi_buf: its command, and whether it is whole
  age,        \* ticks since the GAP9 got to where it is
  busy,       \* DECK_GPIO_IO2
  skewed,     \* spi_rcv_blocking has got bytes that are of no packet
  damaged, inStep    \* history: see Gap9Calls

stm == <<pc, call, delay, result>>
gap9 == <<gap, cmd, age, busy>>
vars == <<stm, gap9, skewed, damaged, inStep>>

None == "none"

OneWay == {"POSE", "EXT_POSE", "UPD_POSE"}
Request == {"OPTIMIZE", "POSE_REQ"}
Waits == Request \cup {"SCAN"}
Command == OneWay \cup Waits

NoPacket == [command |-> None, whole |-> FALSE]

Init ==
  /\ pc = "ready" /\ call = None /\ delay = 0 /\ result = None
  /\ gap = "receive" /\ cmd = NoPacket /\ age = 0 /\ busy = FALSE
  /\ skewed = FALSE /\ damaged = 0 /\ inStep = TRUE

----------------------------------------------------------------------------
(* STM32 *)

(* What a call does when its packet is out.                                *)
AfterPacket(c) ==
  CASE c \in OneWay -> "pause"
    [] c \in {"SCAN", "OPTIMIZE"} -> "rise"
    [] c = "POSE_REQ" -> "fetch"

(* Mutant: the poses of the queue are sent without a delay.                *)
DrainAtOnce(c) == CASE c = "POSE" -> 0
                    [] c \in {"EXT_POSE", "UPD_POSE", "POSE_REQ"} -> 2
                    [] c \in {"SCAN", "OPTIMIZE"} -> 5

Delay(c) == CASE c = "POSE" -> 1
              [] c \in {"EXT_POSE", "UPD_POSE", "POSE_REQ"} -> 2
              [] c \in {"SCAN", "OPTIMIZE"} -> 5

(* The GAP9 waits for a packet: it stays in spi_buf, and makes sense if    *)
(* the GAP9 has not got bytes of something else before.                    *)
Arrives(c, whole) ==
  /\ gap = "receive" /\ gap' = "decode"
  /\ cmd' = IF skewed THEN NoPacket ELSE [command |-> c, whole |-> whole]
  /\ age' = 0 /\ skewed' = FALSE
  /\ UNCHANGED busy

(* It does not wait: the packet is lost, ...                               *)
Missed == gap # "receive" /\ UNCHANGED <<gap9, skewed>>

(* ... or a GAP9 that is about to receive again takes the end of it for    *)
(* the start of another.                                                   *)
HalfArrives ==
  /\ gap = "sent" /\ gap' = "receive"
  /\ age' = 0 /\ skewed' = TRUE
  /\ UNCHANGED <<cmd, busy>>

Understood(whole) == gap = "receive" /\ whole /\ inStep

(* A damaged packet fails its checksum or, without one, has no S and E.    *)
Send(c, whole) ==
  /\ pc = "ready"
  /\ Arrives(c, whole) \/ Missed \/ HalfArrives
  /\ pc' = AfterPacket(c) /\ call' = c /\ delay' = Delay(c)
  /\ damaged' = IF whole THEN damaged ELSE damaged + 1
  /\ inStep' = (~skewed' /\ (Understood(whole) \/ c \notin Request))
  /\ UNCHANGED result

Over == delay = 0 /\ UNCHANGED <<call, result, gap9, skewed, damaged, inStep>>

StartPolling ==
  /\ pc = "rise" /\ Over
  /\ pc' = "poll" /\ UNCHANGED delay

(* Mutant: the busy line is waited for once, and not till it comes down.   *)
PollOnce ==
  /\ pc = "poll" /\ Over
  /\ IF call = "OPTIMIZE" THEN pc' = "fetch" /\ delay' = 3
     ELSE pc' = "pause" /\ delay' = 2

Poll ==
  /\ pc = "poll" /\ Over
  /\ IF busy THEN pc' = "poll" /\ delay' = 2
     ELSE IF call = "OPTIMIZE" THEN pc' = "fetch" /\ delay' = 3
     ELSE pc' = "pause" /\ delay' = 2

EndPause ==
  /\ pc = "pause" /\ delay = 0
  /\ pc' = "ready" /\ call' = None
  /\ UNCHANGED <<delay, result, gap9, skewed, damaged, inStep>>

(* The answer is clocked in.  A GAP9 that has none, because it has not     *)
(* understood the request, takes the bytes for the start of a packet.      *)
Fetch ==
  /\ pc = "fetch" /\ delay = 0
  /\ pc' = "ready" /\ call' = None
  /\ result' = IF gap = "send" THEN cmd.command ELSE None
  /\ gap' = IF gap = "send" THEN "sent" ELSE gap
  /\ skewed' = (skewed \/ gap = "receive")
  /\ age' = IF gap = "send" THEN 0 ELSE age
  /\ UNCHANGED <<delay, cmd, busy, damaged, inStep>>

Stm32 == StartPolling \/ Poll \/ EndPause \/ Fetch

----------------------------------------------------------------------------
(* GAP9 *)

Goto(there) == gap' = there /\ age' = 0 /\ UNCHANGED <<stm, cmd, skewed,
                                                       damaged, inStep>>

(* Mutant: the busy line is raised before the checksum is looked at.       *)
RaiseFirst ==
  /\ gap = "decode" /\ cmd.command \in {"SCAN", "OPTIMIZE"}
  /\ Goto(IF cmd.whole THEN "work" ELSE "receive")
  /\ busy' = TRUE

Raise ==
  /\ gap = "decode" /\ cmd.command \in {"SCAN", "OPTIMIZE"} /\ cmd.whole
  /\ Goto("work")
  /\ busy' = TRUE

(* A pose or an update is stored, and a packet that is not understood      *)
(* forgotten.                                                              *)
Store ==
  /\ gap = "decode" /\ (cmd.command \in OneWay \/ ~cmd.whole)
  /\ Goto("receive")
  /\ UNCHANGED busy

Answer ==
  /\ gap = "decode" /\ cmd.command = "POSE_REQ" /\ cmd.whole
  /\ Goto("send")
  /\ UNCHANGED busy

(* The scan is matched or the graph optimised, however long that takes.    *)
Lower ==
  /\ gap = "work"
  /\ Goto("free")
  /\ busy' = FALSE

Free ==
  /\ gap = "free"
  /\ Goto(IF cmd.command = "SCAN" THEN "receive" ELSE "send")
  /\ UNCHANGED busy

(* The answer is out: spi_send_blocking returns, a line is printed after   *)
(* an optimisation, and the loop gets back to spi_rcv_blocking.            *)
Rcv ==
  /\ gap = "sent"
  /\ Goto("receive")
  /\ UNCHANGED busy

slam_loop == Raise \/ Store \/ Answer \/ Lower \/ Free \/ Rcv

----------------------------------------------------------------------------
(* A tick: the GAP9 is faster than GAP9_TICKS, except at its work and when *)
(* it waits for the STM32.                                                 *)
OnItsWay == gap \in {"decode", "free", "sent"}

Tick ==
  /\ delay > 0
  /\ OnItsWay => age < GAP9_TICKS
  /\ delay' = delay - 1
  /\ age' = IF OnItsWay THEN age + 1 ELSE age
  /\ UNCHANGED <<pc, call, result, gap, cmd, busy, skewed, damaged, inStep>>

Next ==
  \/ \E c \in Command : \/ Send(c, TRUE)
                        \/ damaged < MaxDamaged /\ Send(c, FALSE)
  \/ Stm32 \/ slam_loop \/ Tick

Spec == Init /\ [][Next]_vars

(* Both processors run, and a command ends; the STM32 may stop calling.    *)
Fairness == WF_vars(Stm32) /\ WF_vars(slam_loop) /\ WF_vars(Tick)

FairSpec == Spec /\ Fairness

----------------------------------------------------------------------------
(* Correctness *)

TypeOK ==
  /\ pc \in {"ready", "pause", "rise", "poll", "fetch"}
  /\ call \in Command \cup {None} /\ result \in Request \cup {None}
  /\ delay \in 0 .. 5
  /\ gap \in {"receive", "decode", "work", "free", "send", "sent"}
  /\ cmd \in [command : Command \cup {None}, whole : BOOLEAN]
  /\ age \in 0 .. GAP9_TICKS
  /\ busy \in BOOLEAN /\ skewed \in BOOLEAN /\ inStep \in BOOLEAN
  /\ damaged \in Nat

(* The GAP9 has handled a packet, and left an answer, before the next tick.*)
InTime == GAP9_TICKS = 0

(* The GAP9 has taken in the packet of a call before the STM32 goes on, or *)
(* has missed it on its way back from an answer.                           *)
BeforeTheWait ==
  /\ gap = "decode" =>
       /\ pc = AfterPacket(call) /\ delay > 0 /\ ~skewed
       /\ cmd.whole => cmd.command = call /\ inStep
       /\ ~cmd.whole => (inStep <=> call \notin Request)
  /\ gap = "sent" =>
       /\ ~skewed
       /\ IF pc = "ready" THEN inStep
          ELSE /\ pc = AfterPacket(call) /\ delay > 0
               /\ inStep <=> call \notin Request

(* Work is done under a raised busy line, while the STM32 waits for it.    *)
AtWork ==
  /\ busy <=> gap = "work"
  /\ gap = "work" => pc \in {"rise", "poll"}
  /\ gap = "free" => pc \in {"rise", "poll"} \/ delay > 0
  /\ gap \in {"work", "free"} =>
       /\ call \in {"SCAN", "OPTIMIZE"} /\ inStep
       /\ cmd = [command |-> call, whole |-> TRUE]

(* An answer is ready for the request it belongs to, and for no other.     *)
AnswerReady ==
  /\ gap = "send" => /\ call \in Request /\ inStep
                     /\ cmd.command = call
  /\ gap = "receive" /\ call \in Request => ~inStep

(* Between calls the GAP9 waits for a packet or is about to; it has got    *)
(* other bytes exactly if a request was lost or half a packet came.        *)
BetweenCalls ==
  /\ pc = "ready" => gap \in {"receive", "sent"} /\ (skewed <=> ~inStep)
  /\ skewed => ~inStep /\ gap = "receive"
  /\ pc = "ready" <=> call = None
  /\ pc = "pause" => call \in OneWay \cup {"SCAN"}
  /\ pc \in {"rise", "poll"} => call \in {"SCAN", "OPTIMIZE"}
  /\ pc = "fetch" => call \in Request
  /\ call \in OneWay \cup {"SCAN"} => (inStep <=> ~skewed)

(* The two processors agree on where they are in a call although neither   *)
(* sees more of the other than the busy line (spi_comm.c:120-217,          *)
(* main.c:57-131).                                                         *)
Inv == TypeOK /\ BeforeTheWait /\ AtWork /\ AnswerReady /\ BetweenCalls

(* No call lasts for ever, whatever is damaged: the busy line comes down   *)
(* again, and a lost request has no answer that is waited for              *)
(* (spi_comm.c:142-145, 164-166).                                          *)
CallsReturn == call # None ~> call = None

(* The link keeps what the modules of the tasks take a call for: a packet  *)
(* that follows no answer at once finds the GAP9 waiting for it, each      *)
(* answer is of the request before it, and SCAN and OPTIMIZE return when   *)
(* they are done (spi_comm.c:120-217 against main.c:57-131).               *)
Calls == INSTANCE Gap9Calls WITH
  answering <- gap = "sent",
  pending <- IF gap \in {"decode", "work"} /\ cmd.whole THEN cmd.command
                                                        ELSE None

ImplementsCalls == Calls!Spec
=============================================================================
