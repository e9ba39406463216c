--------------------------- MODULE Gap9LinkProofs ---------------------------
(***************************************************************************)
(* Proofs about Gap9Link: with a GAP9 that has handled a packet, and left  *)
(* an answer, before the next tick of the STM32, the invariant Inv is      *)
(* inductive and the link implements the calls of Gap9Calls, however many  *)
(* packets are damaged, and however soon a call follows an answer.         *)
(***************************************************************************)
EXTENDS Gap9Link, TLAPS

LEMMA InitInv == Init => Inv
<1> SUFFICES ASSUME Init PROVE Inv
  OBVIOUS
<1> USE DEF Init, None, Command, OneWay, Request, Waits
<1>1. TypeOK
  <2>1. cmd \in [command : Command \cup {None}, whole : BOOLEAN]
    BY DEF NoPacket
  <2>2. busy \in BOOLEAN /\ skewed \in BOOLEAN /\ inStep \in BOOLEAN
    OBVIOUS
  <2>3. delay \in 0 .. 5 /\ age \in 0 .. GAP9_TICKS /\ damaged \in Nat
    BY LinkAssumption DEF LinkAssumption
  <2>4. QED BY <2>1, <2>2, <2>3 DEF TypeOK
<1>2. BeforeTheWait /\ AtWork /\ AnswerReady
  BY DEF BeforeTheWait, AtWork, AnswerReady
<1>3. BetweenCalls
  BY DEF BetweenCalls
<1>4. QED BY <1>1, <1>2, <1>3 DEF Inv

(* A packet is sent between calls: to a GAP9 that waits for it, or that is *)
(* on its way back from an answer.                                         *)
LEMMA ArrivesInv ==
  ASSUME NEW c \in Command, NEW whole \in BOOLEAN, Inv, Send(c, whole),
         Arrives(c, whole)
  PROVE  Inv'
<1> USE DEF Send, Arrives, Understood, AfterPacket, Delay, Inv, None, Command,
            OneWay, Request, Waits
<1>1. /\ gap = "receive" /\ gap' = "decode" /\ ~busy /\ ~busy' /\ ~skewed'
      /\ pc' = AfterPacket(c) /\ call' = c /\ delay' = Delay(c)
  BY DEF TypeOK, AtWork, BetweenCalls
<1>2. TypeOK'
  <2>1. cmd' \in [command : Command \cup {None}, whole : BOOLEAN]
    <3>1. NoPacket \in [command : Command \cup {None}, whole : BOOLEAN]
      BY DEF NoPacket
    <3>2. [command |-> c, whole |-> whole]
            \in [command : Command \cup {None}, whole : BOOLEAN]
      OBVIOUS
    <3>3. cmd' = NoPacket \/ cmd' = [command |-> c, whole |-> whole]
      BY <1>1
    <3>4. QED BY <3>1, <3>2, <3>3
  <2>2. inStep' \in BOOLEAN
    BY DEF TypeOK
  <2>3. damaged' \in Nat
    BY DEF TypeOK
  <2>4. delay' \in 0 .. 5 /\ age' \in 0 .. GAP9_TICKS
    BY <1>1, LinkAssumption DEF LinkAssumption, TypeOK
  <2>5. QED BY <1>1, <2>1, <2>2, <2>3, <2>4 DEF TypeOK
<1>3. BeforeTheWait'
  BY <1>1 DEF TypeOK, BeforeTheWait, BetweenCalls, NoPacket
<1>4. AtWork' /\ AnswerReady'
  BY <1>1 DEF AtWork, AnswerReady
<1>5. BetweenCalls'
  BY <1>1 DEF BetweenCalls
<1>6. QED BY <1>2, <1>3, <1>4, <1>5

LEMMA MissedInv ==
  ASSUME NEW c \in Command, NEW whole \in BOOLEAN, Inv, Send(c, whole),
         Missed \/ HalfArrives
  PROVE  Inv'
<1> USE DEF Send, Understood, AfterPacket, Delay, Inv, None, Command, OneWay,
            Request, Waits
<1>1. /\ gap = "sent" /\ ~busy /\ ~busy' /\ ~skewed /\ cmd' = cmd
      /\ \/ gap' = "sent" /\ ~skewed' /\ age' = age
         \/ gap' = "receive" /\ skewed' = TRUE /\ age' = 0
      /\ pc' = AfterPacket(c) /\ call' = c /\ delay' = Delay(c)
  BY DEF Missed, HalfArrives, gap9, TypeOK, BeforeTheWait, AtWork, BetweenCalls
<1>2. inStep' = (~skewed' /\ c \notin Request)
  BY <1>1
<1>3. TypeOK'
  <2>1. inStep' \in BOOLEAN
    BY <1>2, ZenonT(20)
  <2>2. skewed' \in BOOLEAN /\ busy' \in BOOLEAN
    <3>1. busy' = busy /\ (skewed' = skewed \/ skewed' = TRUE)
      BY DEF Missed, HalfArrives, gap9
    <3>2. QED BY <3>1 DEF TypeOK
  <2>3. damaged' \in Nat
    BY DEF TypeOK
  <2>4. delay' \in 0 .. 5 /\ age' \in 0 .. GAP9_TICKS
    BY <1>1, LinkAssumption DEF LinkAssumption, TypeOK
  <2>5. QED BY <1>1, <2>1, <2>2, <2>3, <2>4 DEF TypeOK
<1>4. BeforeTheWait' /\ AtWork' /\ AnswerReady'
  <2>1. BeforeTheWait'
    <3>1. pc' # "ready" /\ pc' = AfterPacket(call') /\ delay' > 0
      BY <1>1
    <3>2. gap' # "decode"
      BY <1>1
    <3>3. ASSUME gap' = "sent" PROVE ~skewed' /\ (inStep' <=> call' \notin Request)
      BY <1>1, <1>2, <3>3
    <3>4. QED BY ONLY <3>1, <3>2, <3>3 DEF BeforeTheWait
  <2>2. AtWork'
    BY <1>1 DEF AtWork
  <2>3. AnswerReady'
    BY <1>1, <1>2 DEF AnswerReady
  <2>4. QED BY <2>1, <2>2, <2>3
<1>5. BetweenCalls'
  BY <1>1, <1>2 DEF BetweenCalls
<1>6. QED BY <1>3, <1>4, <1>5

LEMMA SendInv ==
  ASSUME NEW c \in Command, NEW whole \in BOOLEAN, Inv, Send(c, whole)
  PROVE  Inv'
BY ArrivesInv, MissedInv DEF Send

LEMMA Stm32Inv ==
  ASSUME Inv, Stm32
  PROVE  Inv'
<1> USE DEF Inv, AfterPacket, Over, None, Command, OneWay, Request, Waits,
            gap9
<1>1. CASE StartPolling
  BY <1>1 DEF StartPolling, TypeOK, BeforeTheWait, AtWork, AnswerReady,
              BetweenCalls
<1>2. CASE Poll
  BY <1>2 DEF Poll, TypeOK, BeforeTheWait, AtWork, AnswerReady, BetweenCalls
<1>3. CASE EndPause
  BY <1>3 DEF EndPause, TypeOK, BeforeTheWait, AtWork, AnswerReady,
              BetweenCalls
<1>4. CASE Fetch
  <2>1. /\ gap \in {"send", "receive"} /\ call \in Request
        /\ gap = "send" <=> inStep
        /\ gap' = IF gap = "send" THEN "sent" ELSE "receive"
        /\ skewed' = (gap = "receive")
    BY <1>4 DEF Fetch, TypeOK, BeforeTheWait, AtWork, AnswerReady, BetweenCalls
  <2>2. TypeOK'
    <3>1. result' \in Request \cup {None}
      BY <1>4, <2>1 DEF Fetch, AnswerReady
    <3>2. skewed' \in BOOLEAN /\ age' \in 0 .. GAP9_TICKS
      BY <1>4, <2>1, LinkAssumption DEF LinkAssumption, Fetch, TypeOK
    <3>3. QED BY <1>4, <2>1, <3>1, <3>2 DEF Fetch, TypeOK
  <2>3. BeforeTheWait' /\ AtWork' /\ AnswerReady'
    BY <1>4, <2>1 DEF Fetch, BeforeTheWait, AtWork, AnswerReady
  <2>4. BetweenCalls'
    BY <1>4, <2>1 DEF Fetch, BetweenCalls
  <2>5. QED BY <2>2, <2>3, <2>4
<1>5. QED BY <1>1, <1>2, <1>3, <1>4 DEF Stm32

LEMMA Gap9Inv ==
  ASSUME Inv, slam_loop
  PROVE  Inv'
<1> USE DEF Inv, AfterPacket, Goto, stm, None, Command, OneWay, Request, Waits
<1>1. CASE Raise
  BY <1>1, LinkAssumption DEF LinkAssumption, Raise, TypeOK, BeforeTheWait,
     AtWork, AnswerReady, BetweenCalls
<1>2. CASE Store
  BY <1>2, LinkAssumption DEF LinkAssumption, Store, TypeOK, BeforeTheWait,
     AtWork, AnswerReady, BetweenCalls
<1>3. CASE Answer
  BY <1>3, LinkAssumption DEF LinkAssumption, Answer, TypeOK, BeforeTheWait,
     AtWork, AnswerReady, BetweenCalls
<1>4. CASE Lower
  <2>1. TypeOK'
    <3>1. busy' \in BOOLEAN
      BY <1>4 DEF Lower
    <3>2. age' \in 0 .. GAP9_TICKS
      BY <1>4, LinkAssumption DEF LinkAssumption, Lower
    <3>3. QED BY <1>4, <3>1, <3>2 DEF Lower, TypeOK
  <2>2. BeforeTheWait' /\ AnswerReady' /\ BetweenCalls'
    BY <1>4 DEF Lower, BeforeTheWait, AnswerReady, BetweenCalls
  <2>3. AtWork'
    BY <1>4 DEF Lower, AtWork
  <2>4. QED BY <2>1, <2>2, <2>3
<1>5. CASE Free
  BY <1>5, LinkAssumption DEF LinkAssumption, Free, TypeOK, BeforeTheWait,
     AtWork, AnswerReady, BetweenCalls
<1>6. CASE Rcv
  BY <1>6, LinkAssumption DEF LinkAssumption, Rcv, TypeOK, BeforeTheWait,
     AtWork, AnswerReady, BetweenCalls
<1>7. QED BY <1>1, <1>2, <1>3, <1>4, <1>5, <1>6 DEF slam_loop

(* No tick finds the GAP9 with a packet that it has not handled.           *)
LEMMA TickInv ==
  ASSUME InTime, Inv, Tick
  PROVE  Inv'
<1>1. gap \notin {"decode", "free", "sent"} /\ age' = age /\ delay' = delay - 1
  BY DEF InTime, Inv, TypeOK, Tick, OnItsWay
<1>2. QED
  BY <1>1, LinkAssumption DEF LinkAssumption, Tick, Inv, TypeOK,
     BeforeTheWait, AtWork, AnswerReady, BetweenCalls

LEMMA NextInv ==
  ASSUME InTime, Inv, [Next]_vars
  PROVE  Inv'
<1>1. CASE Next
  BY <1>1, SendInv, Stm32Inv, Gap9Inv, TickInv DEF Next
<1>2. CASE UNCHANGED vars
  BY <1>2 DEF vars, stm, gap9, Inv, TypeOK, BeforeTheWait, AtWork,
              AnswerReady, BetweenCalls
<1>3. QED BY <1>1, <1>2

(* The two processors agree on where they are in a call: slam_loop and the *)
(* functions of spi_comm.c, for any number of damaged packets.             *)
THEOREM LinkInvariant == InTime => (Spec => []Inv)
<1>1. InTime /\ Init => Inv
  BY InitInv
<1>2. InTime /\ Inv /\ [Next]_vars => Inv'
  BY NextInv
<1> SUFFICES ASSUME InTime PROVE Spec => []Inv
  OBVIOUS
<1>3. Init => Inv
  BY <1>1
<1>4. Inv /\ [Next]_vars => Inv'
  BY <1>2
<1>5. QED BY <1>3, <1>4, PTL DEF Spec

----------------------------------------------------------------------------
(* The step simulation                                                     *)

LEMMA CallsInit == Init => Calls!Init
BY DEF Init, Calls!Init, None

(* A packet that finds the GAP9 waiting, whole and in step, is delivered;  *)
(* every other one is lost.                                                *)
LEMMA SendSimulates ==
  ASSUME NEW c \in Command, NEW whole \in BOOLEAN, Inv, Send(c, whole)
  PROVE  Calls!Delivered(c) \/ Calls!Lost(c)
<1>1. /\ pc = "ready" /\ call = None /\ gap \in {"receive", "sent"}
      /\ skewed <=> ~inStep
      /\ call' = c /\ result' = result
  BY DEF Send, Inv, BetweenCalls
<1>2. Calls!Begin(c)
  BY <1>1 DEF Calls!Begin
<1>3. CASE gap = "receive" /\ whole /\ inStep
  <2>1. cmd' = [command |-> c, whole |-> TRUE] /\ gap' = "decode" /\ ~skewed'
    BY <1>1, <1>3 DEF Send, Arrives, Missed, HalfArrives
  <2>2. damaged' = damaged /\ inStep' = inStep
    BY <1>1, <1>3, <2>1 DEF Send, Understood, Inv, TypeOK
  <2>3. QED BY <1>1, <1>2, <1>3, <2>1, <2>2 DEF Calls!Delivered
<1>4. CASE gap = "receive" /\ ~(whole /\ inStep)
  <2>1. cmd'.whole = FALSE /\ gap' = "decode" /\ ~skewed'
    BY <1>1, <1>4 DEF Send, Arrives, Missed, HalfArrives, NoPacket, Inv, TypeOK
  <2>2. damaged' = damaged + 1 \/ (~inStep /\ damaged' = damaged)
    BY <1>4 DEF Send
  <2>3. inStep' = (c \notin Request)
    BY <1>4, <2>1 DEF Send, Understood
  <2>4. QED BY <1>1, <1>2, <1>4, <2>1, <2>2, <2>3 DEF Calls!Lost
<1>5. CASE gap = "sent"
  <2>1. \/ gap' = "sent" /\ skewed' = skewed
        \/ gap' = "receive" /\ skewed'
    BY <1>5 DEF Send, Arrives, Missed, HalfArrives, gap9
  <2>2. damaged' = damaged + 1 \/ damaged' = damaged
    BY DEF Send
  <2>3. ~skewed
    BY <1>5 DEF Inv, BeforeTheWait
  <2>4. inStep' = (~skewed' /\ c \notin Request)
    BY <1>5 DEF Send, Understood
  <2>5. CASE gap' = "sent" /\ skewed' = skewed
    <3>1. inStep' = (c \notin Request)
      BY <2>3, <2>4, <2>5
    <3>2. QED BY <1>1, <1>2, <1>5, <2>2, <2>5, <3>1 DEF Calls!Lost
  <2>6. CASE gap' = "receive" /\ skewed'
    <3>1. inStep' = FALSE
      BY <2>4, <2>6
    <3>2. QED BY <1>1, <1>2, <1>5, <2>2, <2>6, <3>1 DEF Calls!Lost
  <2>7. QED BY <2>1, <2>5, <2>6
<1>6. QED BY <1>1, <1>3, <1>4, <1>5

(* A call returns when what it stands for has been done.                   *)
LEMMA Stm32Simulates ==
  ASSUME Inv, Stm32
  PROVE  Calls!Return \/ UNCHANGED Calls!vars
<1> USE DEF gap9, None
<1>1. CASE StartPolling \/ Poll
  BY <1>1 DEF StartPolling, Poll, Over, Calls!vars
<1>2. CASE EndPause
  <2>1. /\ call # None /\ gap \notin {"decode", "work", "sent"}
        /\ call \notin Request
        /\ call' = None /\ UNCHANGED <<gap, cmd, inStep, result, damaged>>
    BY <1>2 DEF EndPause, Inv, TypeOK, BeforeTheWait, AtWork, BetweenCalls,
                OneWay, Request, AfterPacket
  <2>2. QED BY <2>1 DEF Calls!Return
<1>3. CASE Fetch
  <2>1. /\ call # None /\ gap \notin {"decode", "work"} /\ call \in Request
        /\ gap \in {"send", "receive"}
        /\ gap = "send" => inStep /\ cmd.command = call
        /\ gap = "receive" => ~inStep
    BY <1>3 DEF Fetch, Inv, TypeOK, BeforeTheWait, AtWork, BetweenCalls,
                AnswerReady, Request
  <2>2. /\ call' = None /\ gap' = IF inStep THEN "sent" ELSE "receive"
        /\ UNCHANGED <<cmd, inStep, damaged>>
        /\ result' = IF inStep THEN call ELSE None
    BY <1>3, <2>1 DEF Fetch
  <2>3. inStep \in BOOLEAN
    BY DEF Inv, TypeOK
  <2>4. QED BY <2>1, <2>2, <2>3 DEF Calls!Return
<1>4. QED BY <1>1, <1>2, <1>3 DEF Stm32

(* A command is executed when it is stored, when its answer is ready, and  *)
(* when the work it asks for is done; after an answer the GAP9 receives.   *)
LEMMA Gap9Simulates ==
  ASSUME Inv, slam_loop
  PROVE  Calls!Execute \/ Calls!Receive \/ UNCHANGED Calls!vars
<1> USE DEF Goto, stm, None
<1>1. CASE Raise
  BY <1>1 DEF Raise, Calls!vars
<1>2. CASE Store
  <2>1. CASE cmd.whole
    BY <1>2, <2>1 DEF Store, Calls!Execute, OneWay
  <2>2. CASE ~cmd.whole
    BY <1>2, <2>2 DEF Store, Calls!vars
  <2>3. QED BY <2>1, <2>2
<1>3. CASE Answer
  BY <1>3 DEF Answer, Calls!Execute
<1>4. CASE Lower
  <2>1. cmd.whole /\ cmd.command \in {"SCAN", "OPTIMIZE"}
    BY <1>4 DEF Lower, Inv, AtWork
  <2>2. QED BY <1>4, <2>1 DEF Lower, Calls!Execute
<1>5. CASE Free
  BY <1>5 DEF Free, Calls!vars
<1>6. CASE Rcv
  BY <1>6 DEF Rcv, Calls!Receive
<1>7. QED BY <1>1, <1>2, <1>3, <1>4, <1>5, <1>6 DEF slam_loop

LEMMA NextSimulates ==
  ASSUME Inv, [Next]_vars
  PROVE  [Calls!Next]_(Calls!vars)
<1>1. ASSUME NEW c \in Command, NEW whole \in BOOLEAN, Send(c, whole)
      PROVE  Calls!Next
  BY <1>1, SendSimulates DEF Calls!Next
<1>2. CASE Stm32
  BY <1>2, Stm32Simulates DEF Calls!Next
<1>3. CASE slam_loop
  BY <1>3, Gap9Simulates DEF Calls!Next
<1>4. CASE Tick
  BY <1>4 DEF Tick, Calls!vars
<1>5. CASE UNCHANGED vars
  BY <1>5 DEF vars, stm, gap9, Calls!vars
<1>6. QED BY <1>1, <1>2, <1>3, <1>4, <1>5 DEF Next

(* The tasks of the STM32 may take the functions of spi_comm.c for calls   *)
(* of Gap9Calls, for any number of damaged packets.                        *)
THEOREM LinkImplementsCalls == InTime => (Spec => ImplementsCalls)
<1>1. InTime => (Spec => []Inv)
  BY LinkInvariant
<1>2. Init => Calls!Init
  BY CallsInit
<1>3. Inv /\ [Next]_vars => [Calls!Next]_(Calls!vars)
  BY NextSimulates
<1>4. QED BY <1>1, <1>2, <1>3, PTL DEF Spec, ImplementsCalls, Calls!Spec
=============================================================================
