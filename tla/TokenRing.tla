----------------------------- MODULE TokenRing -----------------------------
(***************************************************************************)
(* The token ring of the swarm: uwb_ranging_task (uwb_ranging.c), run by   *)
(* every drone.  The drone that has the token ranges with the others,      *)
(* broadcasts its new scan, optimises its map and passes the token; the    *)
(* others listen.  A token is a radio message that is acknowledged by the  *)
(* responder of the receiver, resent until the acknowledgement arrives,    *)
(* and CLAIMED by the receiver only when no message and no measurement has *)
(* reached its task for more than 2 * RETRY_TIME_MS.                       *)
(*                                                                         *)
(* Time is counted in retry periods of the sender (the failed exchange and *)
(* its vTaskDelay(RETRY_TIME_MS)), between RETRY_TIME_MS and twice it.     *)
(***************************************************************************)
EXTENDS Integers, Sequences

CONSTANTS
  NR_OF_NODES,   \* drones of the swarm, numbered from 0
  ATTEMPTS,      \* exchanges tried with one target before the next one (5)
  MaxLoss,       \* exchanges with a listening target that one hop may lose
  ClaimMin,      \* retry periods after which a claim may be due (2)
  ClaimMax,      \* retry periods after which it has been made (3)
  MaxMsgs,       \* bound: data packets are dropped at a queue of this length
  Powered,       \* drones that are switched on at the start of the mission
  MayFail        \* drones that may lose power while they listen

Node == 0 .. NR_OF_NODES - 1

ASSUME NodeAssumption == NR_OF_NODES \in Nat \ {0}

ASSUME RetryAssumption ==
  /\ ATTEMPTS \in Nat \ {0}
  /\ MaxLoss \in Nat
  /\ ClaimMin \in Nat \ {0}
  /\ ClaimMax \in Nat /\ ClaimMin <= ClaimMax
  /\ MaxMsgs \in Nat

ASSUME PowerAssumption ==
  /\ Powered \subseteq Node /\ 0 \in Powered
  /\ MayFail \subseteq Powered

VARIABLES
  up,                    \* the drones that are on
  agent_has_token,       \* the task's local variable
  pc,                    \* where the task is
  optimize,              \* optimise in this (the next) turn
  send_token_with_opt,   \* the next token asks its receiver to optimise
  target_id,             \* drone the token is being passed to
  attempt,               \* exchanges tried with target_id
  wait,                  \* retry periods until the next exchange
  losses,                \* exchanges lost in this hop by a listening target
  token_age,             \* periods since token_rcv_time, None if it is 0
  msrm,                  \* a measurement is waiting in the UWB driver
  msgs                   \* messages waiting in the UWB driver

turnVars == <<optimize, send_token_with_opt>>
passVars == <<target_id, attempt, wait, losses>>
rcvVars  == <<token_age, msrm, msgs>>
vars == <<up, agent_has_token, pc, turnVars, passVars, rcvVars>>

None == -1
SelfWait == 2      \* the 10 ms of a drone that found nobody to pass to
Message == {"TOKEN", "TOKENOPT", "DATA"}
Token == {"TOKEN", "TOKENOPT"}
Listen == {"msrm", "msg", "check"}          \* the steps of listening mode
Turn == {"range", "scan", "optimize", "settle", "pass"}  \* of transmit mode

TypeOK ==
  /\ up \subseteq Node
  /\ agent_has_token \in [Node -> BOOLEAN]
  /\ pc \in [Node -> Listen \cup Turn]
  /\ optimize \in [Node -> BOOLEAN]
  /\ send_token_with_opt \in [Node -> BOOLEAN]
  /\ target_id \in [Node -> Node]
  /\ attempt \in [Node -> 0 .. ATTEMPTS]
  /\ wait \in [Node -> 0 .. SelfWait]
  /\ losses \in [Node -> 0 .. MaxLoss]
  /\ token_age \in [Node -> {None} \cup (0 .. ClaimMax)]
  /\ msrm \in [Node -> BOOLEAN]
  /\ msgs \in [Node -> Seq(Message)]

----------------------------------------------------------------------------
(* The radio.  The responder is off exactly while the task has the token.  *)
Responding(r) == r \in up /\ ~agent_has_token[r]

(* Mutant: the last drone is left out.                                     *)
NextButLast(node) == (node + 1) % (NR_OF_NODES - 1)

get_next_node(node) == (node + 1) % NR_OF_NODES

(* One data packet of a stream reaches the drones of S; each of the three  *)
(* attempts of uwb_send_data_packet may fail, which is only logged.        *)
Delivered(S) ==
  [r \in Node |-> IF r \in S /\ Len(msgs[r]) < MaxMsgs
                    THEN Append(msgs[r], "DATA") ELSE msgs[r]]

HigherListeners(n) == {r \in Node : r > n /\ Responding(r)}

Init ==
  /\ up = Powered
  /\ agent_has_token = [n \in Node |-> n = 0]
  /\ pc = [n \in Node |-> IF n = 0 THEN "range" ELSE "msrm"]
  /\ optimize = [n \in Node |-> FALSE]
  /\ send_token_with_opt = [n \in Node |-> FALSE]
  /\ target_id = [n \in Node |-> n]
  /\ attempt = [n \in Node |-> ATTEMPTS]
  /\ wait = [n \in Node |-> 0]
  /\ losses = [n \in Node |-> 0]
  /\ token_age = [n \in Node |-> None]
  /\ msrm = [n \in Node |-> FALSE]
  /\ msgs = [n \in Node |-> <<>>]

----------------------------------------------------------------------------
(* Transmit mode *)

(* 1. Range with the other drones: those that hear it get a measurement.   *)
Range(n) ==
  /\ n \in up /\ pc[n] = "range"
  /\ \E heard \in SUBSET {r \in Node \ {n} : Responding(r)} :
       msrm' = [r \in Node |-> msrm[r] \/ r \in heard]
  /\ pc' = [pc EXCEPT ![n] = "scan"]
  /\ UNCHANGED <<up, agent_has_token, turnVars, passVars, token_age, msgs>>

(* 2. and 3. Send the new scan, if there is one, to the higher drones.     *)
(* Drone 0 decides to optimise in the turn of every fourth scan.           *)
SendScan(n) ==
  /\ n \in up /\ pc[n] = "scan"
  /\ \E got \in SUBSET HigherListeners(n), due \in BOOLEAN :
       /\ due => n = 0
       /\ msgs' = Delivered(got)
       /\ optimize' = [optimize EXCEPT ![n] = @ \/ due]
       /\ send_token_with_opt' = [send_token_with_opt EXCEPT ![n] = @ \/ due]
  /\ pc' = [pc EXCEPT ![n] = "optimize"]
  /\ UNCHANGED <<up, agent_has_token, passVars, token_age, msrm>>

(* Mutant: the next drone is not asked to optimise.                        *)
OptimizeAlone(n) ==
  /\ n \in up /\ pc[n] = "optimize"
  /\ \/ /\ optimize[n]
        /\ \E got \in SUBSET HigherListeners(n) : msgs' = Delivered(got)
        /\ optimize' = [optimize EXCEPT ![n] = FALSE]
     \/ ~optimize[n] /\ UNCHANGED <<optimize, msgs>>
  /\ pc' = [pc EXCEPT ![n] = "settle"]
  /\ UNCHANGED <<up, agent_has_token, send_token_with_opt, passVars, token_age,
                 msrm>>

(* 4. Optimise, send the new poses to the higher drones, and make the next *)
(* drone optimise.                                                         *)
Optimize(n) ==
  /\ n \in up /\ pc[n] = "optimize"
  /\ \/ /\ optimize[n]
        /\ \E got \in SUBSET HigherListeners(n) : msgs' = Delivered(got)
        /\ optimize' = [optimize EXCEPT ![n] = FALSE]
        /\ send_token_with_opt' = [send_token_with_opt EXCEPT ![n] = TRUE]
     \/ /\ ~optimize[n]
        /\ UNCHANGED <<turnVars, msgs>>
  /\ pc' = [pc EXCEPT ![n] = "settle"]
  /\ UNCHANGED <<up, agent_has_token, passVars, token_age, msrm>>

(* vTaskDelay(2) before the token: longer than the 1 tick a listener may   *)
(* block on its messages before it polls its measurements again, so the    *)
(* measurement of this turn has been read by then.                         *)
Settled == \A r \in Node : pc[r] \in Listen => ~msrm[r]

(* Mutant: the delay before the token is left out.                         *)
BeginPassAtOnce(n) ==
  /\ n \in up /\ pc[n] = "settle"
  /\ pc' = [pc EXCEPT ![n] = "pass"]
  /\ target_id' = [target_id EXCEPT ![n] = n]
  /\ attempt' = [attempt EXCEPT ![n] = ATTEMPTS]
  /\ UNCHANGED <<up, agent_has_token, turnVars, wait, losses, rcvVars>>

BeginPass(n) ==
  /\ n \in up /\ pc[n] = "settle"
  /\ Settled
  /\ pc' = [pc EXCEPT ![n] = "pass"]
  /\ target_id' = [target_id EXCEPT ![n] = n]
  /\ attempt' = [attempt EXCEPT ![n] = ATTEMPTS]
  /\ UNCHANGED <<up, agent_has_token, turnVars, wait, losses, rcvVars>>

(* The next target after one that did not answer; a drone that has tried   *)
(* everybody waits 10 ms and starts again.  The request to optimise is     *)
(* cleared by the first target that was tried, answer or not.              *)
NextTarget(n) ==
  /\ n \in up /\ pc[n] = "pass"
  /\ attempt[n] = ATTEMPTS /\ wait[n] = 0
  /\ LET next == get_next_node(target_id[n]) IN
       /\ target_id' = [target_id EXCEPT ![n] = next]
       /\ attempt' = [attempt EXCEPT ![n] = IF next = n THEN ATTEMPTS ELSE 0]
       /\ wait' = [wait EXCEPT ![n] = IF next = n THEN SelfWait ELSE 0]
  /\ losses' = [losses EXCEPT ![n] = 0]
  /\ send_token_with_opt' =
       [send_token_with_opt EXCEPT ![n] = @ /\ target_id[n] = n]
  /\ UNCHANGED <<up, agent_has_token, pc, optimize, rcvVars>>

TokenFor(n) ==
  IF send_token_with_opt[n] /\ target_id[n] > n THEN "TOKENOPT" ELSE "TOKEN"

ReadyToSend(n) ==
  n \in up /\ pc[n] = "pass" /\ attempt[n] < ATTEMPTS /\ wait[n] = 0

Received(n) ==
  msgs' = [msgs EXCEPT ![target_id[n]] = Append(@, TokenFor(n))]

(* The token arrived and so did its acknowledgement: listen.               *)
PassOk(n) ==
  /\ ReadyToSend(n) /\ Responding(target_id[n])
  /\ Received(n)
  /\ agent_has_token' = [agent_has_token EXCEPT ![n] = FALSE]
  /\ pc' = [pc EXCEPT ![n] = "msrm"]
  /\ send_token_with_opt' = [send_token_with_opt EXCEPT ![n] = FALSE]
  /\ attempt' = [attempt EXCEPT ![n] = ATTEMPTS]
  /\ target_id' = [target_id EXCEPT ![n] = n]
  /\ losses' = [losses EXCEPT ![n] = 0]
  /\ UNCHANGED <<up, optimize, wait, token_age, msrm>>

(* Mutant: a target is given up after one exchange.                        *)
FailedForGood(n) ==
  /\ attempt' = [attempt EXCEPT ![n] = ATTEMPTS]
  /\ wait' = [wait EXCEPT ![n] = 1]
  /\ UNCHANGED <<up, agent_has_token, pc, turnVars, target_id, token_age, msrm>>

Failed(n) ==
  /\ attempt' = [attempt EXCEPT ![n] = @ + 1]
  /\ wait' = [wait EXCEPT ![n] = 1]
  /\ UNCHANGED <<up, agent_has_token, pc, turnVars, target_id, token_age, msrm>>

(* The target is off, or has the token itself: nobody answers.             *)
NoAnswer(n) ==
  /\ ReadyToSend(n) /\ ~Responding(target_id[n])
  /\ Failed(n)
  /\ UNCHANGED <<losses, msgs>>

(* The token is lost on its way.                                           *)
TokenLost(n) ==
  /\ ReadyToSend(n) /\ Responding(target_id[n]) /\ losses[n] < MaxLoss
  /\ Failed(n)
  /\ losses' = [losses EXCEPT ![n] = @ + 1]
  /\ UNCHANGED msgs

(* The token arrives, its acknowledgement does not.                        *)
AckLost(n) ==
  /\ ReadyToSend(n) /\ Responding(target_id[n]) /\ losses[n] < MaxLoss
  /\ Received(n)
  /\ Failed(n)
  /\ losses' = [losses EXCEPT ![n] = @ + 1]

----------------------------------------------------------------------------
(* Listening mode: one round of the loop.  Each poll gives up after a tick *)
(* when nothing has arrived.                                               *)
Goto(n, next) == pc' = [pc EXCEPT ![n] = next]

PollMeasurement(n) ==
  /\ n \in up /\ pc[n] = "msrm" /\ Goto(n, "msg")
  /\ \/ /\ msrm[n]
        /\ msrm' = [msrm EXCEPT ![n] = FALSE]
        /\ token_age' = [token_age EXCEPT ![n] = None]
     \/ ~msrm[n] /\ UNCHANGED <<msrm, token_age>>
  /\ UNCHANGED <<up, agent_has_token, turnVars, passVars, msgs>>

PollMessage(n) ==
  /\ n \in up /\ pc[n] = "msg" /\ Goto(n, "check")
  /\ \/ /\ msgs[n] # <<>>
        /\ LET m == Head(msgs[n]) IN
             /\ token_age' =
                  [token_age EXCEPT ![n] = IF m \in Token THEN 0 ELSE None]
             /\ optimize' = [optimize EXCEPT ![n] = @ \/ m = "TOKENOPT"]
        /\ msgs' = [msgs EXCEPT ![n] = Tail(@)]
     \/ msgs[n] = <<>> /\ UNCHANGED <<msgs, token_age, optimize>>
  /\ UNCHANGED <<up, agent_has_token, send_token_with_opt, passVars, msrm>>

(* Mutant: the claim is made after one period of silence.                  *)
ClaimEarly(n) ==
  /\ n \in up /\ pc[n] = "check" /\ token_age[n] >= 1
  /\ token_age' = [token_age EXCEPT ![n] = None]
  /\ agent_has_token' = [agent_has_token EXCEPT ![n] = TRUE]
  /\ Goto(n, "range")
  /\ UNCHANGED <<up, turnVars, passVars, msrm, msgs>>

(* Mutant: the time of the token is kept after it was claimed.             *)
ClaimNoReset(n) ==
  /\ n \in up /\ pc[n] = "check" /\ token_age[n] >= ClaimMin
  /\ agent_has_token' = [agent_has_token EXCEPT ![n] = TRUE]
  /\ Goto(n, "range")
  /\ UNCHANGED <<up, turnVars, passVars, rcvVars>>

(* The token is the drone's when it has been silent since for more than    *)
(* 2 * RETRY_TIME_MS: the sender has had its acknowledgement.              *)
ClaimToken(n) ==
  /\ n \in up /\ pc[n] = "check" /\ token_age[n] >= ClaimMin
  /\ token_age' = [token_age EXCEPT ![n] = None]
  /\ agent_has_token' = [agent_has_token EXCEPT ![n] = TRUE]
  /\ Goto(n, "range")
  /\ UNCHANGED <<up, turnVars, passVars, msrm, msgs>>

NotYet(n) ==
  /\ n \in up /\ pc[n] = "check" /\ token_age[n] < ClaimMax
  /\ Goto(n, "msrm")
  /\ UNCHANGED <<up, agent_has_token, turnVars, passVars, rcvVars>>

----------------------------------------------------------------------------
(* The environment *)

(* A drone is being handed the token from the first copy it receives until *)
(* it claims it.                                                           *)
HasToken(s) == \E k \in 1 .. Len(s) : s[k] \in Token
TokenAt(r) == token_age[r] # None \/ HasToken(msgs[r])

(* A listener that is not being handed the token loses power.              *)
PowerOff(n) ==
  /\ n \in MayFail \cap up /\ pc[n] \in Listen /\ ~TokenAt(n)
  /\ up' = up \ {n}
  /\ optimize' = [optimize EXCEPT ![n] = FALSE]
  /\ msrm' = [msrm EXCEPT ![n] = FALSE]
  /\ msgs' = [msgs EXCEPT ![n] = <<>>]
  /\ UNCHANGED <<agent_has_token, pc, send_token_with_opt, passVars, token_age>>

(* One retry period passes.  Tasks are faster than that: a sender whose    *)
(* delay is over has sent, a listener has read what has arrived and made   *)
(* the claim that is overdue.                                              *)
MayWait(n) ==
  /\ pc[n] = "pass" => wait[n] > 0
  /\ pc[n] \in Listen => /\ msgs[n] = <<>> /\ ~msrm[n]
                        /\ token_age[n] < ClaimMax

Tick ==
  /\ \A n \in up : MayWait(n)
  /\ \E n \in up : token_age[n] # None \/ wait[n] > 0
  /\ token_age' = [n \in Node |-> IF token_age[n] = None \/ token_age[n] = ClaimMax
                                    THEN token_age[n] ELSE token_age[n] + 1]
  /\ wait' = [n \in Node |-> IF wait[n] > 0 THEN wait[n] - 1 ELSE 0]
  /\ UNCHANGED <<up, agent_has_token, pc, turnVars, target_id, attempt, losses,
                 msrm, msgs>>

Exchange(n) == PassOk(n) \/ NoAnswer(n) \/ TokenLost(n) \/ AckLost(n)

Transmit(n) ==
  \/ Range(n) \/ SendScan(n) \/ Optimize(n)
  \/ BeginPass(n) \/ NextTarget(n) \/ Exchange(n)

Receive(n) ==
  PollMeasurement(n) \/ PollMessage(n) \/ ClaimToken(n) \/ NotYet(n)

Next == Tick \/ \E n \in Node : Transmit(n) \/ Receive(n) \/ PowerOff(n)

(* The two modes of the loop keep running on every drone (FreeRTOS gives   *)
(* the UWB task priority 4), and time passes.                              *)
Fairness ==
  /\ WF_vars(Tick)
  /\ \A n \in Node : WF_vars(Transmit(n)) /\ WF_vars(Receive(n))

Spec == Init /\ [][Next]_vars
FairSpec == Spec /\ Fairness

----------------------------------------------------------------------------
(* Correctness *)

(* While one drone has the token no other has it, and another one is being *)
(* handed it only as the target of the exchange under way: the sender and  *)
(* the receiver never act on the token at the same time                    *)
(* (uwb_ranging.c:464-485 against 500-538).                                *)
OneToken ==
  \A m, n \in Node : m # n /\ agent_has_token[m] =>
    /\ ~agent_has_token[n]
    /\ TokenAt(n) => pc[m] = "pass" /\ target_id[m] = n

(* The token is never lost: some drone has it or is about to claim it.     *)
(* A late measurement or message would cancel the claim (lines 489, 499).  *)
TokenNotLost == \E n \in up : agent_has_token[n] \/ TokenAt(n)

(* Every drone that stays on gets the token again and again.               *)
EveryDroneGetsToken == \A n \in Node : []<>(agent_has_token[n] \/ n \notin up)

(* When drone 0 optimises its map, every other drone is told to optimise,  *)
(* if all drones stay on (lines 449-462, 501-504).                         *)
AllOptimize ==
  [](up = Node) =>
    \A n \in Node \ {0} : (pc[0] = "optimize" /\ optimize[0]) ~> optimize[n]

----------------------------------------------------------------------------
(* Why the ring is correct: the invariant that every step preserves when a *)
(* hop loses fewer exchanges than the claim takes retry periods, and than  *)
(* a sender tries.                                                         *)
FewLosses == MaxLoss < ClaimMin /\ MaxLoss < ATTEMPTS

(* The data of a stream is read before the token that follows it.          *)
OnlyTokens(s) == \A k \in 1 .. Len(s) : s[k] \in Token
TokensLast(s) ==
  \A k \in 1 .. Len(s) : s[k] \in Token => \A l \in k .. Len(s) : s[l] \in Token

ModesAgree == \A n \in Node : agent_has_token[n] <=> pc[n] \in Turn

OffIsSilent ==
  \A n \in Node \ up : ~agent_has_token[n] /\ ~msrm[n] /\ ~TokenAt(n)

(* A listening target answers, so every failed exchange with it was lost.  *)
LossesCounted ==
  \A n \in Node :
    /\ attempt[n] < ATTEMPTS => target_id[n] # n /\ wait[n] <= 1
    /\ pc[n] = "pass" /\ target_id[n] # n /\ target_id[n] \in up =>
         attempt[n] = losses[n]

(* A receiver that has the token already counts the sender's failures.     *)
Overlap ==
  \A m, n \in Node : m # n /\ agent_has_token[m] =>
    /\ ~agent_has_token[n]
    /\ TokenAt(n) => /\ pc[m] = "pass" /\ target_id[m] = n
                     /\ losses[m] >= 1 /\ token_age[n] <= losses[m] - wait[m]

ClaimOnce ==
  \A m, n \in Node :
    /\ TokenAt(m) /\ TokenAt(n) => m = n
    /\ agent_has_token[n] => ~TokenAt(n)
    /\ HasToken(msgs[n]) => token_age[n] < ClaimMin

(* Nothing that cancels a claim can still arrive before it is made.        *)
NothingCancels ==
  \A n \in Node :
    /\ TokensLast(msgs[n])
    /\ token_age[n] # None => OnlyTokens(msgs[n])
    /\ msrm[n] => /\ pc[n] \in Listen
                  /\ \E h \in Node : pc[h] \in {"scan", "optimize", "settle"}

Inv ==
  /\ TypeOK /\ ModesAgree /\ OffIsSilent /\ LossesCounted
  /\ Overlap /\ ClaimOnce /\ NothingCancels /\ TokenNotLost

----------------------------------------------------------------------------
(* The ring implements TokenPassing: the token of the abstract ring is     *)
(* where a drone has it, or else where a drone is being handed it.         *)
TheHolder ==
  IF \E n \in Node : agent_has_token[n]
    THEN CHOOSE n \in Node : agent_has_token[n]
    ELSE CHOOSE n \in Node : TokenAt(n)

Abs == INSTANCE TokenPassing
         WITH holder <- TheHolder, held <- \E n \in Node : agent_has_token[n]

(* Every drone that was passed over since the sender's turn began is off:  *)
(* the target is the next drone that is on, if it is on itself.            *)
PassedOverAreOff ==
  \A n \in Node : pc[n] = "pass" /\ target_id[n] # n =>
    \A c \in up \ {n} : Abs!Distance(n, target_id[n]) <= Abs!Distance(n, c)

(* Each turn ends with the token handed to the next drone that is on.      *)
PassesInOrder == Abs!Spec

ImplementsTokenPassing == Abs!FairSpec
=============================================================================
