-------------------------- MODULE TokenRingProofs --------------------------
(***************************************************************************)
(* Proofs about the token ring for every number of drones, every number of *)
(* attempts and every claim time: as long as a hop loses fewer exchanges   *)
(* than the claim takes retry periods, and than a sender tries, there is   *)
(* exactly one token.                                                      *)
(***************************************************************************)
EXTENDS TokenRing, TLAPS

(* A queue that receives a message has a token if it had one or got one.   *)
LEMMA AppendToken ==
  ASSUME NEW s \in Seq(Message), NEW m \in Message
  PROVE  /\ Append(s, m) \in Seq(Message)
         /\ HasToken(Append(s, m)) <=> HasToken(s) \/ m \in Token
         /\ OnlyTokens(s) /\ m \in Token => OnlyTokens(Append(s, m))
         /\ TokensLast(s) /\ (m \in Token \/ ~HasToken(s))
              => TokensLast(Append(s, m))
<1> DEFINE t == Append(s, m)
<1>1. /\ t \in Seq(Message) /\ Len(t) = Len(s) + 1 /\ Len(s) \in Nat
      /\ \A k \in 1 .. Len(s) : t[k] = s[k]
      /\ t[Len(t)] = m
  OBVIOUS
<1> HIDE DEF t
<1>2. HasToken(t) <=> HasToken(s) \/ m \in Token
  BY <1>1 DEF HasToken
<1>3. OnlyTokens(s) /\ m \in Token => OnlyTokens(t)
  BY <1>1 DEF OnlyTokens
<1>4. TokensLast(s) /\ (m \in Token \/ ~HasToken(s)) => TokensLast(t)
  BY <1>1 DEF TokensLast, HasToken
<1>5. QED BY <1>1, <1>2, <1>3, <1>4 DEF t

(* What is left of a queue whose first message has been read.              *)
LEMMA TailToken ==
  ASSUME NEW s \in Seq(Message), s # <<>>
  PROVE  /\ Tail(s) \in Seq(Message) /\ Head(s) \in Message
         /\ HasToken(Tail(s)) => HasToken(s)
         /\ Head(s) \in Token => HasToken(s)
         /\ HasToken(s) /\ Head(s) \notin Token => HasToken(Tail(s))
         /\ TokensLast(s) => TokensLast(Tail(s))
         /\ OnlyTokens(s) => OnlyTokens(Tail(s)) /\ Head(s) \in Token
         /\ TokensLast(s) /\ Head(s) \in Token => OnlyTokens(Tail(s))
<1> DEFINE t == Tail(s)
<1>1. /\ t \in Seq(Message) /\ Len(t) = Len(s) - 1 /\ Len(s) \in Nat \ {0}
      /\ \A k \in 1 .. Len(t) : t[k] = s[k + 1]
      /\ Head(s) = s[1] /\ Head(s) \in Message
  OBVIOUS
<1> HIDE DEF t
<1>2. HasToken(t) => HasToken(s)
  BY <1>1 DEF HasToken
<1>3. Head(s) \in Token => HasToken(s)
  BY <1>1 DEF HasToken
<1>4. ASSUME HasToken(s), Head(s) \notin Token PROVE HasToken(t)
  <2>1. PICK k \in 1 .. Len(s) : s[k] \in Token
    BY <1>4 DEF HasToken
  <2>2. k # 1 /\ k - 1 \in 1 .. Len(t) /\ t[k - 1] = s[k]
    BY <2>1, <1>1, <1>4
  <2>3. QED BY <2>1, <2>2 DEF HasToken
<1>5. TokensLast(s) => TokensLast(t)
  BY <1>1 DEF TokensLast
<1>6. OnlyTokens(s) => OnlyTokens(t) /\ Head(s) \in Token
  BY <1>1 DEF OnlyTokens
<1>7. TokensLast(s) /\ Head(s) \in Token => OnlyTokens(t)
  BY <1>1 DEF TokensLast, OnlyTokens
<1>8. QED BY <1>1, <1>2, <1>3, <1>4, <1>5, <1>6, <1>7 DEF t

(* An empty queue has no token.                                            *)
LEMMA EmptyQueue ==
  <<>> \in Seq(Message) /\ ~HasToken(<<>>) /\ OnlyTokens(<<>>) /\ TokensLast(<<>>)
BY DEF HasToken, OnlyTokens, TokensLast

(* The next drone of the ring is a drone.                                  *)
LEMMA NextNode == ASSUME NEW n \in Node PROVE get_next_node(n) \in Node
<1>1. n \in Nat /\ n + 1 \in Nat /\ NR_OF_NODES \in Nat \ {0}
  BY NodeAssumption DEF Node
<1>2. (n + 1) % NR_OF_NODES \in 0 .. NR_OF_NODES - 1
  BY <1>1
<1>3. QED BY <1>2 DEF get_next_node, Node

----------------------------------------------------------------------------
(* Every variable keeps its type. *)

(* The token that is sent is a message, and a token. *)
LEMMA TokenForType == ASSUME NEW n \in Node PROVE TokenFor(n) \in Message \cap Token
BY DEF TokenFor, Message, Token

(* The tasks start with every variable in its type (uwb_ranging.c:363-377). *)
LEMMA TypeInit == Init => TypeOK
BY NodeAssumption, RetryAssumption, PowerAssumption, EmptyQueue
   DEF Init, TypeOK, Node, Listen, Turn, None, SelfWait

(* No step of a task, of the radio or of time takes one out of it.         *)
LEMMA TypeStep == TypeOK /\ [Next]_vars => TypeOK'
<1> SUFFICES ASSUME TypeOK, [Next]_vars PROVE TypeOK'
  OBVIOUS
<1> USE NodeAssumption, RetryAssumption DEF TypeOK
<1>1. ASSUME NEW n \in Node, Range(n) PROVE TypeOK'
  BY <1>1 DEF Range, turnVars, passVars, Turn
<1>2. ASSUME NEW n \in Node, SendScan(n) PROVE TypeOK'
  <2>1. ASSUME NEW S \in SUBSET Node PROVE Delivered(S) \in [Node -> Seq(Message)]
    BY DEF Delivered, Message
  <2>2. msgs' \in [Node -> Seq(Message)]
    <3>1. PICK got \in SUBSET HigherListeners(n) : msgs' = Delivered(got)
      BY <1>2 DEF SendScan
    <3>2. got \in SUBSET Node
      BY DEF HigherListeners
    <3>3. QED BY <3>1, <3>2, <2>1
  <2>3. QED BY <1>2, <2>2 DEF SendScan, turnVars, passVars, Turn
<1>3. ASSUME NEW n \in Node, Optimize(n) PROVE TypeOK'
  <2>1. ASSUME NEW S \in SUBSET Node PROVE Delivered(S) \in [Node -> Seq(Message)]
    BY DEF Delivered, Message
  <2>2. msgs' \in [Node -> Seq(Message)]
    BY <1>3, <2>1 DEF Optimize, HigherListeners, Responding
  <2>3. QED BY <1>3, <2>2 DEF Optimize, turnVars, passVars, Turn
<1>4. ASSUME NEW n \in Node, BeginPass(n) PROVE TypeOK'
  BY <1>4 DEF BeginPass, turnVars, rcvVars, Turn
<1>5. ASSUME NEW n \in Node, NextTarget(n) PROVE TypeOK'
  BY <1>5, NextNode DEF NextTarget, rcvVars, SelfWait
<1>6. ASSUME NEW n \in Node, PassOk(n) PROVE TypeOK'
  <2>1. msgs' \in [Node -> Seq(Message)]
    BY <1>6, TokenForType, AppendToken DEF PassOk, Received
  <2>2. attempt' \in [Node -> 0 .. ATTEMPTS] /\ losses' \in [Node -> 0 .. MaxLoss]
    BY <1>6 DEF PassOk
  <2>3. /\ pc' \in [Node -> Listen \cup Turn] /\ target_id' \in [Node -> Node]
        /\ agent_has_token' \in [Node -> BOOLEAN]
        /\ send_token_with_opt' \in [Node -> BOOLEAN]
    BY <1>6 DEF PassOk, Listen
  <2>4. QED BY <1>6, <2>1, <2>2, <2>3 DEF PassOk
<1>7. ASSUME NEW n \in Node, NoAnswer(n) PROVE TypeOK'
  BY <1>7 DEF NoAnswer, ReadyToSend, Failed, turnVars, SelfWait
<1>8. ASSUME NEW n \in Node, TokenLost(n) PROVE TypeOK'
  <2>1. /\ attempt' \in [Node -> 0 .. ATTEMPTS] /\ losses' \in [Node -> 0 .. MaxLoss]
        /\ wait' \in [Node -> 0 .. SelfWait]
    BY <1>8 DEF TokenLost, ReadyToSend, Failed, SelfWait
  <2>2. QED BY <1>8, <2>1 DEF TokenLost, Failed, turnVars
<1>9. ASSUME NEW n \in Node, AckLost(n) PROVE TypeOK'
  <2>1. msgs' \in [Node -> Seq(Message)]
    BY <1>9, TokenForType, AppendToken DEF AckLost, Received
  <2>2. /\ attempt' \in [Node -> 0 .. ATTEMPTS] /\ losses' \in [Node -> 0 .. MaxLoss]
        /\ wait' \in [Node -> 0 .. SelfWait]
    BY <1>9 DEF AckLost, ReadyToSend, Failed, SelfWait
  <2>3. QED BY <1>9, <2>1, <2>2 DEF AckLost, Failed, turnVars
<1>10. ASSUME NEW n \in Node, PollMeasurement(n) PROVE TypeOK'
  BY <1>10 DEF PollMeasurement, Goto, turnVars, passVars, Listen, None
<1>11. ASSUME NEW n \in Node, PollMessage(n) PROVE TypeOK'
  <2>1. msgs' \in [Node -> Seq(Message)]
    BY <1>11, TailToken DEF PollMessage
  <2>2. optimize' \in [Node -> BOOLEAN]
    BY <1>11 DEF PollMessage
  <2>3. token_age' \in [Node -> {None} \cup (0 .. ClaimMax)]
    <3>1. PICK age \in {0, None} : token_age' = [token_age EXCEPT ![n] = age]
                                 \/ token_age' = token_age
      BY <1>11 DEF PollMessage
    <3>2. 0 \in 0 .. ClaimMax
      OBVIOUS
    <3>3. QED BY <3>1, <3>2
  <2>4. QED
    BY <1>11, <2>1, <2>2, <2>3 DEF PollMessage, Goto, passVars, Listen
<1>12. ASSUME NEW n \in Node, ClaimToken(n) PROVE TypeOK'
  BY <1>12 DEF ClaimToken, Goto, turnVars, passVars, Turn, None
<1>13. ASSUME NEW n \in Node, NotYet(n) PROVE TypeOK'
  BY <1>13 DEF NotYet, Goto, turnVars, passVars, rcvVars, Listen
<1>14. ASSUME NEW n \in Node, PowerOff(n) PROVE TypeOK'
  BY <1>14, EmptyQueue DEF PowerOff, passVars, rcvVars
<1>15. CASE Tick
  BY <1>15 DEF Tick, turnVars, SelfWait, None
<1>16. CASE UNCHANGED vars
  BY <1>16 DEF vars, turnVars, passVars, rcvVars
<1>17. QED
  BY <1>1, <1>2, <1>3, <1>4, <1>5, <1>6, <1>7, <1>8, <1>9, <1>10, <1>11, <1>12, <1>13, <1>14, <1>15, <1>16 DEF Next, Transmit, Receive, Exchange

----------------------------------------------------------------------------
(* One step at a time preserves the invariant.                        *)

(* The delay before the next exchange is a natural number of periods.      *)
LEMMA WaitType == TypeOK => \A r \in Node : wait[r] \in Nat
<1>1. \A k \in 0 .. SelfWait : k \in Nat
  BY DEF SelfWait
<1>2. TypeOK => \A r \in Node : wait[r] \in 0 .. SelfWait
  BY DEF TypeOK
<1>3. QED BY <1>1, <1>2

(* The counters of a hop are integers, and the losses are bounded.         *)
LEMMA CounterTypes ==
  ASSUME TypeOK
  PROVE  \A r \in Node : /\ token_age[r] \in Int
                         /\ losses[r] \in Nat /\ losses[r] <= MaxLoss
                         /\ wait[r] \in Nat
<1>1. \A k \in {None} \cup (0 .. ClaimMax) : k \in Int
  BY DEF None
<1>2. \A k \in 0 .. MaxLoss : k \in Nat /\ k <= MaxLoss
  BY RetryAssumption
<1>3. \A r \in Node : /\ token_age[r] \in {None} \cup (0 .. ClaimMax)
                      /\ losses[r] \in 0 .. MaxLoss
  BY DEF TypeOK
<1>4. QED BY <1>1, <1>2, <1>3, WaitType

(* A drone in transmit mode is the only one, and it is on.                 *)
LEMMA OneInTurn ==
  ASSUME Inv, NEW n \in Node, pc[n] \in Turn
  PROVE  /\ agent_has_token[n] /\ n \in up /\ ~TokenAt(n) /\ ~msrm[n]
         /\ \A r \in Node \ {n} : ~agent_has_token[r] /\ pc[r] \notin Turn
BY DEF Inv, ModesAgree, OffIsSilent, Overlap, ClaimOnce, NothingCancels, Listen, Turn

(* Before it passes the token, no other drone has a copy.                  *)
LEMMA NoCopy ==
  ASSUME Inv, NEW n \in Node, pc[n] \in Turn, pc[n] # "pass"
  PROVE  \A r \in Node : token_age[r] = None /\ ~HasToken(msgs[r])
BY OneInTurn DEF Inv, Overlap, TokenAt

(* Data packets are not tokens.                                            *)
LEMMA DataDelivered ==
  ASSUME TypeOK, NEW S \in SUBSET Node, NEW r \in Node,
         ~HasToken(msgs[r]), TokensLast(msgs[r])
  PROVE  ~HasToken(Delivered(S)[r]) /\ TokensLast(Delivered(S)[r])
<1>1. msgs[r] \in Seq(Message) /\ "DATA" \in Message \ Token
  BY DEF TypeOK, Message, Token
<1>2. Delivered(S)[r] = IF r \in S /\ Len(msgs[r]) < MaxMsgs
                          THEN Append(msgs[r], "DATA") ELSE msgs[r]
  BY DEF Delivered
<1>3. QED BY <1>1, <1>2, AppendToken

(* What the target's queue holds after a token has reached it.             *)
LEMMA TokenReceived ==
  ASSUME Inv, NEW n \in Node, target_id[n] # n, Received(n)
  PROVE  /\ target_id[n] \in Node /\ HasToken(msgs'[target_id[n]])
         /\ TokensLast(msgs'[target_id[n]])
         /\ OnlyTokens(msgs[target_id[n]]) => OnlyTokens(msgs'[target_id[n]])
         /\ \A r \in Node \ {target_id[n]} : msgs'[r] = msgs[r]
<1>1. target_id[n] \in Node /\ msgs \in [Node -> Seq(Message)]
  BY DEF Inv, TypeOK
<1>2. /\ msgs'[target_id[n]] = Append(msgs[target_id[n]], TokenFor(n))
      /\ \A r \in Node \ {target_id[n]} : msgs'[r] = msgs[r]
  BY <1>1 DEF Received
<1>3. TokensLast(msgs[target_id[n]])
  BY <1>1 DEF Inv, NothingCancels
<1>4. QED BY <1>1, <1>2, <1>3, TokenForType, AppendToken

(* Ranging leaves measurements only while the token's drone has its turn.  *)
LEMMA RangeStep ==
  ASSUME Inv, TypeOK', FewLosses, NEW n \in Node, Range(n)
  PROVE  Inv'
<1> USE NodeAssumption, RetryAssumption DEF Inv
<1>1. /\ agent_has_token[n] /\ n \in up /\ ~msrm[n]
      /\ \A r \in Node \ {n} : ~agent_has_token[r]
      /\ \A r \in Node : token_age[r] = None /\ ~HasToken(msgs[r])
  BY NoCopy, OneInTurn DEF Range, Turn
<1>2. pc'[n] = "scan" /\ \A r \in Node : msrm'[r] => pc'[r] \in Listen
  <2>1. PICK heard \in SUBSET {r \in Node \ {n} : Responding(r)} :
          msrm' = [r \in Node |-> msrm[r] \/ r \in heard]
    BY DEF Range
  <2>2. \A r \in Node \ {n} : pc[r] \in Listen /\ pc'[r] = pc[r]
    BY <1>1 DEF Range, TypeOK, ModesAgree
  <2>3. pc'[n] = "scan" /\ ~msrm'[n]
    BY <1>1, <2>1 DEF Range, TypeOK
  <2>4. QED BY <2>2, <2>3
<1>3. ModesAgree'
  BY DEF Range, Responding, turnVars, passVars, ModesAgree, Listen, Turn, TypeOK, None
<1>4. OffIsSilent'
  BY DEF Range, Responding, turnVars, passVars, OffIsSilent, ModesAgree, TokenAt, TypeOK, None
<1>5. LossesCounted'
  BY DEF Range, Responding, turnVars, passVars, LossesCounted, TypeOK, None
<1>6. Overlap'
  BY DEF Range, Responding, turnVars, passVars, Overlap, TokenAt, TypeOK, None
<1>7. ClaimOnce'
  BY DEF Range, Responding, turnVars, passVars, ClaimOnce, TokenAt, TypeOK, None
<1>8. NothingCancels'
  BY <1>1, <1>2 DEF NothingCancels, Range
<1>9. TokenNotLost'
  BY DEF Range, Responding, turnVars, passVars, TokenNotLost, TokenAt, TypeOK, None
<1>10. QED BY <1>3, <1>4, <1>5, <1>6, <1>7, <1>8, <1>9

(* The scan reaches listeners that are not being handed the token.         *)
LEMMA SendScanStep ==
  ASSUME Inv, TypeOK', FewLosses, NEW n \in Node, SendScan(n)
  PROVE  Inv'
<1> USE NodeAssumption, RetryAssumption DEF Inv
<1>1. /\ agent_has_token[n] /\ n \in up /\ ~msrm[n]
      /\ \A r \in Node \ {n} : ~agent_has_token[r]
      /\ \A r \in Node : token_age[r] = None /\ ~HasToken(msgs[r])
  BY NoCopy, OneInTurn DEF SendScan, Turn
<1>2. \A r \in Node : ~HasToken(msgs'[r]) /\ TokensLast(msgs'[r])
  <2>1. PICK got \in SUBSET HigherListeners(n) : msgs' = Delivered(got)
    BY DEF SendScan
  <2>2. got \in SUBSET Node
    BY DEF HigherListeners
  <2>3. QED BY <1>1, <2>1, <2>2, DataDelivered DEF NothingCancels
<1>3. /\ token_age' = token_age /\ agent_has_token' = agent_has_token
      /\ up' = up /\ msrm' = msrm
      /\ pc'[n] = "optimize" /\ \A r \in Node \ {n} : pc'[r] = pc[r]
  BY DEF SendScan, TypeOK
<1>4. \A r \in Node : ~TokenAt(r)'
  BY <1>1, <1>2, <1>3 DEF TokenAt
<1>5. ModesAgree'
  BY DEF SendScan, passVars, ModesAgree, Listen, Turn, TypeOK, None
<1>6. OffIsSilent'
  BY <1>3, <1>4 DEF OffIsSilent
<1>7. LossesCounted'
  BY DEF SendScan, passVars, LossesCounted, TypeOK, None
<1>8. Overlap'
  BY <1>1, <1>3, <1>4 DEF Overlap
<1>9. ClaimOnce'
  BY <1>2, <1>4 DEF ClaimOnce
<1>10. NothingCancels'
  BY <1>1, <1>2, <1>3 DEF NothingCancels, Listen
<1>11. TokenNotLost'
  BY <1>1, <1>3 DEF TokenNotLost
<1>12. QED BY <1>5, <1>6, <1>7, <1>8, <1>9, <1>10, <1>11

(* So do the poses that the optimisation updated.                          *)
LEMMA OptimizeStep ==
  ASSUME Inv, TypeOK', FewLosses, NEW n \in Node, Optimize(n)
  PROVE  Inv'
<1> USE NodeAssumption, RetryAssumption DEF Inv
<1>1. /\ agent_has_token[n] /\ n \in up /\ ~msrm[n]
      /\ \A r \in Node \ {n} : ~agent_has_token[r]
      /\ \A r \in Node : token_age[r] = None /\ ~HasToken(msgs[r])
  BY NoCopy, OneInTurn DEF Optimize, Turn
<1>2. \A r \in Node : ~HasToken(msgs'[r]) /\ TokensLast(msgs'[r])
  <2>1. CASE optimize[n]
    <3>1. PICK got \in SUBSET HigherListeners(n) : msgs' = Delivered(got)
      BY <2>1 DEF Optimize
    <3>2. got \in SUBSET Node
      BY DEF HigherListeners
    <3>3. QED BY <1>1, <3>1, <3>2, DataDelivered DEF NothingCancels
  <2>2. CASE ~optimize[n]
    BY <1>1, <2>2 DEF Optimize, NothingCancels
  <2>3. QED BY <2>1, <2>2
<1>3. /\ token_age' = token_age /\ agent_has_token' = agent_has_token
      /\ up' = up /\ msrm' = msrm
      /\ pc'[n] = "settle" /\ \A r \in Node \ {n} : pc'[r] = pc[r]
  BY DEF Optimize, TypeOK
<1>4. \A r \in Node : ~TokenAt(r)'
  BY <1>1, <1>2, <1>3 DEF TokenAt
<1>5. ModesAgree'
  BY DEF Optimize, passVars, ModesAgree, Listen, Turn, TypeOK, None
<1>6. OffIsSilent'
  BY <1>3, <1>4 DEF OffIsSilent
<1>7. LossesCounted'
  BY DEF Optimize, passVars, LossesCounted, TypeOK, None
<1>8. Overlap'
  BY <1>1, <1>3, <1>4 DEF Overlap
<1>9. ClaimOnce'
  BY <1>2, <1>4 DEF ClaimOnce
<1>10. NothingCancels'
  BY <1>1, <1>2, <1>3 DEF NothingCancels, Listen
<1>11. TokenNotLost'
  BY <1>1, <1>3 DEF TokenNotLost
<1>12. QED BY <1>5, <1>6, <1>7, <1>8, <1>9, <1>10, <1>11

(* After the delay nothing is left that could cancel a claim.              *)
LEMMA BeginPassStep ==
  ASSUME Inv, TypeOK', FewLosses, NEW n \in Node, BeginPass(n)
  PROVE  Inv'
<1> USE NodeAssumption, RetryAssumption DEF Inv
<1>1. ModesAgree'
  BY DEF BeginPass, Settled, turnVars, rcvVars, ModesAgree, Listen, Turn, TypeOK, None
<1>2. OffIsSilent'
  BY DEF BeginPass, Settled, turnVars, rcvVars, OffIsSilent, ModesAgree, TokenAt, TypeOK, None
<1>3. LossesCounted'
  BY DEF BeginPass, Settled, turnVars, rcvVars, LossesCounted, TypeOK, None
<1>4. Overlap'
  BY DEF BeginPass, Settled, turnVars, rcvVars, Overlap, TokenAt, TypeOK, None
<1>5. ClaimOnce'
  BY DEF BeginPass, Settled, turnVars, rcvVars, ClaimOnce, TokenAt, TypeOK, None
<1>6. NothingCancels'
  BY DEF BeginPass, Settled, turnVars, rcvVars, NothingCancels, Listen, TypeOK, None
<1>7. TokenNotLost'
  BY DEF BeginPass, Settled, turnVars, rcvVars, TokenNotLost, TokenAt, TypeOK, None
<1>8. QED BY <1>1, <1>2, <1>3, <1>4, <1>5, <1>6, <1>7

(* A new target has not been sent anything, and nobody else has been.      *)
LEMMA NextTargetStep ==
  ASSUME Inv, TypeOK', FewLosses, NEW n \in Node, NextTarget(n)
  PROVE  Inv'
<1> USE NodeAssumption, RetryAssumption DEF Inv
<1>1. /\ pc[n] = "pass" /\ attempt[n] = ATTEMPTS /\ wait[n] = 0
      /\ agent_has_token[n] /\ ~TokenAt(n)
      /\ \A r \in Node \ {n} : ~agent_has_token[r]
  BY OneInTurn DEF NextTarget, Turn
<1>2. ASSUME NEW r \in Node, TokenAt(r) PROVE FALSE
  <2>1. r # n /\ target_id[n] = r /\ r \in up
    BY <1>1, <1>2 DEF Overlap, OffIsSilent
  <2>2. attempt[n] = losses[n]
    BY <1>1, <2>1 DEF LossesCounted
  <2>3. losses[n] <= MaxLoss /\ MaxLoss < ATTEMPTS
    BY CounterTypes DEF FewLosses
  <2>4. QED BY <1>1, <2>2, <2>3
<1>3. /\ UNCHANGED <<up, agent_has_token, pc, token_age, msrm, msgs>>
      /\ \A r \in Node : ~TokenAt(r)'
  BY <1>2 DEF NextTarget, rcvVars, TokenAt
<1>4. ModesAgree'
  BY <1>3 DEF ModesAgree
<1>5. OffIsSilent'
  BY <1>3 DEF OffIsSilent
<1>6. LossesCounted'
  BY DEF NextTarget, rcvVars, SelfWait, LossesCounted, TypeOK, None
<1>7. Overlap'
  BY <1>1, <1>3 DEF Overlap
<1>8. ClaimOnce'
  BY <1>3 DEF ClaimOnce
<1>9. NothingCancels'
  BY <1>3 DEF NothingCancels
<1>10. TokenNotLost'
  BY <1>3 DEF TokenNotLost, TokenAt
<1>11. QED BY <1>4, <1>5, <1>6, <1>7, <1>8, <1>9, <1>10

(* With the acknowledgement the token is the target's alone.               *)
LEMMA PassOkStep ==
  ASSUME Inv, TypeOK', FewLosses, NEW n \in Node, PassOk(n)
  PROVE  Inv'
<1> USE NodeAssumption, RetryAssumption DEF Inv
<1>1. /\ n \in up /\ pc[n] = "pass" /\ attempt[n] < ATTEMPTS /\ wait[n] = 0
      /\ target_id[n] \in Node /\ target_id[n] # n
      /\ agent_has_token[n] /\ ~TokenAt(n)
      /\ \A r \in Node \ {n} : ~agent_has_token[r] /\ pc[r] \notin Turn
  BY OneInTurn DEF PassOk, ReadyToSend, LossesCounted, TypeOK, Turn
<1>2. \A r \in Node : ~msrm[r]
  BY <1>1 DEF NothingCancels, Turn
<1>3. target_id[n] \in up /\ attempt[n] = losses[n]
  BY <1>1 DEF PassOk, Responding, LossesCounted
<1>4. \A r \in Node : TokenAt(r) =>
        r = target_id[n] /\ losses[n] >= 1 /\ token_age[r] <= losses[n]
  <2>1. \A r \in Node : token_age[r] \in Int
    BY CounterTypes
  <2>2. losses[n] \in Nat
    BY CounterTypes
  <2>3. QED BY <1>1, <2>1, <2>2 DEF Overlap
<1>5. /\ HasToken(msgs'[target_id[n]]) /\ TokensLast(msgs'[target_id[n]])
      /\ OnlyTokens(msgs[target_id[n]]) => OnlyTokens(msgs'[target_id[n]])
      /\ \A r \in Node \ {target_id[n]} : msgs'[r] = msgs[r]
  BY <1>1, TokenReceived DEF PassOk
<1>6. \A r \in Node : TokenAt(r)' => r = target_id[n]
  BY <1>4, <1>5 DEF PassOk, Failed, TokenAt
<1>7. losses[n] <= MaxLoss /\ MaxLoss < ClaimMin
  BY CounterTypes DEF FewLosses
<1>8. token_age[target_id[n]] < ClaimMin
  <2>1. token_age[target_id[n]] \in Int /\ losses[n] \in Nat
    BY <1>1, CounterTypes
  <2>2. CASE token_age[target_id[n]] = None
    BY <2>2 DEF None
  <2>3. CASE token_age[target_id[n]] # None
    BY <1>1, <1>4, <1>7, <2>1, <2>3 DEF TokenAt
  <2>4. QED BY <2>2, <2>3
<1>9. /\ up' = up /\ token_age' = token_age /\ msrm' = msrm
      /\ \A r \in Node : ~agent_has_token'[r]
      /\ \A r \in Node \ {n} : /\ attempt'[r] = attempt[r] /\ pc'[r] = pc[r]
                              /\ target_id'[r] = target_id[r] /\ wait'[r] = wait[r]
                              /\ losses'[r] = losses[r]
      /\ attempt'[n] = ATTEMPTS /\ pc'[n] = "msrm" /\ target_id'[n] = n
  BY <1>1 DEF PassOk, TypeOK
<1>10. ModesAgree'
  BY <1>1, <1>9 DEF ModesAgree, Listen, Turn
<1>11. OffIsSilent'
  BY <1>2, <1>3, <1>6, <1>9 DEF OffIsSilent
<1>12. LossesCounted'
  BY <1>9 DEF LossesCounted
<1>13. Overlap'
  BY <1>9 DEF Overlap
<1>14. ClaimOnce'
  BY <1>4, <1>6, <1>8, <1>9 DEF ClaimOnce, TokenAt
<1>15. NothingCancels'
  BY <1>1, <1>2, <1>5, <1>9 DEF NothingCancels
<1>16. TokenNotLost'
  BY <1>1, <1>3, <1>5, <1>9 DEF TokenNotLost, TokenAt
<1>17. QED BY <1>10, <1>11, <1>12, <1>13, <1>14, <1>15, <1>16

(* A target that does not answer has not got the token.                    *)
LEMMA NoAnswerStep ==
  ASSUME Inv, TypeOK', FewLosses, NEW n \in Node, NoAnswer(n)
  PROVE  Inv'
<1> USE NodeAssumption, RetryAssumption DEF Inv
<1>1. /\ n \in up /\ pc[n] = "pass" /\ attempt[n] < ATTEMPTS /\ wait[n] = 0
      /\ target_id[n] \in Node /\ target_id[n] # n
      /\ agent_has_token[n] /\ ~TokenAt(n)
      /\ \A r \in Node \ {n} : ~agent_has_token[r] /\ pc[r] \notin Turn
  BY OneInTurn DEF NoAnswer, ReadyToSend, LossesCounted, TypeOK, Turn
<1>2. \A r \in Node : ~msrm[r]
  BY <1>1 DEF NothingCancels, Turn
<1>3. target_id[n] \notin up /\ \A r \in Node : ~TokenAt(r)
  BY <1>1 DEF NoAnswer, Responding, Overlap, OffIsSilent
<1>4. /\ up' = up /\ agent_has_token' = agent_has_token /\ pc' = pc
      /\ target_id' = target_id /\ token_age' = token_age /\ msrm' = msrm
      /\ attempt'[n] = attempt[n] + 1 /\ wait'[n] = 1
      /\ \A r \in Node \ {n} : /\ attempt'[r] = attempt[r] /\ wait'[r] = wait[r]
                              /\ losses'[r] = losses[r]
  BY <1>1 DEF NoAnswer, Failed, TypeOK
<1>5. ModesAgree'
  BY <1>4 DEF ModesAgree
<1>6. OffIsSilent'
  BY <1>4 DEF OffIsSilent, NoAnswer, TokenAt
<1>7. LossesCounted'
  BY <1>1, <1>3, <1>4 DEF LossesCounted
<1>8. Overlap'
  BY <1>1, <1>3, <1>4 DEF Overlap, NoAnswer, TokenAt
<1>9. ClaimOnce'
  BY <1>4 DEF ClaimOnce, NoAnswer, TokenAt
<1>10. NothingCancels'
  BY <1>4 DEF NothingCancels, NoAnswer
<1>11. TokenNotLost'
  BY <1>4 DEF TokenNotLost, NoAnswer, TokenAt
<1>12. QED BY <1>5, <1>6, <1>7, <1>8, <1>9, <1>10, <1>11

(* A token lost on its way leaves the target as it was.                    *)
LEMMA TokenLostStep ==
  ASSUME Inv, TypeOK', FewLosses, NEW n \in Node, TokenLost(n)
  PROVE  Inv'
<1> USE NodeAssumption, RetryAssumption DEF Inv
<1>1. /\ n \in up /\ pc[n] = "pass" /\ attempt[n] < ATTEMPTS /\ wait[n] = 0
      /\ target_id[n] \in Node /\ target_id[n] # n
      /\ agent_has_token[n] /\ ~TokenAt(n)
      /\ \A r \in Node \ {n} : ~agent_has_token[r] /\ pc[r] \notin Turn
  BY OneInTurn DEF TokenLost, ReadyToSend, LossesCounted, TypeOK, Turn
<1>2. \A r \in Node : ~msrm[r]
  BY <1>1 DEF NothingCancels, Turn
<1>3. target_id[n] \in up /\ attempt[n] = losses[n]
  BY <1>1 DEF TokenLost, Responding, LossesCounted
<1>4. \A r \in Node : TokenAt(r) =>
        r = target_id[n] /\ losses[n] >= 1 /\ token_age[r] <= losses[n]
  <2>1. \A r \in Node : token_age[r] \in Int
    BY CounterTypes
  <2>2. losses[n] \in Nat
    BY CounterTypes
  <2>3. QED BY <1>1, <2>1, <2>2 DEF Overlap
<1>5. /\ up' = up /\ agent_has_token' = agent_has_token /\ pc' = pc
      /\ target_id' = target_id /\ token_age' = token_age /\ msrm' = msrm
      /\ attempt'[n] = attempt[n] + 1 /\ wait'[n] = 1
      /\ \A r \in Node \ {n} : /\ attempt'[r] = attempt[r] /\ wait'[r] = wait[r]
                              /\ losses'[r] = losses[r]
  BY <1>1 DEF TokenLost, Failed, TypeOK
<1>6. losses'[n] = losses[n] + 1 /\ msgs' = msgs
  BY DEF TokenLost, TypeOK
<1>7. ModesAgree'
  BY <1>5 DEF ModesAgree
<1>8. OffIsSilent'
  BY <1>5 DEF OffIsSilent, TokenLost, TokenAt
<1>9. LossesCounted'
  BY <1>1, <1>3, <1>5, <1>6 DEF LossesCounted
<1>10. Overlap'
  <2>1. \A r \in Node : TokenAt(r)' => TokenAt(r)
    BY <1>5, <1>6 DEF TokenAt
  <2>2. losses[n] \in Nat
    BY CounterTypes
  <2>3. QED BY <1>1, <1>4, <1>5, <1>6, <2>1, <2>2 DEF Overlap
<1>11. ClaimOnce'
  BY <1>5 DEF ClaimOnce, TokenLost, TokenAt
<1>12. NothingCancels'
  BY <1>5 DEF NothingCancels, TokenLost
<1>13. TokenNotLost'
  BY <1>5 DEF TokenNotLost, TokenLost, TokenAt
<1>14. QED BY <1>7, <1>8, <1>9, <1>10, <1>11, <1>12, <1>13

(* A token whose acknowledgement is lost starts the target's clock.        *)
LEMMA AckLostStep ==
  ASSUME Inv, TypeOK', FewLosses, NEW n \in Node, AckLost(n)
  PROVE  Inv'
<1> USE NodeAssumption, RetryAssumption DEF Inv
<1>1. /\ n \in up /\ pc[n] = "pass" /\ attempt[n] < ATTEMPTS /\ wait[n] = 0
      /\ target_id[n] \in Node /\ target_id[n] # n
      /\ agent_has_token[n] /\ ~TokenAt(n)
      /\ \A r \in Node \ {n} : ~agent_has_token[r] /\ pc[r] \notin Turn
  BY OneInTurn DEF AckLost, ReadyToSend, LossesCounted, TypeOK, Turn
<1>2. \A r \in Node : ~msrm[r]
  BY <1>1 DEF NothingCancels, Turn
<1>3. target_id[n] \in up /\ attempt[n] = losses[n]
  BY <1>1 DEF AckLost, Responding, LossesCounted
<1>4. \A r \in Node : TokenAt(r) =>
        r = target_id[n] /\ losses[n] >= 1 /\ token_age[r] <= losses[n]
  <2>1. \A r \in Node : token_age[r] \in Int
    BY CounterTypes
  <2>2. losses[n] \in Nat
    BY CounterTypes
  <2>3. QED BY <1>1, <2>1, <2>2 DEF Overlap
<1>5. /\ HasToken(msgs'[target_id[n]]) /\ TokensLast(msgs'[target_id[n]])
      /\ OnlyTokens(msgs[target_id[n]]) => OnlyTokens(msgs'[target_id[n]])
      /\ \A r \in Node \ {target_id[n]} : msgs'[r] = msgs[r]
  BY <1>1, TokenReceived DEF AckLost
<1>6. \A r \in Node : TokenAt(r)' => r = target_id[n]
  BY <1>4, <1>5 DEF AckLost, Failed, TokenAt
<1>7. losses[n] <= MaxLoss /\ MaxLoss < ClaimMin
  BY CounterTypes DEF FewLosses
<1>8. token_age[target_id[n]] < ClaimMin
  <2>1. token_age[target_id[n]] \in Int /\ losses[n] \in Nat
    BY <1>1, CounterTypes
  <2>2. CASE token_age[target_id[n]] = None
    BY <2>2 DEF None
  <2>3. CASE token_age[target_id[n]] # None
    BY <1>1, <1>4, <1>7, <2>1, <2>3 DEF TokenAt
  <2>4. QED BY <2>2, <2>3
<1>9. /\ up' = up /\ agent_has_token' = agent_has_token /\ pc' = pc
      /\ target_id' = target_id /\ token_age' = token_age /\ msrm' = msrm
      /\ attempt'[n] = attempt[n] + 1 /\ wait'[n] = 1
      /\ \A r \in Node \ {n} : /\ attempt'[r] = attempt[r] /\ wait'[r] = wait[r]
                              /\ losses'[r] = losses[r]
  BY <1>1 DEF AckLost, Failed, TypeOK
<1>10. losses'[n] = losses[n] + 1 /\ losses[n] \in Nat
  BY DEF AckLost, TypeOK
<1>11. ModesAgree'
  BY <1>9 DEF ModesAgree
<1>12. OffIsSilent'
  BY <1>3, <1>6, <1>9 DEF OffIsSilent
<1>13. LossesCounted'
  BY <1>1, <1>3, <1>9, <1>10 DEF LossesCounted
<1>14. Overlap'
  <2>1. token_age[target_id[n]] <= losses[n]
    BY <1>1, <1>4, <1>10 DEF TokenAt, None
  <2>2. \A r \in Node : token_age[r] \in Int
    BY CounterTypes
  <2>3. QED BY <1>1, <1>6, <1>9, <1>10, <2>1, <2>2 DEF Overlap
<1>15. ClaimOnce'
  BY <1>1, <1>4, <1>6, <1>8, <1>9 DEF ClaimOnce, TokenAt
<1>16. NothingCancels'
  BY <1>1, <1>2, <1>5, <1>9 DEF NothingCancels
<1>17. TokenNotLost'
  BY <1>1, <1>9 DEF TokenNotLost
<1>18. QED BY <1>11, <1>12, <1>13, <1>14, <1>15, <1>16, <1>17

(* A measurement resets no clock: there is none while a turn lasts.        *)
LEMMA PollMeasurementStep ==
  ASSUME Inv, TypeOK', FewLosses, NEW n \in Node, PollMeasurement(n)
  PROVE  Inv'
<1> USE NodeAssumption, RetryAssumption DEF Inv
<1>1. /\ UNCHANGED <<up, agent_has_token, msgs, target_id, attempt, wait, losses>>
      /\ pc[n] \in Listen /\ pc'[n] \in Listen
      /\ \A r \in Node \ {n} : pc'[r] = pc[r] /\ msrm'[r] = msrm[r]
      /\ \A r \in Node : token_age'[r] \in {token_age[r], None}
      /\ msrm'[n] = FALSE
  BY DEF PollMeasurement, Goto, passVars, Listen, TypeOK
<1>2. /\ \A r \in Node : TokenAt(r)' <=> TokenAt(r)
      /\ \A r \in Node : token_age'[r] = token_age[r]
  <2>1. CASE msrm[n]
    <3>1. PICK h \in Node : pc[h] \in {"scan", "optimize", "settle"}
      BY <2>1 DEF NothingCancels
    <3>2. \A r \in Node : token_age[r] = None /\ ~HasToken(msgs[r])
      BY <3>1, NoCopy DEF Turn
    <3>3. QED BY <1>1, <3>2 DEF TokenAt
  <2>2. CASE ~msrm[n]
    BY <1>1, <2>2 DEF PollMeasurement, TokenAt
  <2>3. QED BY <2>1, <2>2
<1>3. ModesAgree'
  BY <1>1 DEF ModesAgree, Listen, Turn
<1>4. OffIsSilent'
  BY <1>1, <1>2 DEF OffIsSilent, PollMeasurement
<1>5. LossesCounted'
  BY <1>1 DEF LossesCounted, Listen
<1>6. Overlap'
  BY <1>1, <1>2 DEF Overlap, ModesAgree, Listen, Turn
<1>7. ClaimOnce'
  BY <1>1, <1>2 DEF ClaimOnce
<1>8. NothingCancels'
  BY <1>1, <1>2 DEF NothingCancels, Listen
<1>9. TokenNotLost'
  BY <1>1, <1>2 DEF TokenNotLost, TypeOK
<1>10. QED BY <1>3, <1>4, <1>5, <1>6, <1>7, <1>8, <1>9

(* A message that is read sets the clock of the token, never resets it.    *)
LEMMA PollMessageStep ==
  ASSUME Inv, TypeOK', FewLosses, NEW n \in Node, PollMessage(n)
  PROVE  Inv'
<1> USE NodeAssumption, RetryAssumption DEF Inv
<1>1. /\ UNCHANGED <<up, agent_has_token, msrm, target_id, attempt, wait, losses>>
      /\ n \in up /\ pc[n] \in Listen /\ pc'[n] \in Listen
      /\ \A r \in Node \ {n} : /\ pc'[r] = pc[r] /\ msgs'[r] = msgs[r]
                              /\ token_age'[r] = token_age[r]
  BY DEF PollMessage, Goto, passVars, Listen, TypeOK
<1>2. /\ TokenAt(n)' <=> TokenAt(n)
      /\ token_age'[n] \in {token_age[n], 0, None}
      /\ HasToken(msgs'[n]) => token_age'[n] < ClaimMin
      /\ TokensLast(msgs'[n])
      /\ token_age'[n] # None => OnlyTokens(msgs'[n])
  <2>1. CASE msgs[n] = <<>>
    BY <2>1 DEF PollMessage, TokenAt, ClaimOnce, NothingCancels
  <2>2. CASE msgs[n] # <<>>
    <3>1. msgs[n] \in Seq(Message) /\ msgs'[n] = Tail(msgs[n])
      BY <2>2 DEF PollMessage, TypeOK
    <3>2. token_age'[n] = IF Head(msgs[n]) \in Token THEN 0 ELSE None
      BY <2>2 DEF PollMessage, TypeOK
    <3>3. TokensLast(msgs[n]) /\ (token_age[n] # None => OnlyTokens(msgs[n]))
      BY DEF NothingCancels
    <3>4. CASE Head(msgs[n]) \in Token
      BY <2>2, <3>1, <3>2, <3>3, <3>4, TailToken DEF TokenAt, None
    <3>5. CASE Head(msgs[n]) \notin Token
      BY <2>2, <3>1, <3>2, <3>3, <3>5, TailToken DEF TokenAt, None
    <3>6. QED BY <3>4, <3>5
  <2>3. QED BY <2>1, <2>2
<1>3. \A r \in Node : TokenAt(r)' <=> TokenAt(r)
  BY <1>1, <1>2 DEF TokenAt
<1>4. ASSUME NEW m \in Node \ {n}, agent_has_token[m], TokenAt(n)
      PROVE  token_age'[n] <= losses[m] - wait[m]
  <2>1. /\ pc[m] = "pass" /\ target_id[m] = n /\ losses[m] >= 1
        /\ token_age[n] <= losses[m] - wait[m]
    BY <1>4 DEF Overlap
  <2>2. attempt[m] = losses[m] /\ losses[m] < ATTEMPTS
    BY <1>1, <2>1 DEF LossesCounted, FewLosses, TypeOK
  <2>3. wait[m] <= 1 /\ wait[m] \in Nat /\ losses[m] \in Nat
    <3>1. wait[m] \in Nat
      BY WaitType
    <3>2. losses[m] \in Nat
      BY CounterTypes
    <3>3. QED BY <2>2, <3>1, <3>2 DEF LossesCounted
  <2>4. QED BY <1>2, <2>1, <2>3 DEF None
<1>5. ModesAgree'
  BY <1>1 DEF ModesAgree, Listen, Turn
<1>6. OffIsSilent'
  BY <1>1, <1>3 DEF OffIsSilent
<1>7. LossesCounted'
  BY <1>1 DEF LossesCounted, Listen
<1>8. Overlap'
  <2>1. SUFFICES ASSUME NEW m \in Node, NEW r \in Node, m # r, agent_has_token[m]
                 PROVE  /\ ~agent_has_token[r]
                        /\ TokenAt(r) =>
                             /\ pc'[m] = "pass" /\ target_id[m] = r
                             /\ losses[m] >= 1
                             /\ token_age'[r] <= losses[m] - wait[m]
    BY <1>1, <1>3 DEF Overlap
  <2>2. m # n /\ pc'[m] = pc[m]
    BY <1>1, <2>1 DEF ModesAgree, Listen, Turn
  <2>3. CASE r = n
    BY <1>4, <2>1, <2>2, <2>3 DEF Overlap
  <2>4. CASE r # n
    BY <1>1, <2>1, <2>2, <2>4 DEF Overlap
  <2>5. QED BY <2>3, <2>4
<1>9. ClaimOnce'
  BY <1>1, <1>2, <1>3 DEF ClaimOnce
<1>10. NothingCancels'
  <2>1. \A h \in Node : pc[h] \in {"scan", "optimize", "settle"} => pc'[h] = pc[h]
    BY <1>1 DEF Listen
  <2>2. QED BY <1>1, <1>2, <2>1 DEF NothingCancels
<1>11. TokenNotLost'
  BY <1>1, <1>3 DEF TokenNotLost, TypeOK
<1>12. QED BY <1>5, <1>6, <1>7, <1>8, <1>9, <1>10, <1>11

(* A claim is made when the sender has stopped sending.                    *)
LEMMA ClaimTokenStep ==
  ASSUME Inv, TypeOK', FewLosses, NEW n \in Node, ClaimToken(n)
  PROVE  Inv'
<1> USE NodeAssumption, RetryAssumption DEF Inv
<1>1. /\ n \in up /\ pc[n] \in Listen /\ token_age[n] >= ClaimMin
      /\ token_age[n] # None /\ TokenAt(n) /\ ~HasToken(msgs[n])
  BY DEF ClaimToken, Listen, TokenAt, ClaimOnce, TypeOK, None
<1>2. \A m \in Node : ~agent_has_token[m]
  <2>1. SUFFICES ASSUME NEW m \in Node, agent_has_token[m] PROVE FALSE
    OBVIOUS
  <2>2. m # n /\ token_age[n] <= losses[m] - wait[m]
    BY <1>1, <2>1 DEF Overlap, ModesAgree, Listen, Turn
  <2>3. losses[m] \in Nat /\ losses[m] <= MaxLoss /\ wait[m] \in Nat
        /\ token_age[n] \in Int
    BY CounterTypes
  <2>4. QED BY <1>1, <2>2, <2>3 DEF FewLosses
<1>3. \A r \in Node : ~msrm[r]
  BY <1>2 DEF NothingCancels, ModesAgree, Turn
<1>4. /\ UNCHANGED <<up, msrm, msgs, target_id, attempt, wait, losses>>
      /\ agent_has_token'[n] /\ pc'[n] = "range" /\ token_age'[n] = None
      /\ \A r \in Node \ {n} : /\ agent_has_token'[r] = agent_has_token[r]
                              /\ pc'[r] = pc[r] /\ token_age'[r] = token_age[r]
  BY DEF ClaimToken, Goto, passVars, TypeOK
<1>5. \A r \in Node : ~TokenAt(r)'
  BY <1>1, <1>4 DEF ClaimOnce, TokenAt
<1>6. ModesAgree'
  BY <1>4 DEF ModesAgree, Turn
<1>7. OffIsSilent'
  BY <1>1, <1>4, <1>5 DEF OffIsSilent
<1>8. LossesCounted'
  BY <1>4 DEF LossesCounted
<1>9. Overlap'
  BY <1>2, <1>4, <1>5 DEF Overlap
<1>10. ClaimOnce'
  BY <1>5 DEF ClaimOnce, TokenAt
<1>11. NothingCancels'
  BY <1>3, <1>4 DEF NothingCancels
<1>12. TokenNotLost'
  BY <1>1, <1>4 DEF TokenNotLost, TypeOK
<1>13. QED BY <1>6, <1>7, <1>8, <1>9, <1>10, <1>11, <1>12

(* A round of the listening loop without a claim changes no token.         *)
LEMMA NotYetStep ==
  ASSUME Inv, TypeOK', FewLosses, NEW n \in Node, NotYet(n)
  PROVE  Inv'
<1> USE NodeAssumption, RetryAssumption DEF Inv
<1>1. /\ UNCHANGED <<up, agent_has_token, msrm, msgs, token_age>>
      /\ UNCHANGED <<target_id, attempt, wait, losses>>
      /\ pc[n] \in Listen /\ pc'[n] \in Listen
      /\ \A r \in Node \ {n} : pc'[r] = pc[r]
  BY DEF NotYet, Goto, passVars, rcvVars, Listen, TypeOK
<1>2. \A r \in Node : TokenAt(r)' <=> TokenAt(r)
  BY <1>1 DEF TokenAt
<1>3. ModesAgree'
  BY <1>1 DEF ModesAgree, Listen, Turn
<1>4. OffIsSilent'
  BY <1>1, <1>2 DEF OffIsSilent
<1>5. LossesCounted'
  BY <1>1 DEF LossesCounted, Listen
<1>6. Overlap'
  BY <1>1, <1>2 DEF Overlap, ModesAgree, Listen, Turn
<1>7. ClaimOnce'
  BY <1>1, <1>2 DEF ClaimOnce
<1>8. NothingCancels'
  BY <1>1 DEF NothingCancels, Listen
<1>9. TokenNotLost'
  BY <1>1, <1>2 DEF TokenNotLost, TypeOK
<1>10. QED BY <1>3, <1>4, <1>5, <1>6, <1>7, <1>8, <1>9

(* A listener that goes off takes no token with it.                        *)
LEMMA PowerOffStep ==
  ASSUME Inv, TypeOK', FewLosses, NEW n \in Node, PowerOff(n)
  PROVE  Inv'
<1> USE NodeAssumption, RetryAssumption DEF Inv
<1>1. /\ UNCHANGED <<agent_has_token, pc, target_id, attempt, wait, losses,
                     token_age>>
      /\ up' = up \ {n} /\ ~TokenAt(n) /\ ~agent_has_token[n]
      /\ msgs'[n] = <<>> /\ msrm'[n] = FALSE
      /\ \A r \in Node \ {n} : msgs'[r] = msgs[r] /\ msrm'[r] = msrm[r]
  <2>1. pc[n] \in Listen /\ ~agent_has_token[n]
    BY DEF PowerOff, ModesAgree, Listen, Turn
  <2>2. QED BY <2>1 DEF PowerOff, passVars, TypeOK
<1>2. \A r \in Node : TokenAt(r)' <=> TokenAt(r)
  BY <1>1, EmptyQueue DEF TokenAt
<1>3. ModesAgree'
  BY <1>1 DEF ModesAgree
<1>4. OffIsSilent'
  BY <1>1, <1>2 DEF OffIsSilent
<1>5. LossesCounted'
  BY <1>1 DEF LossesCounted
<1>6. Overlap'
  BY <1>1, <1>2 DEF Overlap
<1>7. ClaimOnce'
  BY <1>1, <1>2, EmptyQueue DEF ClaimOnce
<1>8. NothingCancels'
  BY <1>1, EmptyQueue DEF NothingCancels
<1>9. TokenNotLost'
  BY <1>1, <1>2 DEF TokenNotLost, TypeOK
<1>10. QED BY <1>3, <1>4, <1>5, <1>6, <1>7, <1>8, <1>9

(* Clocks of the sender and of the receiver advance together.              *)
LEMMA TickStep == ASSUME Inv, TypeOK', FewLosses, Tick PROVE Inv'
<1> USE NodeAssumption, RetryAssumption DEF Inv
<1>1. /\ UNCHANGED <<up, agent_has_token, pc, target_id, attempt, losses, msrm,
                     msgs>>
      /\ \A r \in up : MayWait(r)
  BY DEF Tick
<1>2. \A r \in Node : ~HasToken(msgs[r])
  BY <1>1, EmptyQueue DEF MayWait, OffIsSilent, ClaimOnce, ModesAgree, TypeOK,
     TokenAt
<1>3. \A r \in Node :
        /\ token_age'[r] \in {token_age[r], token_age[r] + 1}
        /\ token_age'[r] # None => token_age[r] # None
        /\ wait'[r] = IF wait[r] > 0 THEN wait[r] - 1 ELSE 0
  BY DEF Tick, TypeOK
<1>4. \A r \in Node : token_age[r] \in Int /\ wait[r] \in Nat /\ losses[r] \in Nat
  <2>1. \A r \in Node : token_age[r] \in Int
    BY CounterTypes
  <2>2. \A r \in Node : wait[r] \in Nat
    BY WaitType
  <2>3. \A r \in Node : losses[r] \in Nat
    BY DEF TypeOK
  <2>4. QED BY <2>1, <2>2, <2>3
<1>5. \A r \in Node : TokenAt(r)' => TokenAt(r)
  BY <1>1, <1>3 DEF TokenAt
<1>6. ModesAgree'
  BY <1>1 DEF ModesAgree
<1>7. OffIsSilent'
  BY <1>1, <1>5 DEF OffIsSilent
<1>8. LossesCounted'
  BY <1>1, <1>3, <1>4 DEF LossesCounted
<1>9. Overlap'
  <2>1. SUFFICES ASSUME NEW m \in Node, NEW r \in Node, m # r,
                        agent_has_token[m], TokenAt(r)
                 PROVE  /\ pc[m] = "pass" /\ target_id[m] = r /\ losses[m] >= 1
                        /\ token_age'[r] <= losses[m] - wait'[m]
    BY <1>1, <1>5 DEF Overlap
  <2>2. /\ pc[m] = "pass" /\ target_id[m] = r /\ losses[m] >= 1
        /\ token_age[r] <= losses[m] - wait[m]
    BY <2>1 DEF Overlap
  <2>3. wait[m] > 0
    BY <1>1, <2>1, <2>2 DEF MayWait, OffIsSilent
  <2>4. QED BY <1>3, <1>4, <2>2, <2>3
<1>10. ClaimOnce'
  BY <1>1, <1>2, <1>5 DEF ClaimOnce
<1>11. NothingCancels'
  BY <1>1, <1>3 DEF NothingCancels
<1>12. TokenNotLost'
  <2>1. \A r \in Node : TokenAt(r) => TokenAt(r)'
    BY <1>1, <1>2, <1>3, <1>4 DEF TokenAt, Tick, TypeOK, None
  <2>2. QED BY <1>1, <2>1 DEF TokenNotLost, TypeOK
<1>13. QED BY <1>6, <1>7, <1>8, <1>9, <1>10, <1>11, <1>12


(* A step of anything else leaves the invariant alone.                     *)
LEMMA StutterStep == ASSUME Inv, UNCHANGED vars PROVE Inv'
BY DEF Inv, vars, turnVars, passVars, rcvVars, TypeOK, ModesAgree, OffIsSilent,
       LossesCounted, Overlap, ClaimOnce, NothingCancels, TokenNotLost, TokenAt

(* Drone 0 starts with the only token (uwb_ranging.c:369-372).             *)
LEMMA InvInit == Init => Inv
<1> SUFFICES ASSUME Init PROVE Inv
  OBVIOUS
<1> USE NodeAssumption, RetryAssumption, PowerAssumption
<1>1. \A r \in Node : ~TokenAt(r) /\ msgs[r] = <<>> /\ token_age[r] = None
  BY EmptyQueue DEF Init, TokenAt
<1>2. TypeOK
  BY TypeInit
<1>3. ModesAgree /\ LossesCounted
  BY DEF Init, ModesAgree, LossesCounted, Listen, Turn
<1>4. OffIsSilent /\ Overlap /\ TokenNotLost
  BY <1>1 DEF Init, OffIsSilent, Overlap, TokenNotLost, Node
<1>5. ClaimOnce /\ NothingCancels
  BY <1>1, EmptyQueue DEF Init, ClaimOnce, NothingCancels
<1>6. QED BY <1>2, <1>3, <1>4, <1>5 DEF Inv

(* The invariant is inductive when a hop loses few exchanges.              *)
LEMMA InvStep == ASSUME FewLosses PROVE Inv /\ [Next]_vars => Inv'
<1> SUFFICES ASSUME Inv, [Next]_vars PROVE Inv'
  OBVIOUS
<1>1. TypeOK'
  BY TypeStep DEF Inv
<1>2. ASSUME NEW n \in Node, Transmit(n) PROVE Inv'
  BY <1>1, <1>2, RangeStep, SendScanStep, OptimizeStep, BeginPassStep,
     NextTargetStep, PassOkStep, NoAnswerStep, TokenLostStep, AckLostStep
     DEF Transmit, Exchange
<1>3. ASSUME NEW n \in Node, Receive(n) PROVE Inv'
  BY <1>1, <1>3, PollMeasurementStep, PollMessageStep, ClaimTokenStep, NotYetStep
     DEF Receive
<1>4. QED BY <1>1, <1>2, <1>3, TickStep, PowerOffStep, StutterStep DEF Next

----------------------------------------------------------------------------
(* Type correctness of the ranging task's state on every drone             *)
(* (uwb_ranging.c:363-550), whatever the radio loses.                      *)
THEOREM TypeCorrect == Spec => []TypeOK
BY TypeInit, TypeStep, PTL DEF Spec

(* The invariant of passing and claiming (uwb_ranging.c:464-485, 488-538)  *)
(* holds as long as a hop loses few exchanges.                             *)
THEOREM RingInvariant == FewLosses => (Spec => []Inv)
<1> SUFFICES ASSUME FewLosses PROVE Spec => []Inv
  OBVIOUS
<1>1. Inv /\ [Next]_vars => Inv'
  BY InvStep
<1>2. QED BY <1>1, InvInit, PTL DEF Spec

(* At most one drone is in transmit mode, and a second one may have a copy *)
(* of the token only as the target of the exchange under way               *)
(* (uwb_ranging.c:464-485 against 500-538).                                *)
THEOREM OneTokenTheorem == FewLosses => (Spec => []OneToken)
<1>1. Inv => OneToken
  BY DEF Inv, Overlap, OneToken
<1>2. QED BY <1>1, RingInvariant, PTL

(* The token is never lost: no late measurement or data packet cancels the *)
(* claim of the drone it was passed to (uwb_ranging.c:489, 499).           *)
THEOREM TokenNotLostTheorem == FewLosses => (Spec => []TokenNotLost)
<1>1. Inv => TokenNotLost
  BY DEF Inv
<1>2. QED BY <1>1, RingInvariant, PTL

----------------------------------------------------------------------------
(* The ring hands the token to the next drone that is on, and to no other: *)
(* it implements TokenPassing, step by step.                               *)

(* Places on the ring.                                                     *)
LEMMA Distances ==
  ASSUME NEW a \in Node, NEW b \in Node
  PROVE  /\ Abs!Distance(a, b) \in Nat
         /\ a # b => Abs!Distance(a, b) >= 1
         /\ \A c \in Node : Abs!Distance(a, b) = Abs!Distance(a, c) => b = c
         /\ get_next_node(b) \in Node
         /\ get_next_node(b) # a =>
              Abs!Distance(a, get_next_node(b)) = Abs!Distance(a, b) + 1
<1>1. /\ a \in Nat /\ b \in Nat /\ NR_OF_NODES \in Nat \ {0}
      /\ a < NR_OF_NODES /\ b < NR_OF_NODES
  BY NodeAssumption DEF Node
<1>2. /\ Abs!Distance(a, b) \in Nat
      /\ a # b => Abs!Distance(a, b) >= 1
  BY <1>1 DEF Abs!Distance
<1>3. \A c \in Node : Abs!Distance(a, b) = Abs!Distance(a, c) => b = c
  BY <1>1 DEF Abs!Distance, Node
<1>4. get_next_node(b) = IF b + 1 < NR_OF_NODES THEN b + 1 ELSE 0
  BY <1>1 DEF get_next_node
<1>5. get_next_node(b) # a =>
        Abs!Distance(a, get_next_node(b)) = Abs!Distance(a, b) + 1
  BY <1>1, <1>4 DEF Abs!Distance
<1>6. QED BY <1>2, <1>3, <1>5, NextNode

(* Where a drone that has the token is, the token is.                      *)
LEMMA HolderHas ==
  ASSUME Inv, NEW n \in Node, agent_has_token[n]
  PROVE  /\ TheHolder = n
         /\ \A m \in Node : agent_has_token[m] => m = n
<1>1. \A m \in Node : agent_has_token[m] => m = n
  BY DEF Inv, Overlap
<1>2. QED BY <1>1 DEF TheHolder

(* While no drone has it, it is where a copy is.                           *)
LEMMA HolderGets ==
  ASSUME Inv, \A m \in Node : ~agent_has_token[m], NEW n \in Node, TokenAt(n)
  PROVE  TheHolder = n
<1>1. \A m \in Node : TokenAt(m) => m = n
  BY DEF Inv, ClaimOnce
<1>2. QED BY <1>1 DEF TheHolder

(* No step but an exchange puts a token anywhere.                          *)
LEMMA NoNewToken ==
  ASSUME Inv, [Next]_vars,
         \A n \in Node : ~PassOk(n) /\ ~AckLost(n),
         NEW r \in Node, TokenAt(r)'
  PROVE  TokenAt(r)
<1>1. /\ msgs \in [Node -> Seq(Message)] /\ TypeOK
  BY DEF Inv, TypeOK
<1>2. CASE UNCHANGED <<token_age, msgs>>
  BY <1>2 DEF TokenAt
<1>3. ASSUME NEW S \in SUBSET Node, msgs' = Delivered(S), token_age' = token_age
      PROVE  TokenAt(r)
  <2>1. ~HasToken(msgs[r]) => ~HasToken(msgs'[r])
    <3>1. msgs'[r] = IF r \in S /\ Len(msgs[r]) < MaxMsgs
                       THEN Append(msgs[r], "DATA") ELSE msgs[r]
      BY <1>3 DEF Delivered
    <3>2. msgs[r] \in Seq(Message) /\ "DATA" \in Message \ Token
      BY <1>1 DEF Message, Token
    <3>3. QED BY <3>1, <3>2, AppendToken
  <2>2. QED BY <1>3, <2>1 DEF TokenAt
<1>4. ASSUME NEW n \in Node, Transmit(n) PROVE TokenAt(r)
  <2>1. CASE SendScan(n) \/ Optimize(n)
    <3>1. /\ token_age' = token_age
          /\ \/ msgs' = msgs
             \/ \E S \in SUBSET HigherListeners(n) : msgs' = Delivered(S)
      BY <2>1 DEF SendScan, Optimize
    <3>2. HigherListeners(n) \subseteq Node
      BY DEF HigherListeners
    <3>3. QED BY <1>2, <1>3, <3>1, <3>2
  <2>2. CASE Range(n) \/ BeginPass(n) \/ NextTarget(n)
    BY <1>2, <2>2 DEF Range, BeginPass, NextTarget, rcvVars
  <2>3. CASE NoAnswer(n) \/ TokenLost(n)
    BY <1>2, <2>3 DEF NoAnswer, TokenLost, Failed
  <2>4. QED BY <1>4, <2>1, <2>2, <2>3 DEF Transmit, Exchange
<1>5. ASSUME NEW n \in Node, Receive(n) PROVE TokenAt(r)
  <2>1. CASE PollMessage(n)
    <3>1. CASE msgs[n] = <<>>
      BY <1>2, <2>1, <3>1 DEF PollMessage
    <3>2. CASE msgs[n] # <<>>
      <4>1. /\ msgs[n] \in Seq(Message)
            /\ \A m \in Node \ {n} : msgs'[m] = msgs[m] /\ token_age'[m] = token_age[m]
            /\ msgs'[n] = Tail(msgs[n])
            /\ token_age'[n] # None => Head(msgs[n]) \in Token
        BY <1>1, <2>1, <3>2 DEF PollMessage, TypeOK
      <4>2. CASE r = n
        BY <3>2, <4>1, <4>2, TailToken DEF TokenAt
      <4>3. CASE r # n
        BY <4>1, <4>3 DEF TokenAt
      <4>4. QED BY <4>2, <4>3
    <3>3. QED BY <3>1, <3>2
  <2>2. CASE PollMeasurement(n) \/ ClaimToken(n) \/ NotYet(n)
    <3>1. /\ msgs' = msgs
          /\ token_age' = token_age \/ token_age' = [token_age EXCEPT ![n] = None]
      BY <2>2 DEF PollMeasurement, ClaimToken, NotYet, rcvVars
    <3>2. QED BY <1>1, <3>1 DEF TokenAt, TypeOK
  <2>3. QED BY <1>5, <2>1, <2>2 DEF Receive
<1>6. ASSUME NEW n \in Node, PowerOff(n) PROVE TokenAt(r)
  <2>1. token_age' = token_age /\ msgs' = [msgs EXCEPT ![n] = <<>>]
    BY <1>6 DEF PowerOff
  <2>2. QED BY <1>1, <2>1, EmptyQueue DEF TokenAt
<1>7. CASE Tick
  BY <1>1, <1>7 DEF Tick, TokenAt, TypeOK
<1>8. CASE UNCHANGED vars
  BY <1>2, <1>8 DEF vars, rcvVars
<1>9. QED BY <1>4, <1>5, <1>6, <1>7, <1>8 DEF Next

(* What a step does to who has the token and who is on.                    *)
LEMMA HandOver ==
  ASSUME [Next]_vars
  PROVE  \/ UNCHANGED <<up, agent_has_token>>
         \/ \E n \in Node : PassOk(n)
         \/ \E n \in Node : ClaimToken(n)
         \/ \E n \in Node : PowerOff(n)
<1>1. ASSUME NEW n \in Node, Transmit(n), ~PassOk(n)
      PROVE  UNCHANGED <<up, agent_has_token>>
  BY <1>1 DEF Transmit, Exchange, Range, SendScan, Optimize, BeginPass, NextTarget,
              NoAnswer, TokenLost, AckLost, Failed
<1>2. ASSUME NEW n \in Node, Receive(n), ~ClaimToken(n)
      PROVE  UNCHANGED <<up, agent_has_token>>
  BY <1>2 DEF Receive, PollMeasurement, PollMessage, NotYet
<1>3. CASE Tick
  BY <1>3 DEF Tick
<1>4. CASE UNCHANGED vars
  BY <1>4 DEF vars
<1>5. QED BY <1>1, <1>2, <1>3, <1>4 DEF Next

(* A target that did not answer all the exchanges is off, so no drone that *)
(* is on is passed over.                                                   *)
LEMMA PassedOverStep ==
  ASSUME FewLosses, Inv, PassedOverAreOff, [Next]_vars
  PROVE  PassedOverAreOff'
<1>1. /\ pc \in [Node -> Listen \cup Turn] /\ target_id \in [Node -> Node]
      /\ up \subseteq Node
  BY DEF Inv, TypeOK
<1>2. up' \subseteq up
  BY HandOver DEF PassOk, ClaimToken, PowerOff
<1>3. ASSUME \A n \in Node : pc'[n] = "pass" /\ target_id'[n] # n =>
                pc[n] = "pass" /\ target_id'[n] = target_id[n]
      PROVE  PassedOverAreOff'
  BY <1>2, <1>3 DEF PassedOverAreOff, Abs!Distance
<1>4. ASSUME NEW n \in Node, NextTarget(n) PROVE PassedOverAreOff'
  <2> DEFINE next == get_next_node(target_id[n])
  <2>1. /\ pc' = pc /\ up' = up /\ target_id' = [target_id EXCEPT ![n] = next]
        /\ pc[n] = "pass" /\ attempt[n] = ATTEMPTS
    BY <1>4 DEF NextTarget
  <2>2. target_id[n] # n => target_id[n] \notin up
    <3>1. target_id[n] # n /\ target_id[n] \in up => attempt[n] = losses[n]
      BY <2>1 DEF Inv, LossesCounted
    <3>2. losses[n] \in Nat /\ losses[n] <= MaxLoss
      BY CounterTypes DEF Inv
    <3>3. QED BY <2>1, <3>1, <3>2, RetryAssumption DEF FewLosses
  <2>3. ASSUME NEW c \in up \ {n}, next # n
        PROVE  Abs!Distance(n, next) <= Abs!Distance(n, c)
    <3>1. /\ target_id[n] \in Node /\ c \in Node
          /\ Abs!Distance(n, next) = Abs!Distance(n, target_id[n]) + 1
          /\ Abs!Distance(n, target_id[n]) \in Nat /\ Abs!Distance(n, c) \in Nat
          /\ Abs!Distance(n, c) >= 1
      BY <1>1, <2>3, Distances
    <3>2. CASE target_id[n] = n
      <4>1. Abs!Distance(n, n) = 0
        BY NodeAssumption DEF Abs!Distance, Node
      <4>2. QED BY <3>1, <3>2, <4>1
    <3>3. CASE target_id[n] # n
      <4>1. c # target_id[n]
        BY <2>2, <3>3
      <4>2. Abs!Distance(n, target_id[n]) # Abs!Distance(n, c)
        BY <3>1, <4>1, Distances
      <4>3. Abs!Distance(n, target_id[n]) <= Abs!Distance(n, c)
        BY <2>1, <3>3 DEF PassedOverAreOff
      <4>4. QED BY <3>1, <4>2, <4>3
    <3>4. QED BY <3>2, <3>3
  <2>4. ASSUME NEW m \in Node, pc'[m] = "pass", target_id'[m] # m,
               NEW c \in up' \ {m}
        PROVE  Abs!Distance(m, target_id'[m]) <= Abs!Distance(m, c)
    <3>1. CASE m = n
      BY <1>1, <2>1, <2>3, <2>4, <3>1
    <3>2. CASE m # n
      BY <1>1, <2>1, <2>4, <3>2 DEF PassedOverAreOff
    <3>3. QED BY <3>1, <3>2
  <2>5. QED BY <2>4 DEF PassedOverAreOff, Abs!Distance
<1>5. ASSUME NEW n \in Node, Transmit(n), ~NextTarget(n) PROVE PassedOverAreOff'
  <2>1. CASE Range(n) \/ SendScan(n) \/ Optimize(n)
    BY <1>1, <1>3, <2>1 DEF Range, SendScan, Optimize, passVars
  <2>2. CASE BeginPass(n)
    BY <1>1, <1>3, <2>2 DEF BeginPass
  <2>3. CASE PassOk(n)
    BY <1>1, <1>3, <2>3 DEF PassOk
  <2>4. CASE NoAnswer(n) \/ TokenLost(n) \/ AckLost(n)
    BY <1>3, <2>4 DEF NoAnswer, TokenLost, AckLost, Failed
  <2>5. QED BY <1>5, <2>1, <2>2, <2>3, <2>4 DEF Transmit, Exchange
<1>6. ASSUME NEW n \in Node, Receive(n) PROVE PassedOverAreOff'
  <2>1. CASE PollMeasurement(n) \/ PollMessage(n)
    BY <1>1, <1>3, <2>1 DEF PollMeasurement, PollMessage, Goto, passVars
  <2>2. CASE ClaimToken(n) \/ NotYet(n)
    BY <1>1, <1>3, <2>2 DEF ClaimToken, NotYet, Goto, passVars
  <2>3. QED BY <1>6, <2>1, <2>2 DEF Receive
<1>7. ASSUME NEW n \in Node, PowerOff(n) PROVE PassedOverAreOff'
  BY <1>3, <1>7 DEF PowerOff, passVars
<1>8. CASE Tick
  BY <1>3, <1>8 DEF Tick
<1>9. CASE UNCHANGED vars
  BY <1>3, <1>9 DEF vars, passVars
<1>10. QED BY <1>4, <1>5, <1>6, <1>7, <1>8, <1>9 DEF Next

(* The step that hands the token over.                                     *)
LEMMA PassOkGives ==
  ASSUME Inv, Inv', PassedOverAreOff, NEW n \in Node, PassOk(n) PROVE Abs!Give
<1>1. /\ n \in up /\ pc[n] = "pass" /\ agent_has_token[n]
      /\ target_id[n] # n /\ target_id[n] \in up /\ up' = up
  BY RetryAssumption
  DEF PassOk, ReadyToSend, Responding, Inv, TypeOK, LossesCounted, ModesAgree, Turn
<1>2. TheHolder = n /\ \A m \in Node : agent_has_token[m] => m = n
  BY <1>1, HolderHas
<1>3. \A m \in Node : ~agent_has_token'[m]
  BY <1>2 DEF PassOk, Inv, TypeOK
<1>4. PICK r \in Node : r = target_id[n]
  BY DEF Inv, TypeOK
<1>5. TokenAt(r)'
  BY <1>1, <1>4, TokenReceived DEF PassOk, TokenAt
<1>6. TheHolder' = r
  <2>1. \A m \in Node : TokenAt(m)' => m = r
    BY <1>5 DEF Inv, ClaimOnce
  <2>2. QED BY <1>3, <1>5, <2>1 DEF TheHolder
<1>7. Abs!NextUp(n, r)
  BY <1>1, <1>4 DEF Abs!NextUp, PassedOverAreOff
<1>8. QED BY <1>1, <1>2, <1>3, <1>6, <1>7 DEF Abs!Give, Abs!Node, Node

(* The step that takes it.                                                 *)
LEMMA ClaimTakes ==
  ASSUME Inv, Inv', NEW n \in Node, ClaimToken(n) PROVE Abs!Take
<1>1. /\ TokenAt(n) /\ ~agent_has_token[n] /\ up' = up /\ agent_has_token'[n]
  <2>1. token_age[n] >= ClaimMin /\ pc[n] = "check" /\ up' = up
    BY DEF ClaimToken
  <2>2. TokenAt(n)
    BY <2>1, RetryAssumption DEF TokenAt, None
  <2>3. ~agent_has_token[n]
    BY <2>1 DEF Inv, ModesAgree, Turn
  <2>4. agent_has_token'[n]
    BY Zenon DEF ClaimToken, Inv, TypeOK
  <2>5. QED BY <2>1, <2>2, <2>3, <2>4
<1>2. \A m \in Node : ~agent_has_token[m]
  <2>1. \A m \in Node : agent_has_token[m] =>
          agent_has_token'[m]
    BY DEF ClaimToken, Inv, TypeOK
  <2>2. \A m \in Node : agent_has_token'[m] => m = n
    BY <1>1 DEF Inv, Overlap
  <2>3. QED BY <1>1, <2>1, <2>2
<1>3. TheHolder = n
  BY <1>1, <1>2, HolderGets
<1>4. TheHolder' = n
  <2>1. \A m \in Node : agent_has_token'[m] => m = n
    BY <1>1 DEF Inv, Overlap
  <2>2. QED BY <1>1, <2>1 DEF TheHolder
<1>5. QED BY <1>1, <1>2, <1>3, <1>4 DEF Abs!Take

(* Any step that leaves the drones that have the token leaves the holder:  *)
(* the token is not lost, and no copy appears.                             *)
LEMMA HolderStays ==
  ASSUME Inv, Inv', [Next]_vars, agent_has_token' = agent_has_token,
         \A n \in Node : ~PassOk(n)
  PROVE  TheHolder' = TheHolder
<1>1. CASE \E n \in Node : agent_has_token[n]
  BY <1>1 DEF TheHolder
<1>2. CASE \A n \in Node : ~agent_has_token[n]
  <2>1. PICK h \in Node : TokenAt(h)'
    BY <1>2 DEF Inv, TokenNotLost, TypeOK
  <2>2. \A n \in Node : ~AckLost(n)
    BY <1>2 DEF AckLost, ReadyToSend, Inv, ModesAgree, Turn
  <2>3. TokenAt(h)
    BY <2>1, <2>2, NoNewToken
  <2>4. TheHolder = h
    BY <1>2, <2>3, HolderGets
  <2>5. TheHolder' = h
    <3>1. \A m \in Node : TokenAt(m)' => m = h
      BY <2>1 DEF Inv, ClaimOnce
    <3>2. QED BY <1>2, <2>1, <3>1 DEF TheHolder
  <2>6. QED BY <2>4, <2>5
<1>3. QED BY <1>1, <1>2

(* A drone that goes off has not got the token.                            *)
LEMMA PowerOffStutters ==
  ASSUME Inv, Inv', [Next]_vars, NEW n \in Node, PowerOff(n)
  PROVE  Abs!PowerOff
<1>1. /\ n \in MayFail /\ ~agent_has_token[n] /\ ~TokenAt(n)
      /\ up' = up \ {n} /\ agent_has_token' = agent_has_token
  BY DEF PowerOff, Inv, ModesAgree, Listen, Turn
<1>2. \A m \in Node : ~PassOk(m)
  <2> SUFFICES ASSUME NEW m \in Node, PassOk(m) PROVE FALSE
    OBVIOUS
  <2>1. agent_has_token[m]
    BY DEF PassOk, ReadyToSend, Inv, ModesAgree, Turn
  <2>2. ~agent_has_token'[m]
    BY Zenon DEF PassOk, Inv, TypeOK
  <2>3. QED BY <1>1, <2>1, <2>2
<1>3. TheHolder' = TheHolder
  BY <1>1, <1>2, HolderStays
<1>4. TheHolder # n
  <2>1. CASE \E m \in Node : agent_has_token[m]
    BY <1>1, <2>1, HolderHas
  <2>2. CASE \A m \in Node : ~agent_has_token[m]
    <3>1. PICK h \in Node : TokenAt(h)
      BY <2>2 DEF Inv, TokenNotLost, TypeOK
    <3>2. QED BY <1>1, <2>2, <3>1, HolderGets
  <2>3. QED BY <2>1, <2>2
<1>5. QED BY <1>1, <1>3, <1>4 DEF Abs!PowerOff

LEMMA RingSimulates ==
  ASSUME FewLosses, Inv, PassedOverAreOff, [Next]_vars
  PROVE  [Abs!Next]_(Abs!vars)
<1>1. Inv'
  BY InvStep
<1>2. CASE \E n \in Node : PassOk(n)
  BY <1>1, <1>2, PassOkGives DEF Abs!Next
<1>3. CASE \E n \in Node : ClaimToken(n)
  BY <1>1, <1>3, ClaimTakes DEF Abs!Next
<1>4. CASE \E n \in Node : PowerOff(n)
  BY <1>1, <1>4, PowerOffStutters DEF Abs!Next
<1>5. CASE UNCHANGED <<up, agent_has_token>> /\ \A n \in Node : ~PassOk(n)
  BY <1>1, <1>5, HolderStays DEF Abs!vars
<1>6. QED BY <1>2, <1>3, <1>4, <1>5, HandOver

LEMMA RingStarts == Init => Abs!Init /\ PassedOverAreOff
<1> SUFFICES ASSUME Init PROVE Abs!Init /\ PassedOverAreOff
  OBVIOUS
<1>1. 0 \in Node /\ agent_has_token[0] /\ up = Powered
  BY NodeAssumption DEF Init, Node
<1>2. TheHolder = 0
  BY <1>1, InvInit, HolderHas
<1>3. \A n \in Node : pc[n] # "pass"
  BY DEF Init
<1>4. QED BY <1>1, <1>2, <1>3 DEF Abs!Init, PassedOverAreOff

(* Whatever is lost, each drone passes the token to the next one that is   *)
(* on, which has its turn before any other (uwb_ranging.c:464-485).        *)
THEOREM RingImplementsTokenPassing == FewLosses => (Spec => PassesInOrder)
<1> SUFFICES ASSUME FewLosses PROVE Spec => PassesInOrder
  OBVIOUS
<1>1. Inv /\ PassedOverAreOff /\ [Next]_vars => PassedOverAreOff'
  BY PassedOverStep
<1>2. Inv /\ PassedOverAreOff /\ [Next]_vars => [Abs!Next]_(Abs!vars)
  BY RingSimulates
<1>3. QED
  BY <1>1, <1>2, RingStarts, RingInvariant, PTL
  DEF Spec, PassesInOrder, Abs!Spec
=============================================================================
