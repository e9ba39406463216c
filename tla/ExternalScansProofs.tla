------------------------- MODULE ExternalScansProofs -------------------------
(***************************************************************************)
(* Proofs about ExternalScans: whatever the radio loses or repeats, poses  *)
(* are stored within their table and fit their buffer; and while every     *)
(* packet arrives once, the GAP9 cuts the stream into the scans that were  *)
(* sent, matches each once, and keeps its constraints up to date.          *)
(*                                                                         *)
(* The proofs follow the invariant Inv of ExternalScans: its parts that    *)
(* need no assumption first (types, the turns, what may wait, the scans of *)
(* ME, the updates), then ScansWhole, which holds while no packet of a     *)
(* scan is lost or repeated and the table has room (RoomForScans).         *)
(***************************************************************************)
EXTENDS ExternalScans, SequenceTheorems, FiniteSetTheorems,
        WellFoundedInduction, TLAPS

(* The greatest element of a bounded set of numbers is one of them.        *)
LEMMA HasMax ==
  ASSUME NEW S \in SUBSET Nat, NEW n \in Nat, \A x \in S : x <= n, S # {}
  PROVE  Max(S) \in S /\ \A x \in S : x <= Max(S)
<1> DEFINE Above(x) == {y \in S : y > x}
           C == {Above(x) : x \in S}
<1>1. IsFiniteSet(S)
  BY FS_BoundedSetOfNaturals
<1>2. C \subseteq FiniteSubsetsOf(S) /\ C # {}
  <2>1. \A x \in S : Above(x) \in SUBSET S
    OBVIOUS
  <2>2. \A D \in SUBSET S : IsFiniteSet(D)
    BY <1>1, FS_Subset
  <2>3. QED BY <2>1, <2>2 DEF FiniteSubsetsOf
<1>3. IsWellFoundedOn(StrictSubsetOrdering(S), FiniteSubsetsOf(S))
  BY FS_StrictSubsetOrderingWellFounded
<1>4. PICK A \in C : \A D \in C : ~(<<D, A>> \in StrictSubsetOrdering(S))
  BY <1>2, <1>3, WFMin
<1>5. PICK x \in S : A = Above(x)
  BY <1>4
<1>6. \A y \in S : y <= x
  <2> SUFFICES ASSUME NEW y \in S, y > x PROVE FALSE
    OBVIOUS
  <2>1. Above(y) \in C /\ Above(y) \subseteq A /\ Above(y) # A
    <3>1. y \notin Above(y) /\ y \in A
      BY <1>5
    <3>2. \A z \in Above(y) : z \in Above(x)
      OBVIOUS
    <3>3. QED BY <1>5, <3>1, <3>2
  <2>2. <<Above(y), A>> \in (SUBSET S) \X (SUBSET S)
    BY <1>5
  <2> HIDE DEF Above, C
  <2>3. <<Above(y), A>> \in StrictSubsetOrdering(S)
    BY <2>1, <2>2 DEF StrictSubsetOrdering
  <2>4. QED BY <1>4, <2>1, <2>3
<1>7. QED BY <1>6 DEF Max

(* So is the least one.                                                    *)
LEMMA HasMin ==
  ASSUME NEW n \in Nat, NEW S \in SUBSET (0 .. n), S # {}
  PROVE  Min(S) \in S /\ \A x \in S : Min(S) <= x
<1> DEFINE M == {n - x : x \in S}
<1>1. M \in SUBSET Nat /\ M # {} /\ \A y \in M : y <= n
  <2>1. \A x \in S : x \in Nat /\ n - x \in Nat /\ n - x <= n
    OBVIOUS
  <2>2. QED BY <2>1
<1>2. Max(M) \in M /\ \A y \in M : y <= Max(M)
  BY <1>1, HasMax
<1>3. PICK x \in S : Max(M) = n - x
  BY <1>2
<1>4. \A y \in S : x <= y
  <2> SUFFICES ASSUME NEW y \in S PROVE x <= y
    OBVIOUS
  <2>1. n - y \in M
    OBVIOUS
  <2>2. n - y <= n - x
    BY <1>2, <1>3, <2>1
  <2>3. QED BY <2>2
<1>5. QED BY <1>4 DEF Min

(* The constants are numbers, and the sets of them are sets of numbers.    *)
LEMMA Sizes ==
  /\ ME \in Nat \ {0} /\ SCAN_LEN \in Nat \ {0}
  /\ MAX_SCANS \in Nat \ {0} /\ BUF_SIZE \in Nat \ {0}
  /\ ATTEMPTS \in Nat \ {0} /\ MaxScans \in Nat /\ MaxOptimized \in Nat
  /\ MaxFaulty \in Nat /\ MaxUpdLost \in Nat /\ MaxSkipped \in Nat
BY ExternalAssumption DEF ExternalAssumption

(* What one drone acquires and optimises is bounded by what all may.       *)
LEMMA OfDrone ==
  /\ \A d \in Drone : ScansOf[d] \in 0 .. MaxScans
  /\ \A s \in Sender : OptimizationsOf[s] \in 0 .. MaxOptimized
BY ExternalAssumption DEF ExternalAssumption, Drone, Sender

----------------------------------------------------------------------------
(* Lemmas about the operators *)

(* The first entry that is not taken, when there is one.                   *)
LEMMA FirstFreeIsFree ==
  ASSUME FreeSlots # {}
  PROVE  FirstFree \in Slot /\ ~ext_scan_table[FirstFree].taken
<1>1. FreeSlots \in SUBSET (0 .. MAX_SCANS - 1) /\ MAX_SCANS - 1 \in Nat
  BY Sizes DEF FreeSlots, Slot
<1>2. FirstFree \in FreeSlots
  BY <1>1, HasMin DEF FirstFree
<1>3. QED BY <1>2 DEF FreeSlots

(* An update changes the version of a constraint and nothing else.         *)
LEMMA OnlyVersions ==
  ASSUME ext_pose_upd_table \in Seq(PoseUpdate), NEW cs \in Seq(ExtConstraint)
  PROVE  /\ update_external_constraints(cs) \in Seq(ExtConstraint)
         /\ Len(update_external_constraints(cs)) = Len(cs)
         /\ \A k \in 1 .. Len(cs) :
              /\ update_external_constraints(cs)[k].from_drone = cs[k].from_drone
              /\ update_external_constraints(cs)[k].ref = cs[k].ref
              /\ update_external_constraints(cs)[k].cur = cs[k].cur
<1> DEFINE U == ext_pose_upd_table
           mine(k) == {i \in DOMAIN U : /\ Concerns(U[i], cs[k])
                                        /\ \A m \in 1 .. k - 1 : ~Concerns(U[i], cs[m])}
           new(k) == IF mine(k) = {} THEN cs[k]
                     ELSE [cs[k] EXCEPT !.version = U[Max(mine(k))].version]
<1>1. update_external_constraints(cs) = [k \in DOMAIN cs |-> new(k)]
  BY DEF update_external_constraints
<1>2. ASSUME NEW k \in 1 .. Len(cs)
      PROVE  /\ new(k) \in ExtConstraint
             /\ new(k).from_drone = cs[k].from_drone
             /\ new(k).ref = cs[k].ref /\ new(k).cur = cs[k].cur
  <2>1. cs[k] \in ExtConstraint
    OBVIOUS
  <2>2. CASE mine(k) = {}
    BY <2>1, <2>2
  <2>3. CASE mine(k) # {}
    <3>1. mine(k) \in SUBSET Nat /\ Len(U) \in Nat /\ \A i \in mine(k) : i <= Len(U)
      OBVIOUS
    <3>2. Max(mine(k)) \in DOMAIN U
      BY <2>3, <3>1, HasMax
    <3> HIDE DEF mine
    <3>3. U[Max(mine(k))].version \in 0 .. MaxOptimized
      <4>1. \A i \in DOMAIN U : U[i] \in PoseUpdate
        OBVIOUS
      <4>2. \A i \in DOMAIN U : U[i].version \in 0 .. MaxOptimized
        BY <4>1 DEF PoseUpdate
      <4>3. QED BY <3>2, <4>2
    <3>4. new(k) = [cs[k] EXCEPT !.version = U[Max(mine(k))].version]
      BY <2>3
    <3>5. QED BY <2>1, <3>3, <3>4 DEF ExtConstraint
  <2>4. QED BY <2>2, <2>3
<1> HIDE DEF new
<1>3. QED BY <1>1, <1>2

(* The constraints that matches add.                                       *)
LEMMA Added ==
  ASSUME TypeOK, NEW n \in Nat, NEW slots \in Matches(n),
         NEW own \in Injection(1 .. n, Unmatched)
  PROVE  /\ NewConstraints(slots, own) \in Seq(ExtConstraint)
         /\ Len(NewConstraints(slots, own)) = n
         /\ \A k \in 1 .. n :
              /\ NewConstraints(slots, own)[k].from_drone =
                   ext_scan_table[slots[k]].from_drone
              /\ NewConstraints(slots, own)[k].ref =
                   ext_scan_table[slots[k]].pose_id
              /\ NewConstraints(slots, own)[k].cur = own[k]
<1>1. /\ slots \in [1 .. n -> TakenSlots] /\ own \in [1 .. n -> Unmatched]
  BY DEF Matches, Injection
<1>2. \A k \in 1 .. n : slots[k] \in Slot /\ own[k] \in Scan
  <2>1. scans[ME] \in 0 .. MaxScans
    BY Sizes DEF TypeOK, Drone
  <2>2. Unmatched \subseteq Scan
    BY <2>1, Sizes DEF Unmatched, Scan
  <2>3. QED BY <1>1, <2>2 DEF TakenSlots
<1>3. \A k \in 1 .. n : ext_scan_table[slots[k]] \in ExtScan
  BY <1>2 DEF TypeOK
<1>4. \A k \in 1 .. n :
        [from_drone |-> ext_scan_table[slots[k]].from_drone,
         ref |-> ext_scan_table[slots[k]].pose_id,
         cur |-> own[k], version |-> 0] \in ExtConstraint
  BY <1>2, <1>3, Sizes DEF ExtConstraint, ExtScan
<1>5. QED BY <1>1, <1>4 DEF NewConstraints

----------------------------------------------------------------------------
(* The type invariant. *)

(* At power-up every variable has its type.                                *)
LEMMA TypeInit == Init => TypeOK
<1> SUFFICES ASSUME Init PROVE TypeOK
  OBVIOUS
<1>1. /\ 0 \in Drone /\ 0 \in Sender /\ 0 \in Slot /\ 0 \in 0 .. SCAN_LEN - 1
      /\ 0 \in 0 .. MaxScans /\ 0 \in 0 .. MaxOptimized /\ 0 \in 0 .. SCAN_LEN
  BY Sizes DEF Drone, Sender, Slot
<1>2. faults \in [faulty : 0 .. MaxFaulty, updLost : 0 .. MaxUpdLost,
                  skipped : 0 .. MaxSkipped]
  BY Sizes DEF Init
<1>3. ext_scan_table \in [Slot -> ExtScan]
  BY <1>1 DEF Init, ExtScan
<1>4. /\ turn \in Drone /\ scans \in [Drone -> 0 .. MaxScans]
      /\ version \in [Sender -> 0 .. MaxOptimized] /\ left \in 0 .. SCAN_LEN
      /\ ext_scan_table_idx \in Slot /\ ext_aug_pose_idx \in 0 .. SCAN_LEN - 1
      /\ latest \in [Sender \X Scan -> 0 .. MaxOptimized]
  BY <1>1 DEF Init
<1>5. /\ gap9_ext_aug_pose_buf \in Seq(ExtPose) /\ gap9_pose_buf \in Seq(PoseUpdate)
      /\ ext_pose_upd_table \in Seq(PoseUpdate)
      /\ ext_const_table \in Seq(ExtConstraint)
      /\ phase \in {"scan", "send", "update", "flush", "optimize"}
  BY DEF Init
<1>6. QED BY <1>2, <1>3, <1>4, <1>5 DEF TypeOK

(* A packet is a pose of the table of external scans.                      *)
LEMMA PacketType ==
  ASSUME TypeOK, Sending, scans[turn] > 0
  PROVE  Packet \in ExtPose
<1>1. turn \in Sender /\ scans[turn] \in Scan
  <2>1. turn \in 0 .. ME /\ turn # ME /\ scans[turn] \in 0 .. MaxScans
    BY DEF TypeOK, Sending, Drone
  <2>2. QED BY <2>1, Sizes DEF Sender, Scan
<1>2. SCAN_LEN - left \in 0 .. SCAN_LEN - 1
  BY Sizes DEF TypeOK, Sending
<1>3. QED BY <1>1, <1>2 DEF Packet, ExtPose

(* The GAP9 stores a pose.                                                 *)
LEMMA PoseStored ==
  ASSUME TypeOK, NEW pose \in ExtPose, add_ext_aug_pose_to_buf(pose)
  PROVE  /\ ext_scan_table' \in [Slot -> ExtScan]
         /\ ext_scan_table_idx' \in Slot
         /\ ext_aug_pose_idx' \in 0 .. SCAN_LEN - 1
<1> DEFINE opens == ext_aug_pose_idx = 0 /\ FreeSlots # {}
           idx == IF opens THEN FirstFree ELSE ext_scan_table_idx
<1>1. idx \in Slot /\ ext_aug_pose_idx \in 0 .. SCAN_LEN - 1
  BY FirstFreeIsFree DEF TypeOK
<1>2. /\ ext_scan_table_idx' = idx
      /\ ext_scan_table' =
           [ext_scan_table EXCEPT ![idx] =
             [taken |-> @.taken \/ Full,
              from_drone |-> IF opens THEN pose.drone_id ELSE @.from_drone,
              pose_id |-> IF opens THEN pose.scan ELSE @.pose_id,
              poses |-> [@.poses EXCEPT ![ext_aug_pose_idx] = pose]]]
      /\ ext_aug_pose_idx' = IF Full THEN 0 ELSE ext_aug_pose_idx + 1
  BY DEF add_ext_aug_pose_to_buf
<1>3. ext_aug_pose_idx' \in 0 .. SCAN_LEN - 1
  <2>1. CASE Full
    BY <1>2, <2>1, Sizes
  <2>2. CASE ~Full
    BY <1>1, <1>2, <2>2, Sizes DEF Full
  <2>3. QED BY <2>1, <2>2
<1>4. ext_scan_table[idx] \in ExtScan
  BY <1>1 DEF TypeOK
<1>5. /\ pose.drone_id \in Sender /\ pose.scan \in Scan
  BY DEF ExtPose
<1> DEFINE e == ext_scan_table[idx]
           new == [taken |-> e.taken \/ Full,
                   from_drone |-> IF opens THEN pose.drone_id ELSE e.from_drone,
                   pose_id |-> IF opens THEN pose.scan ELSE e.pose_id,
                   poses |-> [e.poses EXCEPT ![ext_aug_pose_idx] = pose]]
<1>6. ext_scan_table' = [ext_scan_table EXCEPT ![idx] = new]
  BY <1>2
<1> HIDE DEF opens, idx
<1>7. new \in ExtScan
  <2>1. e.poses \in [0 .. SCAN_LEN - 1 -> ExtPose \cup {NoPose}]
    BY <1>4 DEF ExtScan
  <2>2. [e.poses EXCEPT ![ext_aug_pose_idx] = pose]
          \in [0 .. SCAN_LEN - 1 -> ExtPose \cup {NoPose}]
    BY <2>1
  <2>3. e.taken \in BOOLEAN /\ e.from_drone \in Sender /\ e.pose_id \in {0} \cup Scan
    BY <1>4 DEF ExtScan
  <2>4. (e.taken \/ Full) \in BOOLEAN
    OBVIOUS
  <2>5. QED BY <1>5, <2>2, <2>3, <2>4 DEF ExtScan
<1> HIDE DEF new
<1>8. QED BY <1>1, <1>2, <1>3, <1>6, <1>7 DEF TypeOK

(* The counters of faults.                                                 *)
FaultCounts == [faulty : 0 .. MaxFaulty, updLost : 0 .. MaxUpdLost,
                skipped : 0 .. MaxSkipped]

(* A fault that is counted stays within its bound.                         *)
LEMMA FaultsCounted ==
  ASSUME TypeOK
  PROVE  /\ faults \in FaultCounts
         /\ faults.faulty < MaxFaulty =>
              [faults EXCEPT !.faulty = @ + 1] \in FaultCounts
         /\ faults.updLost < MaxUpdLost =>
              [faults EXCEPT !.updLost = @ + 1] \in FaultCounts
         /\ faults.skipped < MaxSkipped =>
              [faults EXCEPT !.skipped = @ + 1] \in FaultCounts
<1>1. faults \in FaultCounts
  BY DEF TypeOK, FaultCounts
<1>2. /\ faults.faulty < MaxFaulty => faults.faulty + 1 \in 0 .. MaxFaulty
      /\ faults.updLost < MaxUpdLost => faults.updLost + 1 \in 0 .. MaxUpdLost
      /\ faults.skipped < MaxSkipped => faults.skipped + 1 \in 0 .. MaxSkipped
  BY <1>1, Sizes DEF FaultCounts
<1>3. QED BY <1>1, <1>2 DEF FaultCounts

(* What waits after a packet arrived n times; once is Append.              *)
LEMMA CopiesWait ==
  ASSUME TypeOK, Packet \in ExtPose, NEW n \in Nat
  PROVE  /\ Copies(n) \in Seq(ExtPose)
         /\ Len(Copies(n)) = Len(gap9_ext_aug_pose_buf) + n
         /\ n = 1 => Copies(n) = Append(gap9_ext_aug_pose_buf, Packet)
<1> DEFINE B == gap9_ext_aug_pose_buf
           c == [k \in 1 .. n |-> Packet]
<1>1. B \in Seq(ExtPose) /\ c \in Seq(ExtPose) /\ Len(c) = n
  BY DEF TypeOK
<1>2. Copies(n) = B \o c
  BY DEF Copies
<1>3. n = 1 => c = <<Packet>>
  OBVIOUS
<1> HIDE DEF c
<1>4. B \o c \in Seq(ExtPose) /\ Len(B \o c) = Len(B) + n
  BY <1>1
<1>5. Append(B, Packet) = B \o <<Packet>>
  BY <1>1
<1>6. QED BY <1>2, <1>3, <1>4, <1>5

(* There is a packet left to send, and one less afterwards.                *)
LEMMA OnePacketLess ==
  ASSUME TypeOK, Sending PROVE left \in Nat /\ left - 1 \in 0 .. SCAN_LEN
<1>1. left \in 0 .. SCAN_LEN /\ left > 0
  BY DEF TypeOK, Sending
<1>2. QED BY <1>1, Sizes

(* Every step of the ring, of the radio and of the GAP9 keeps the types.   *)
LEMMA TypeStep ==
  ASSUME TypeOK, PhaseOfTurn, [Next]_vars PROVE TypeOK'
<1> USE Sizes
<1>1. turn # ME => turn \in Sender
  BY DEF TypeOK, Drone, Sender
<1>2. turn # ME => turn + 1 \in Drone
  BY DEF TypeOK, Drone
<1>3. CASE StartTurn
  <2>1. CASE /\ scans[turn] < ScansOf[turn] /\ scans' = [scans EXCEPT ![turn] = @ + 1]
             /\ left' = SCAN_LEN /\ phase' = "send"
    <3>1. scans[turn] + 1 \in 0 .. MaxScans
      <4>1. scans[turn] \in 0 .. MaxScans /\ ScansOf[turn] \in 0 .. MaxScans
        BY OfDrone DEF TypeOK
      <4>2. QED BY <2>1, <4>1
    <3>2. scans' \in [Drone -> 0 .. MaxScans] /\ left' \in 0 .. SCAN_LEN
      BY <2>1, <3>1 DEF TypeOK
    <3>3. QED BY <1>3, <2>1, <3>2 DEF TypeOK, StartTurn, stmVars, gapVars, tableVars
  <2>2. CASE phase' = "update" /\ UNCHANGED <<scans, left>>
    BY <1>3, <2>2 DEF TypeOK, StartTurn, stmVars, gapVars, tableVars
  <2>3. QED BY <1>3, <2>1, <2>2 DEF StartTurn
<1>4. CASE PacketArrives
  <2>1. Packet \in ExtPose
    BY <1>4, PacketType DEF PacketArrives, Sending, PhaseOfTurn
  <2>2. left' \in 0 .. SCAN_LEN
    BY <1>4, OnePacketLess DEF PacketArrives
  <2>3. /\ gap9_ext_aug_pose_buf' \in Seq(ExtPose)
        /\ faults' \in FaultCounts
    <3>1. CASE gap9_ext_aug_pose_buf' = Copies(1) /\ UNCHANGED faults
      BY <2>1, <3>1, CopiesWait, FaultsCounted
    <3>2. CASE Fault /\ \E n \in 2 .. ATTEMPTS : gap9_ext_aug_pose_buf' = Copies(n)
      <4>1. PICK n \in 2 .. ATTEMPTS : gap9_ext_aug_pose_buf' = Copies(n)
        BY <3>2
      <4>2. gap9_ext_aug_pose_buf' \in Seq(ExtPose)
        BY <2>1, <4>1, CopiesWait
      <4>3. QED BY <3>2, <4>2, FaultsCounted DEF Fault
    <3>3. QED BY <1>4, <3>1, <3>2 DEF PacketArrives
  <2>4. QED BY <1>4, <2>2, <2>3 DEF PacketArrives, TypeOK, FaultCounts, gapVars, tableVars
<1>5. CASE PacketLost
  <2>1. left' \in 0 .. SCAN_LEN
    BY <1>5, OnePacketLess DEF PacketLost
  <2>2. faults' \in FaultCounts
    BY <1>5, FaultsCounted DEF PacketLost, Fault
  <2>3. QED
    BY <1>5, <2>1, <2>2 DEF PacketLost, TypeOK, FaultCounts, stmVars, gapVars, tableVars
<1>6. CASE ScanSent
  BY <1>6 DEF ScanSent, TypeOK, stmVars, gapVars, tableVars
<1>7. CASE SendUpdates
  <2>1. version[turn] + 1 \in 0 .. MaxOptimized /\ version'[turn] = version[turn] + 1
    <3>1. /\ turn \in Sender /\ version[turn] < OptimizationsOf[turn]
          /\ OptimizationsOf[turn] \in 0 .. MaxOptimized
      BY <1>1, <1>7, OfDrone DEF SendUpdates
    <3>2. version[turn] \in 0 .. MaxOptimized /\ version \in [Sender -> 0 .. MaxOptimized]
      BY <3>1 DEF TypeOK
    <3>3. QED BY <1>7, <3>1, <3>2 DEF SendUpdates
  <2>2. version' \in [Sender -> 0 .. MaxOptimized]
    BY <1>7, <2>1 DEF SendUpdates, TypeOK
  <2>3. PICK n \in 0 .. scans[turn] :
          /\ gap9_pose_buf' = gap9_pose_buf \o Updates(turn, version'[turn], n)
          /\ \/ n = scans[turn] /\ UNCHANGED faults
             \/ /\ n < scans[turn] /\ faults.updLost < MaxUpdLost
                /\ faults' = [faults EXCEPT !.updLost = @ + 1]
    BY <1>7 DEF SendUpdates
  <2>4. Updates(turn, version'[turn], n) \in Seq(PoseUpdate)
    <3>1. n \in 0 .. MaxScans
      <4>1. scans[turn] \in 0 .. MaxScans
        BY DEF TypeOK
      <4>2. QED BY <4>1
    <3>2. \A k \in 1 .. n : k \in Scan
      BY <3>1 DEF Scan
    <3>3. \A k \in 1 .. n :
            [drone_id |-> turn, scan |-> k, version |-> version'[turn]] \in PoseUpdate
      BY <1>1, <1>7, <2>1, <3>2 DEF SendUpdates, PoseUpdate
    <3>4. QED BY <3>1, <3>3 DEF Updates
  <2>5. gap9_pose_buf' \in Seq(PoseUpdate)
    BY <2>3, <2>4 DEF TypeOK
  <2>6. faults' \in FaultCounts
    BY <2>3, FaultsCounted
  <2>7. turn' \in Drone
    BY <1>2, <1>7 DEF SendUpdates
  <2>8. QED BY <1>7, <2>2, <2>5, <2>6, <2>7
    DEF SendUpdates, TypeOK, FaultCounts, gapVars, tableVars
<1>8. CASE NoUpdates
  BY <1>2, <1>8 DEF NoUpdates, TypeOK, stmVars, gapVars, tableVars
<1>9. CASE Skipped
  <2>1. faults' \in FaultCounts
    BY <1>9, FaultsCounted DEF Skipped
  <2>2. turn' \in Drone
    BY <1>9 DEF Skipped, Drone
  <2>3. QED BY <1>9, <2>1, <2>2
    DEF Skipped, TypeOK, FaultCounts, stmVars, gapVars, tableVars
<1>10. CASE StartOwnTurn
  <2>1. scans' \in [Drone -> 0 .. MaxScans]
    <3>1. CASE scans[ME] < ScansOf[ME] /\ scans' = [scans EXCEPT ![ME] = @ + 1]
      <4>1. /\ ME \in Drone /\ scans \in [Drone -> 0 .. MaxScans]
            /\ ScansOf[ME] \in 0 .. MaxScans
        BY OfDrone DEF TypeOK, Drone
      <4>2. scans[ME] + 1 \in 0 .. MaxScans
        BY <3>1, <4>1
      <4>3. QED BY <3>1, <4>1, <4>2
    <3>2. CASE UNCHANGED scans
      BY <3>2 DEF TypeOK
    <3>3. QED BY <1>10, <3>1, <3>2 DEF StartOwnTurn
  <2>2. QED BY <1>10, <2>1 DEF StartOwnTurn, TypeOK, stmVars, gapVars, tableVars
<1>11. CASE ForwardPose
  <2>1. Head(gap9_ext_aug_pose_buf) \in ExtPose
    BY <1>11 DEF ForwardPose, TypeOK
  <2>2. gap9_ext_aug_pose_buf' \in Seq(ExtPose)
    BY <1>11 DEF ForwardPose, TypeOK
  <2>3. QED BY <1>11, <2>1, <2>2, PoseStored DEF ForwardPose, TypeOK, ringVars
<1>12. CASE ForwardUpdate
  <2> DEFINE u == Head(gap9_pose_buf)
  <2>1. u \in PoseUpdate /\ gap9_pose_buf' \in Seq(PoseUpdate)
    BY <1>12 DEF ForwardUpdate, TypeOK
  <2>2. ext_pose_upd_table' \in Seq(PoseUpdate)
    BY <1>12, <2>1 DEF ForwardUpdate, TypeOK
  <2>3. u.version \in 0 .. MaxOptimized
    BY <2>1 DEF PoseUpdate
  <2>4. latest' = [latest EXCEPT ![<<u.drone_id, u.scan>>] = u.version]
    BY <1>12 DEF ForwardUpdate
  <2> HIDE DEF u
  <2>5. latest' \in [Sender \X Scan -> 0 .. MaxOptimized]
    BY <2>3, <2>4 DEF TypeOK
  <2>6. QED BY <1>12, <2>1, <2>2, <2>5 DEF ForwardUpdate, TypeOK, ringVars, tableVars
<1>13. CASE Forwarded
  <2>1. turn' \in Drone
    BY <1>13 DEF Forwarded, TypeOK, Drone
  <2>2. QED BY <1>13, <2>1 DEF Forwarded, TypeOK, stmVars, gapVars, tableVars
<1>14. CASE Optimize
  <2>1. PICK n \in 0 .. MAX_SCANS :
          \E slots \in Matches(n), own \in Injection(1 .. n, Unmatched) :
            /\ ext_const_table' = update_external_constraints(
                                    ext_const_table \o NewConstraints(slots, own))
            /\ ext_scan_table' = Freed(slots)
    BY <1>14 DEF Optimize
  <2>2. PICK slots \in Matches(n), own \in Injection(1 .. n, Unmatched) :
          /\ ext_const_table' = update_external_constraints(
                                  ext_const_table \o NewConstraints(slots, own))
          /\ ext_scan_table' = Freed(slots)
    BY <2>1
  <2>3. n \in Nat
    OBVIOUS
  <2>4. NewConstraints(slots, own) \in Seq(ExtConstraint)
    BY <2>3, Added
  <2>5. ext_const_table \o NewConstraints(slots, own) \in Seq(ExtConstraint)
    BY <2>4 DEF TypeOK
  <2>6. ext_const_table' \in Seq(ExtConstraint)
    BY <2>2, <2>5, OnlyVersions DEF TypeOK
  <2>7. ext_scan_table' \in [Slot -> ExtScan]
    <3>1. \A i \in Slot : ext_scan_table[i] \in ExtScan
      BY DEF TypeOK
    <3>2. \A i \in Slot : [ext_scan_table[i] EXCEPT
             !.taken = @ /\ \A k \in DOMAIN slots : slots[k] # i] \in ExtScan
      BY <3>1 DEF ExtScan
    <3>3. QED BY <2>2, <3>2 DEF Freed
  <2>8. turn' \in Drone /\ ext_pose_upd_table' \in Seq(PoseUpdate) /\ phase' = "scan"
    BY <1>14 DEF Optimize, Drone
  <2>9. QED BY <1>14, <2>6, <2>7, <2>8 DEF Optimize, TypeOK, stmVars
<1>15. CASE UNCHANGED vars
  BY <1>15 DEF vars, ringVars, stmVars, gapVars, tableVars, TypeOK
<1>16. QED
  BY <1>3, <1>4, <1>5, <1>6, <1>7, <1>8, <1>9, <1>10, <1>11, <1>12, <1>13, <1>14,
     <1>15 DEF Next

----------------------------------------------------------------------------
(* The turns of the ring, and the buffer of the STM32. *)

(* The phases follow each other as the turns do, and an optimisation       *)
(* starts with an empty buffer.                                            *)
LEMMA PhaseStep ==
  ASSUME TypeOK, PhaseOfTurn, [Next]_vars PROVE PhaseOfTurn'
<1>1. CASE StartTurn
  <2>1. turn \in Drone /\ turn # ME /\ turn' = turn
    BY <1>1 DEF StartTurn, TypeOK
  <2>2. CASE scans' = [scans EXCEPT ![turn] = @ + 1] /\ phase' = "send"
    <3>1. scans[turn] \in Nat /\ scans'[turn] = scans[turn] + 1
      BY <2>1, <2>2, Sizes DEF TypeOK
    <3>2. QED BY <2>1, <2>2, <3>1 DEF PhaseOfTurn
  <2>3. CASE phase' = "update"
    BY <2>1, <2>3 DEF PhaseOfTurn
  <2>4. QED BY <1>1, <2>2, <2>3 DEF StartTurn
<1>2. CASE PacketArrives
  BY <1>2 DEF PacketArrives, Sending, PhaseOfTurn
<1>3. CASE PacketLost
  BY <1>3 DEF PacketLost, Sending, PhaseOfTurn
<1>4. CASE ScanSent
  BY <1>4 DEF ScanSent, PhaseOfTurn
<1>5. CASE SendUpdates \/ NoUpdates
  BY <1>5 DEF SendUpdates, NoUpdates, PhaseOfTurn
<1>6. CASE Skipped
  BY <1>6 DEF Skipped, PhaseOfTurn
<1>7. CASE StartOwnTurn
  BY <1>7 DEF StartOwnTurn, PhaseOfTurn
<1>8. CASE ForwardPose
  BY <1>8 DEF ForwardPose, PhaseOfTurn, ringVars
<1>9. CASE ForwardUpdate
  BY <1>9 DEF ForwardUpdate, PhaseOfTurn, ringVars
<1>10. CASE Forwarded
  BY <1>10 DEF Forwarded, PhaseOfTurn, stmVars
<1>11. CASE Optimize
  BY <1>11 DEF Optimize, PhaseOfTurn
<1>12. CASE UNCHANGED vars
  BY <1>12 DEF vars, ringVars, stmVars, PhaseOfTurn
<1>13. QED
  BY <1>1, <1>2, <1>3, <1>4, <1>5, <1>6, <1>7, <1>8, <1>9, <1>10, <1>11, <1>12
  DEF Next

(* One more turn brings one more scan.                                     *)
LEMMA ScansOfTurns ==
  ASSUME NEW a \in Nat
  PROVE  /\ SCAN_LEN * a \in Nat
         /\ SCAN_LEN * (a + 1) = SCAN_LEN * a + SCAN_LEN
BY Sizes

(* A skipped turn keeps what ME * 1 turns brought waiting.                 *)
LEMMA TurnsSkipped ==
  ASSUME NEW s \in Nat PROVE ME * s \in Nat /\ ME * (s + 1) = ME * s + ME
BY Sizes

(* A packet is sent ATTEMPTS times at most.                                *)
LEMMA CopiesOfFaults ==
  ASSUME NEW f \in Nat
  PROVE  /\ (ATTEMPTS - 1) * f \in Nat
         /\ (ATTEMPTS - 1) * (f + 1) = (ATTEMPTS - 1) * f + (ATTEMPTS - 1)
<1>1. \A a \in Nat : a * f \in Nat /\ a * (f + 1) = a * f + a
  OBVIOUS
<1>2. ATTEMPTS - 1 \in Nat
  BY Sizes
<1>3. QED BY <1>1, <1>2

(* What waits for ME is what the turns since its last one brought: a turn  *)
(* brings one scan, and only a packet that comes more than once brings     *)
(* more.                                                                   *)
LEMMA WaitingStep ==
  ASSUME TypeOK, TypeOK', PhaseOfTurn, WaitingBounded, [Next]_vars
  PROVE  WaitingBounded'
<1> DEFINE B == gap9_ext_aug_pose_buf
           Q == SCAN_LEN * TurnsTaken
           R == (ATTEMPTS - 1) * faults.faulty
<1>1. /\ faults.skipped \in Nat /\ faults.faulty \in Nat /\ turn \in Nat
      /\ left \in 0 .. SCAN_LEN /\ SCAN_LEN \in Nat /\ B \in Seq(ExtPose)
      /\ Len(B) \in Nat
  BY Sizes DEF TypeOK, Drone
<1>2. faults \in FaultCounts
  BY FaultsCounted
<1>3. TurnsTaken \in Nat
  <2>1. ME * faults.skipped \in Nat
    BY <1>1, TurnsSkipped
  <2>2. QED BY <1>1, <2>1 DEF TurnsTaken
<1>4. Q \in Nat /\ R \in Nat /\ Len(B) <= Q + SentInTurn + R
  BY <1>1, <1>3, ScansOfTurns, CopiesOfFaults DEF WaitingBounded
<1> SUFFICES Len(B') <= Q' + SentInTurn' + R'
  BY DEF WaitingBounded
<1>0. faults'.faulty = faults.faulty => R' = R
  BY DEF R
<1> HIDE DEF Q, R
<1>5. CASE StartTurn
  <2>1. B' = B /\ faults' = faults /\ Q' = Q
    BY <1>5 DEF StartTurn, stmVars, TurnsTaken, Q
  <2>2. SentInTurn = 0
    BY <1>5 DEF StartTurn, SentInTurn
  <2>3. SentInTurn' \in Nat
    BY <1>1, <1>5 DEF StartTurn, SentInTurn
  <2>4. QED BY <1>0, <1>1, <1>3, <1>4, <2>1, <2>2, <2>3
<1>6. CASE PacketArrives
  <2>1. faults'.skipped = faults.skipped /\ Q' = Q
    BY <1>2, <1>6 DEF PacketArrives, Fault, FaultCounts, TurnsTaken, Q
  <2>2. SentInTurn = SCAN_LEN - left /\ SentInTurn' = SCAN_LEN - (left - 1)
    BY <1>6 DEF PacketArrives, Sending, SentInTurn
  <2>3. Packet \in ExtPose
    BY <1>6, PacketType DEF PacketArrives, Sending, PhaseOfTurn
  <2>4. CASE B' = Copies(1) /\ UNCHANGED faults
    <3>1. Len(B') = Len(B) + 1 /\ R' = R
      BY <1>0, <2>3, <2>4, CopiesWait
    <3>2. QED BY <1>0, <1>1, <1>3, <1>4, <2>1, <2>2, <3>1
  <2>5. CASE Fault /\ \E n \in 2 .. ATTEMPTS : B' = Copies(n)
    <3>1. PICK n \in 2 .. ATTEMPTS : B' = Copies(n)
      BY <2>5
    <3>2. Len(B') = Len(B) + n
      BY <2>3, <3>1, CopiesWait
    <3>3. R' = R + (ATTEMPTS - 1)
      <4>1. faults'.faulty = faults.faulty + 1
        BY <1>2, <2>5 DEF Fault, FaultCounts
      <4>2. QED BY <1>1, <4>1, CopiesOfFaults DEF R
    <3>4. QED BY <1>0, <1>1, <1>3, <1>4, <2>1, <2>2, <3>2, <3>3, Sizes
  <2>6. QED BY <1>6, <2>4, <2>5 DEF PacketArrives
<1>7. CASE PacketLost
  <2>1. /\ faults'.skipped = faults.skipped /\ faults'.faulty = faults.faulty + 1
        /\ Q' = Q /\ B' = B
    BY <1>2, <1>7 DEF PacketLost, Fault, FaultCounts, TurnsTaken, Q, stmVars
  <2>2. SentInTurn = SCAN_LEN - left /\ SentInTurn' = SCAN_LEN - (left - 1)
    BY <1>7 DEF PacketLost, Sending, SentInTurn
  <2>3. R' \in Nat /\ R <= R'
    BY <1>1, <1>4, <2>1, CopiesOfFaults, Sizes DEF R
  <2>4. QED BY <1>0, <1>1, <1>3, <1>4, <2>1, <2>2, <2>3
<1>8. CASE ScanSent
  <2>1. B' = B /\ faults' = faults /\ Q' = Q
    BY <1>8 DEF ScanSent, stmVars, TurnsTaken, Q
  <2>2. SentInTurn = SCAN_LEN /\ SentInTurn' = SCAN_LEN
    BY <1>1, <1>8 DEF ScanSent, SentInTurn
  <2>3. QED BY <1>0, <1>1, <1>3, <1>4, <2>1, <2>2
<1>9. CASE SendUpdates \/ NoUpdates
  <2>1. B' = B /\ turn' = turn + 1
    BY <1>9 DEF SendUpdates, NoUpdates, stmVars
  <2>2. faults'.skipped = faults.skipped /\ faults'.faulty = faults.faulty
    BY <1>2, <1>9 DEF SendUpdates, NoUpdates, FaultCounts
  <2>3. TurnsTaken' = TurnsTaken + 1
    <3>1. ME * faults.skipped \in Nat
      BY <1>1, TurnsSkipped
    <3>2. QED BY <1>1, <2>1, <2>2, <3>1 DEF TurnsTaken
  <2>4. Q' = Q + SCAN_LEN
    BY <1>3, <2>3, ScansOfTurns DEF Q
  <2>5. SentInTurn = SCAN_LEN /\ SentInTurn' = 0
    BY <1>9 DEF SendUpdates, NoUpdates, SentInTurn
  <2>6. QED BY <1>0, <1>1, <1>3, <1>4, <2>1, <2>2, <2>4, <2>5
<1>10. CASE Skipped
  <2>1. /\ B' = B /\ turn = ME /\ turn' = 0
        /\ faults'.skipped = faults.skipped + 1 /\ faults'.faulty = faults.faulty
    BY <1>2, <1>10 DEF Skipped, FaultCounts, stmVars
  <2>2. Q' = Q
    <3>1. ME * (faults.skipped + 1) = ME * faults.skipped + ME
      BY <1>1, TurnsSkipped
    <3>2. ME * faults.skipped \in Nat
      BY <1>1, TurnsSkipped
    <3>3. TurnsTaken' = TurnsTaken
      BY <2>1, <3>1, <3>2, Sizes DEF TurnsTaken
    <3>4. QED BY <3>3 DEF Q
  <2>3. SentInTurn = 0 /\ SentInTurn' = 0
    BY <1>10 DEF Skipped, SentInTurn
  <2>4. QED BY <1>0, <1>1, <1>3, <1>4, <2>1, <2>2, <2>3
<1>11. CASE StartOwnTurn \/ ForwardUpdate
  <2>1. B' = B /\ faults' = faults /\ Q' = Q
    BY <1>11 DEF StartOwnTurn, ForwardUpdate, stmVars, ringVars, TurnsTaken, Q
  <2>2. SentInTurn = 0 /\ SentInTurn' = 0
    BY <1>11 DEF StartOwnTurn, ForwardUpdate, ringVars, SentInTurn
  <2>3. QED BY <1>0, <1>1, <1>3, <1>4, <2>1, <2>2
<1>12. CASE ForwardPose
  <2>1. faults' = faults /\ Q' = Q
    BY <1>12 DEF ForwardPose, ringVars, TurnsTaken, Q
  <2>2. Len(B') \in Nat /\ Len(B') <= Len(B)
    BY <1>1, <1>12 DEF ForwardPose
  <2>3. SentInTurn = 0 /\ SentInTurn' = 0
    BY <1>12 DEF ForwardPose, ringVars, SentInTurn
  <2>4. QED BY <1>0, <1>1, <1>3, <1>4, <2>1, <2>2, <2>3
<1>13. CASE Forwarded \/ Optimize
  <2>1. B' = <<>> /\ faults' = faults /\ turn' \in Nat
    BY <1>1, <1>13 DEF Forwarded, Optimize, PhaseOfTurn, stmVars
  <2>2. Q' \in Nat
    <3>1. ME * faults.skipped \in Nat
      BY <1>1, TurnsSkipped
    <3>2. TurnsTaken' \in Nat
      BY <2>1, <3>1 DEF TurnsTaken
    <3>3. QED BY <3>2, ScansOfTurns DEF Q
  <2>3. SentInTurn' = 0
    BY <1>13 DEF Forwarded, Optimize, SentInTurn
  <2>4. R' \in Nat /\ Len(B') = 0
    BY <1>0, <1>4, <2>1
  <2>5. \A x, y \in Nat : 0 <= x + 0 + y
    OBVIOUS
  <2>6. QED BY <2>2, <2>3, <2>4, <2>5
<1>14. CASE UNCHANGED vars
  BY <1>4, <1>14 DEF vars, ringVars, stmVars, WaitingBounded, SentInTurn, TurnsTaken, Q, R
<1>15. QED
  BY <1>5, <1>6, <1>7, <1>8, <1>9, <1>10, <1>11, <1>12, <1>13, <1>14 DEF Next

(* With room for the poses of all turns, that of ME included, the buffer   *)
(* does not overflow.                                                      *)
LEMMA BufferSuffices ==
  ASSUME TypeOK, PhaseOfTurn, WaitingBounded, RoomForPoses PROVE BufferFits
<1>1. /\ faults.skipped \in 0 .. MaxSkipped /\ faults.faulty \in 0 .. MaxFaulty
      /\ turn \in 0 .. ME /\ left \in 0 .. SCAN_LEN
  BY DEF TypeOK, Drone
<1>2. TurnsTaken \in Nat /\ SCAN_LEN * TurnsTaken \in Nat
  <2>1. ME * faults.skipped \in Nat
    BY <1>1, Sizes, TurnsSkipped
  <2>2. TurnsTaken \in Nat
    BY <1>1, <2>1, Sizes DEF TurnsTaken
  <2>3. QED BY <2>2, ScansOfTurns
<1>3. Len(gap9_ext_aug_pose_buf) \in Nat
  BY DEF TypeOK
<1>4. ME * faults.skipped + ME <= ME * (1 + MaxSkipped)
  <2>1. ME * (1 + MaxSkipped) = ME * MaxSkipped + ME
    BY Sizes
  <2>2. ME * faults.skipped <= ME * MaxSkipped
    BY <1>1, Sizes
  <2>3. QED BY <1>1, <2>1, <2>2, Sizes, TurnsSkipped
<1>5. SCAN_LEN * TurnsTaken + SentInTurn <= SCAN_LEN * (ME * (1 + MaxSkipped))
  <2>1. ASSUME NEW a \in Nat, NEW b \in Nat, a <= b PROVE SCAN_LEN * a <= SCAN_LEN * b
    BY <2>1, Sizes
  <2>2. ME * (1 + MaxSkipped) \in Nat
    BY Sizes
  <2>3. CASE turn = ME
    <3>1. SentInTurn = 0
      BY <2>3 DEF SentInTurn, PhaseOfTurn
    <3>2. TurnsTaken <= ME * (1 + MaxSkipped)
      BY <1>4, <2>3 DEF TurnsTaken
    <3>3. SCAN_LEN * TurnsTaken <= SCAN_LEN * (ME * (1 + MaxSkipped))
      BY <1>2, <2>1, <2>2, <3>2
    <3>4. QED BY <1>2, <3>1, <3>3
  <2>4. CASE turn # ME
    <3>1. SentInTurn \in 0 .. SCAN_LEN
      BY <1>1, Sizes DEF SentInTurn
    <3>2. TurnsTaken + 1 <= ME * (1 + MaxSkipped)
      <4>1. ME * faults.skipped \in Nat /\ ME * (1 + MaxSkipped) \in Nat
        BY <1>1, <2>2, Sizes, TurnsSkipped
      <4>2. turn + 1 <= ME
        BY <1>1, <2>4, Sizes
      <4>3. QED BY <1>1, <1>4, <4>1, <4>2, Sizes DEF TurnsTaken
    <3>3. SCAN_LEN * (TurnsTaken + 1) <= SCAN_LEN * (ME * (1 + MaxSkipped))
      BY <1>2, <2>1, <2>2, <3>2
    <3>4. SCAN_LEN * (ME * (1 + MaxSkipped)) \in Int
      BY <2>2, Sizes
    <3>5. QED BY <1>2, <3>1, <3>3, <3>4, Sizes, ScansOfTurns
  <2>5. QED BY <2>3, <2>4
<1>6. Len(gap9_ext_aug_pose_buf) <=
        SCAN_LEN * TurnsTaken + SentInTurn + (ATTEMPTS - 1) * faults.faulty
  BY DEF WaitingBounded
<1>9. /\ (ATTEMPTS - 1) * faults.faulty \in Nat /\ (ATTEMPTS - 1) * MaxFaulty \in Nat
      /\ (ATTEMPTS - 1) * faults.faulty <= (ATTEMPTS - 1) * MaxFaulty
  <2>1. \A a, f, g \in Nat : f <= g => a * f <= a * g
    OBVIOUS
  <2>2. ATTEMPTS - 1 \in Nat /\ faults.faulty \in Nat /\ faults.faulty <= MaxFaulty
    BY <1>1, Sizes
  <2>3. QED BY <2>1, <2>2, Sizes, CopiesOfFaults
<1>7. SentInTurn \in Nat /\ SCAN_LEN * (ME * (1 + MaxSkipped)) \in Int
  BY <1>1, Sizes DEF SentInTurn
<1>8. QED BY <1>1, <1>2, <1>3, <1>5, <1>6, <1>7, <1>9, Sizes DEF BufferFits, RoomForPoses

----------------------------------------------------------------------------
(* The constraints, and the updates that wait for them. *)

(* No drone forgets a scan.                                                *)
LEMMA ScansGrow ==
  ASSUME TypeOK, [Next]_vars, NEW d \in Drone PROVE scans[d] <= scans'[d]
<1>1. scans \in [Drone -> Nat]
  BY Sizes DEF TypeOK
<1>2. CASE scans' = scans
  BY <1>1, <1>2
<1>3. CASE StartTurn \/ StartOwnTurn
  <2>1. scans' = scans \/ \E e \in Drone : scans' = [scans EXCEPT ![e] = @ + 1]
    BY <1>3, Sizes DEF StartTurn, StartOwnTurn, TypeOK, Drone
  <2>2. QED BY <1>1, <2>1
<1>4. QED
  BY <1>2, <1>3
  DEF Next, PacketArrives, PacketLost, ScanSent, SendUpdates, NoUpdates, Skipped,
      ForwardPose, ForwardUpdate, Forwarded, Optimize, vars, ringVars

(* An optimisation adds the constraints of its matches and keeps the ones  *)
(* there were, but for their versions.                                     *)
LEMMA OptimizeResult ==
  ASSUME TypeOK, Optimize
  PROVE  \E n \in Nat : \E slots \in Matches(n), own \in Injection(1 .. n, Unmatched) :
           /\ Len(ext_const_table') = Len(ext_const_table) + n
           /\ \A k \in 1 .. Len(ext_const_table) :
                /\ ext_const_table'[k].from_drone = ext_const_table[k].from_drone
                /\ ext_const_table'[k].ref = ext_const_table[k].ref
                /\ ext_const_table'[k].cur = ext_const_table[k].cur
           /\ \A k \in 1 .. n :
                LET c == ext_const_table'[Len(ext_const_table) + k] IN
                  /\ c.from_drone = ext_scan_table[slots[k]].from_drone
                  /\ c.ref = ext_scan_table[slots[k]].pose_id
                  /\ c.cur = own[k]
           /\ ext_scan_table' = Freed(slots)
<1> DEFINE C == ext_const_table
<1>1. PICK n \in 0 .. MAX_SCANS :
        \E slots \in Matches(n), own \in Injection(1 .. n, Unmatched) :
          /\ C' = update_external_constraints(C \o NewConstraints(slots, own))
          /\ ext_scan_table' = Freed(slots)
  BY DEF Optimize
<1>2. PICK slots \in Matches(n), own \in Injection(1 .. n, Unmatched) :
        /\ C' = update_external_constraints(C \o NewConstraints(slots, own))
        /\ ext_scan_table' = Freed(slots)
  BY <1>1
<1>3. n \in Nat
  OBVIOUS
<1> DEFINE D == NewConstraints(slots, own)
<1>4. /\ D \in Seq(ExtConstraint) /\ Len(D) = n
      /\ \A k \in 1 .. n : /\ D[k].from_drone = ext_scan_table[slots[k]].from_drone
                           /\ D[k].ref = ext_scan_table[slots[k]].pose_id
                           /\ D[k].cur = own[k]
  BY <1>3, Added
<1> HIDE DEF D
<1>5. /\ C \in Seq(ExtConstraint) /\ C \o D \in Seq(ExtConstraint)
      /\ Len(C \o D) = Len(C) + n
      /\ \A k \in 1 .. Len(C) : (C \o D)[k] = C[k]
      /\ \A k \in 1 .. n : (C \o D)[Len(C) + k] = D[k]
  <2>1. C \in Seq(ExtConstraint)
    BY DEF TypeOK
  <2> HIDE DEF C
  <2>2. C \o D \in Seq(ExtConstraint) /\ Len(C \o D) = Len(C) + Len(D)
    BY <1>4, <2>1, ConcatProperties
  <2>3. \A k \in 1 .. Len(C) : (C \o D)[k] = C[k]
    BY <1>4, <2>1
  <2>4. \A k \in 1 .. Len(D) : (C \o D)[Len(C) + k] = D[k]
    BY <1>4, <2>1
  <2>5. QED BY <1>4, <2>1, <2>2, <2>3, <2>4
<1>6. C' = update_external_constraints(C \o D)
  BY <1>2 DEF D
<1>7. /\ Len(C') = Len(C \o D)
      /\ \A k \in 1 .. Len(C \o D) : /\ C'[k].from_drone = (C \o D)[k].from_drone
                                     /\ C'[k].ref = (C \o D)[k].ref
                                     /\ C'[k].cur = (C \o D)[k].cur
  BY <1>5, <1>6, OnlyVersions DEF TypeOK
<1>8. /\ \A k \in 1 .. Len(C) : k \in 1 .. Len(C \o D)
      /\ \A k \in 1 .. n : Len(C) + k \in 1 .. Len(C \o D)
  BY <1>3, <1>5
<1>9. \A k \in 1 .. Len(C) : /\ C'[k].from_drone = C[k].from_drone
                             /\ C'[k].ref = C[k].ref /\ C'[k].cur = C[k].cur
  BY <1>5, <1>7, <1>8
<1>10. \A k \in 1 .. n :
         /\ C'[Len(C) + k].from_drone = ext_scan_table[slots[k]].from_drone
         /\ C'[Len(C) + k].ref = ext_scan_table[slots[k]].pose_id
         /\ C'[Len(C) + k].cur = own[k]
  <2> HIDE DEF C
  <2> SUFFICES ASSUME NEW k \in 1 .. n
               PROVE  /\ C'[Len(C) + k].from_drone = ext_scan_table[slots[k]].from_drone
                      /\ C'[Len(C) + k].ref = ext_scan_table[slots[k]].pose_id
                      /\ C'[Len(C) + k].cur = own[k]
    OBVIOUS
  <2>1. (C \o D)[Len(C) + k] = D[k] /\ Len(C) + k \in 1 .. Len(C \o D)
    BY <1>5, <1>8
  <2>2. QED BY <1>4, <1>7, <2>1
<1> HIDE DEF C
<1>11. QED BY <1>2, <1>3, <1>5, <1>7, <1>9, <1>10 DEF C

(* The scans of ME that an optimisation matches have no constraint yet,    *)
(* and no two matches share one.                                           *)
LEMMA OwnScansStep ==
  ASSUME TypeOK, TypeOK', OwnScansDiffer, [Next]_vars PROVE OwnScansDiffer'
<1> DEFINE C == ext_const_table
<1>1. /\ scans[ME] \in Nat /\ scans'[ME] >= scans[ME] /\ C \in Seq(ExtConstraint)
      /\ DOMAIN C = 1 .. Len(C) /\ Len(C) \in Nat
      /\ \A k \in DOMAIN C : C[k].cur \in Nat
  <2>1. ME \in Drone
    BY Sizes DEF Drone
  <2>2. scans[ME] \in Nat /\ scans'[ME] >= scans[ME]
    <3>1. scans[ME] \in Nat
      BY <2>1, Sizes DEF TypeOK
    <3>2. QED BY <2>1, <3>1, ScansGrow DEF TypeOK
  <2>3. C \in Seq(ExtConstraint)
    BY DEF TypeOK
  <2>4. \A k \in DOMAIN C : C[k].cur \in Nat
    <3>1. \A k \in DOMAIN C : C[k] \in ExtConstraint
      BY <2>3
    <3>2. QED BY <3>1, Sizes DEF ExtConstraint, Scan
  <2>5. DOMAIN C = 1 .. Len(C) /\ Len(C) \in Nat
    BY <2>3
  <2>6. QED BY <2>2, <2>3, <2>4, <2>5
<1>2. CASE C' = C
  <2>1. \A k \in DOMAIN C : C[k].cur <= scans[ME]
    BY DEF OwnScansDiffer
  <2>2. scans'[ME] \in Nat
    BY Sizes DEF TypeOK, Drone
  <2>3. \A k \in DOMAIN C : C[k].cur <= scans'[ME]
    BY <1>1, <2>1, <2>2
  <2>4. QED BY <1>2, <2>3 DEF OwnScansDiffer
<1>3. CASE Optimize
  <2>1. PICK n \in Nat :
          \E slots \in Matches(n), own \in Injection(1 .. n, Unmatched) :
            /\ Len(C') = Len(C) + n
            /\ \A k \in 1 .. Len(C) : C'[k].cur = C[k].cur
            /\ \A k \in 1 .. n : C'[Len(C) + k].cur = own[k]
    BY <1>3, OptimizeResult
  <2>2. PICK own \in Injection(1 .. n, Unmatched) :
          /\ Len(C') = Len(C) + n
          /\ \A k \in 1 .. Len(C) : C'[k].cur = C[k].cur
          /\ \A k \in 1 .. n : C'[Len(C) + k].cur = own[k]
    BY <2>1
  <2>3. /\ own \in [1 .. n -> Unmatched]
        /\ \A k, m \in 1 .. n : own[k] = own[m] => k = m
    BY DEF Injection, IsInjective
  <2>4. \A k \in 1 .. n : /\ own[k] \in 1 .. scans[ME]
                          /\ \A m \in 1 .. Len(C) : own[k] # C[m].cur
    <3>1. \A x \in Unmatched : /\ x \in 1 .. scans[ME]
                               /\ \A m \in DOMAIN C : x # C[m].cur
      BY DEF Unmatched
    <3>2. QED BY <1>1, <2>3, <3>1
  <2>5. scans' = scans
    BY <1>3 DEF Optimize
  <2>6. DOMAIN C' = 1 .. Len(C')
    BY DEF TypeOK
  <2>7. \A k \in DOMAIN C' : \/ k \in DOMAIN C
                             \/ k - Len(C) \in 1 .. n /\ k = Len(C) + (k - Len(C))
    BY <1>1, <2>2, <2>6
  <2>8. \A k \in DOMAIN C' : C'[k].cur <= scans'[ME]
    BY <1>1, <2>2, <2>4, <2>5, <2>7 DEF OwnScansDiffer
  <2>9. \A k \in DOMAIN C' : k \in Int /\ k = Len(C) + (k - Len(C))
    BY <1>1, <2>6
  <2>10. ASSUME NEW k \in DOMAIN C', NEW m \in DOMAIN C', k # m
        PROVE  C'[k].cur # C'[m].cur
    <3>1. CASE k \in DOMAIN C /\ m \in DOMAIN C
      <4>1. C[k].cur # C[m].cur
        BY <2>10, <3>1 DEF OwnScansDiffer
      <4>2. C'[k].cur = C[k].cur /\ C'[m].cur = C[m].cur
        BY <1>1, <2>2, <3>1
      <4>3. QED BY <4>1, <4>2
    <3>2. CASE k \in DOMAIN C /\ m - Len(C) \in 1 .. n
      <4>1. C'[k].cur = C[k].cur
        BY <1>1, <2>2, <3>2
      <4>2. C'[m].cur = own[m - Len(C)]
        BY <2>2, <2>9, <2>10, <3>2
      <4>3. QED BY <1>1, <2>4, <3>2, <4>1, <4>2
    <3>3. CASE k - Len(C) \in 1 .. n /\ m \in DOMAIN C
      <4>1. C'[m].cur = C[m].cur
        BY <1>1, <2>2, <3>3
      <4>2. C'[k].cur = own[k - Len(C)]
        BY <2>2, <2>9, <2>10, <3>3
      <4>3. QED BY <1>1, <2>4, <3>3, <4>1, <4>2
    <3>4. CASE k - Len(C) \in 1 .. n /\ m - Len(C) \in 1 .. n
      <4>1. k - Len(C) # m - Len(C)
        BY <1>1, <2>9, <2>10
      <4>2. C'[k].cur = own[k - Len(C)] /\ C'[m].cur = own[m - Len(C)]
        BY <2>2, <2>9, <2>10, <3>4
      <4>3. QED BY <2>3, <3>4, <4>1, <4>2
    <3>5. QED BY <2>7, <3>1, <3>2, <3>3, <3>4
  <2>11. QED BY <2>8, <2>10 DEF OwnScansDiffer
<1>4. QED
  BY <1>2, <1>3
  DEF Next, StartTurn, PacketArrives, PacketLost, ScanSent, SendUpdates, NoUpdates,
      Skipped, StartOwnTurn, ForwardPose, ForwardUpdate, Forwarded, vars, gapVars

(* An update that is passed on is the newest of its scan, and an           *)
(* optimisation uses all of them up.                                       *)
LEMMA LastIsLatestStep ==
  ASSUME TypeOK, LastIsLatest, [Next]_vars PROVE LastIsLatest'
<1> DEFINE U == ext_pose_upd_table
<1>1. CASE UNCHANGED <<ext_pose_upd_table, latest>>
  BY <1>1 DEF LastIsLatest
<1>2. CASE ForwardUpdate
  <2> DEFINE u == Head(gap9_pose_buf)
  <2>1. u \in PoseUpdate
    BY <1>2 DEF ForwardUpdate, TypeOK
  <2>2. U' = Append(U, u) /\ latest' = [latest EXCEPT ![<<u.drone_id, u.scan>>] = u.version]
    BY <1>2 DEF ForwardUpdate
  <2> HIDE DEF u
  <2>3. U \in Seq(PoseUpdate) /\ latest \in [Sender \X Scan -> 0 .. MaxOptimized]
    BY DEF TypeOK
  <2>4. /\ Len(U) \in Nat /\ DOMAIN U = 1 .. Len(U) /\ DOMAIN U' = 1 .. Len(U) + 1
        /\ Len(U') = Len(U) + 1 /\ U'[Len(U) + 1] = u
        /\ \A i \in DOMAIN U : U'[i] = U[i] /\ U[i] \in PoseUpdate
    BY <2>1, <2>2, <2>3
  <2>5. /\ <<u.drone_id, u.scan>> \in Sender \X Scan
        /\ \A i \in DOMAIN U : <<U[i].drone_id, U[i].scan>> \in Sender \X Scan
    BY <2>1, <2>4 DEF PoseUpdate
  <2>6. ASSUME NEW i \in DOMAIN U',
               \A j \in i + 1 .. Len(U') :
                 U'[j].drone_id # U'[i].drone_id \/ U'[j].scan # U'[i].scan
        PROVE  U'[i].version = latest'[<<U'[i].drone_id, U'[i].scan>>]
    <3>1. CASE i = Len(U) + 1
      BY <2>2, <2>3, <2>4, <2>5, <3>1
    <3>2. CASE i \in DOMAIN U
      <4>1. U'[i] = U[i]
        BY <2>4, <3>2
      <4>2. \A j \in i + 1 .. Len(U) : U[j].drone_id # U[i].drone_id \/ U[j].scan # U[i].scan
        <5> SUFFICES ASSUME NEW j \in i + 1 .. Len(U)
                     PROVE  U[j].drone_id # U[i].drone_id \/ U[j].scan # U[i].scan
          OBVIOUS
        <5>1. j \in DOMAIN U /\ j \in i + 1 .. Len(U')
          BY <2>4, <3>2
        <5>2. QED BY <2>4, <2>6, <4>1, <5>1
      <4>3. U[i].version = latest[<<U[i].drone_id, U[i].scan>>]
        BY <3>2, <4>2 DEF LastIsLatest
      <4>4. <<u.drone_id, u.scan>> # <<U[i].drone_id, U[i].scan>>
        <5>1. Len(U) + 1 \in i + 1 .. Len(U')
          BY <2>4, <3>2
        <5>2. QED BY <2>4, <2>6, <4>1, <5>1
      <4>5. latest'[<<U[i].drone_id, U[i].scan>>] = latest[<<U[i].drone_id, U[i].scan>>]
        BY <2>2, <2>3, <2>5, <3>2, <4>4
      <4>6. QED BY <4>1, <4>3, <4>5
    <3>3. QED BY <2>4, <3>1, <3>2
  <2>7. QED BY <2>6 DEF LastIsLatest
<1>3. CASE Optimize
  BY <1>3 DEF Optimize, LastIsLatest
<1>4. QED
  BY <1>1, <1>2, <1>3
  DEF Next, StartTurn, PacketArrives, PacketLost, ScanSent, SendUpdates, NoUpdates,
      Skipped, StartOwnTurn, ForwardPose, Forwarded, vars, gapVars

(* The last update that concerns a constraint is the one it is given.      *)
LEMMA LastUpdateGiven ==
  ASSUME TypeOK, LastIsLatest, NamesDiffer, Optimize,
         NEW k \in DOMAIN ext_const_table, NEW i \in DOMAIN ext_pose_upd_table,
         Concerns(ext_pose_upd_table[i], ext_const_table[k])
  PROVE  ext_const_table'[k].version =
           latest[<<ext_const_table[k].from_drone, ext_const_table[k].ref>>]
<1> DEFINE C == ext_const_table
           U == ext_pose_upd_table
<1>1. /\ C \in Seq(ExtConstraint) /\ DOMAIN C = 1 .. Len(C) /\ Len(C) \in Nat
      /\ U \in Seq(PoseUpdate) /\ DOMAIN U = 1 .. Len(U) /\ Len(U) \in Nat
  <2>1. C \in Seq(ExtConstraint) /\ U \in Seq(PoseUpdate)
    BY DEF TypeOK
  <2>2. QED BY <2>1
<1>2. PICK n \in 0 .. MAX_SCANS :
        \E slots \in Matches(n), own \in Injection(1 .. n, Unmatched) :
          C' = update_external_constraints(C \o NewConstraints(slots, own))
  BY DEF Optimize
<1>3. PICK slots \in Matches(n), own \in Injection(1 .. n, Unmatched) :
        C' = update_external_constraints(C \o NewConstraints(slots, own))
  BY <1>2
<1> DEFINE D == NewConstraints(slots, own)
           cs == C \o D
<1>4. D \in Seq(ExtConstraint)
  BY Added
<1> HIDE DEF D
<1>5. /\ cs \in Seq(ExtConstraint) /\ k \in DOMAIN cs
      /\ \A m \in DOMAIN C : cs[m] = C[m]
  BY <1>1, <1>4, ConcatProperties
<1>6. C' = update_external_constraints(cs)
  BY <1>3 DEF D
<1> HIDE DEF cs, C, U
<1> DEFINE mine == {j \in DOMAIN U : /\ Concerns(U[j], cs[k])
                                     /\ \A m \in 1 .. k - 1 : ~Concerns(U[j], cs[m])}
<1>7. C'[k] = IF mine = {} THEN cs[k] ELSE [cs[k] EXCEPT !.version = U[Max(mine)].version]
  BY <1>5, <1>6 DEF update_external_constraints, U
<1>8. \A j \in DOMAIN U : Concerns(U[j], C[k]) => j \in mine
  <2> SUFFICES ASSUME NEW j \in DOMAIN U, Concerns(U[j], C[k]),
                      NEW m \in 1 .. k - 1, Concerns(U[j], cs[m])
               PROVE  FALSE
    BY <1>5 DEF C
  <2>1. m \in DOMAIN C /\ k \in DOMAIN C /\ m # k
    BY <1>1 DEF C
  <2>2. Concerns(U[j], C[m])
    BY <1>5, <2>1
  <2>3. RefName(m) = RefName(k)
    BY <2>2 DEF RefName, Concerns, C
  <2>4. QED BY <2>1, <2>3 DEF NamesDiffer, C
<1>9. i \in mine
  BY <1>8 DEF U, C
<1>10. mine \in SUBSET Nat /\ \A j \in mine : j <= Len(U)
  BY <1>1
<1>11. Max(mine) \in mine /\ \A j \in mine : j <= Max(mine)
  BY <1>1, <1>9, <1>10, HasMax
<1> DEFINE last == Max(mine)
<1>12. last \in DOMAIN U /\ Concerns(U[last], C[k])
  BY <1>5, <1>11 DEF C
<1>13. \A j \in last + 1 .. Len(U) :
         U[j].drone_id # U[last].drone_id \/ U[j].scan # U[last].scan
  <2> SUFFICES ASSUME NEW j \in last + 1 .. Len(U),
                      U[j].drone_id = U[last].drone_id, U[j].scan = U[last].scan
               PROVE  FALSE
    OBVIOUS
  <2>1. j \in DOMAIN U /\ last \in Nat
    BY <1>1, <1>12
  <2>2. Concerns(U[j], C[k])
    BY <1>12 DEF Concerns
  <2>3. j <= last
    BY <1>8, <1>11, <2>1, <2>2
  <2>4. QED BY <2>1, <2>3
<1> HIDE DEF last, mine
<1>14. U[last].version = latest[<<U[last].drone_id, U[last].scan>>]
  BY <1>12, <1>13 DEF LastIsLatest, U
<1>15. C'[k].version = U[last].version
  <2>1. cs[k] \in ExtConstraint
    BY <1>5
  <2>2. C'[k] = [cs[k] EXCEPT !.version = U[last].version]
    BY <1>7, <1>9 DEF last
  <2>3. QED BY <2>1, <2>2 DEF ExtConstraint
<1>16. U[last].drone_id = C[k].from_drone /\ U[last].scan = C[k].ref
  BY <1>12 DEF Concerns
<1>17. QED BY <1>14, <1>15, <1>16 DEF C

----------------------------------------------------------------------------
(* The scans, while no packet is lost or repeated. *)

(* The poses that wait are poses of lower drones.                          *)
LEMMA PoseTypes ==
  ASSUME TypeOK
  PROVE  LET B == gap9_ext_aug_pose_buf IN
           /\ B \in Seq(ExtPose) /\ Len(B) \in Nat /\ DOMAIN B = 1 .. Len(B)
           /\ B = <<>> <=> Len(B) = 0
           /\ \A k \in DOMAIN B :
                /\ B[k] \in ExtPose /\ B[k].drone_id \in Sender /\ B[k].drone_id \in Drone
                /\ B[k].scan \in Scan /\ B[k].scan \in Nat
                /\ B[k].place \in 0 .. SCAN_LEN - 1
<1> DEFINE B == gap9_ext_aug_pose_buf
<1>1. B \in Seq(ExtPose)
  BY DEF TypeOK
<1>2. /\ Len(B) \in Nat /\ DOMAIN B = 1 .. Len(B) /\ (B = <<>> <=> Len(B) = 0)
      /\ \A k \in DOMAIN B : B[k] \in ExtPose
  BY <1>1
<1>3. \A p \in ExtPose : /\ p.drone_id \in Sender /\ p.drone_id \in Drone
                         /\ p.scan \in Scan /\ p.scan \in Nat
                         /\ p.place \in 0 .. SCAN_LEN - 1
  BY Sizes DEF ExtPose, Sender, Drone, Scan
<1>4. QED BY <1>1, <1>2, <1>3

(* A scan the GAP9 knows is a scan of a lower drone.                       *)
LEMMA NameTypes ==
  ASSUME TypeOK, NEW name \in Names
  PROVE  /\ name \in Sender \X ({0} \cup Scan)
         /\ name[1] \in Drone /\ name[2] \in Nat
<1>1. \A i \in TakenSlots : EntryName(i) \in Sender \X ({0} \cup Scan)
  <2>1. \A i \in TakenSlots : ext_scan_table[i] \in ExtScan
    BY DEF TypeOK, TakenSlots
  <2>2. QED BY <2>1 DEF EntryName, ExtScan
<1>2. \A k \in DOMAIN ext_const_table : RefName(k) \in Sender \X ({0} \cup Scan)
  <2>1. ext_const_table \in Seq(ExtConstraint)
    BY DEF TypeOK
  <2>2. \A k \in DOMAIN ext_const_table : ext_const_table[k] \in ExtConstraint
    BY <2>1
  <2>3. QED BY <2>2 DEF RefName, ExtConstraint
<1>3. name \in Sender \X ({0} \cup Scan)
  BY <1>1, <1>2 DEF Names
<1>4. QED BY <1>3, Sizes DEF Sender, Drone, Scan

(* Outside the turn of this drone no entry is half filled.                 *)
LEMMA NothingOpen ==
  ASSUME TypeOK, ScansWhole, phase # "flush" PROVE ext_aug_pose_idx = 0
<1>1. ext_aug_pose_idx \in 0 .. SCAN_LEN - 1
  BY DEF TypeOK
<1>2. ~(ext_aug_pose_idx > 0)
  BY DEF ScansWhole, EntryOpen
<1>3. QED BY <1>1, <1>2, Sizes

(* A step that touches neither the stream nor the tables.                  *)
LEMMA QuietStep ==
  ASSUME TypeOK, TypeOK', ScansWhole, phase # "send", phase' # "send",
         UNCHANGED <<gap9_ext_aug_pose_buf, tableVars, ext_const_table>>,
         ext_aug_pose_idx > 0 => phase' = "flush",
         \A d \in Drone : scans[d] <= scans'[d]
  PROVE  ScansWhole'
<1>1. BatchIsScan' /\ NamesDiffer'
  BY DEF ScansWhole, BatchIsScan, NamesDiffer, TakenSlots, EntryName, RefName, tableVars
<1>2. StreamWhole'
  BY DEF ScansWhole, StreamWhole, tableVars
<1>3. EntryOpen'
  BY DEF ScansWhole, EntryOpen, tableVars
<1>4. Names' = Names
  BY DEF Names, TakenSlots, EntryName, RefName, tableVars
<1>5. \A d \in Drone : scans[d] \in Nat /\ scans'[d] \in Nat
  BY Sizes DEF TypeOK
<1>6. \A name \in Names : name[2] <= scans'[name[1]]
  BY <1>5, NameTypes DEF ScansWhole, YetToCome
<1>7. \A k \in DOMAIN gap9_ext_aug_pose_buf :
        gap9_ext_aug_pose_buf[k].scan <= scans'[gap9_ext_aug_pose_buf[k].drone_id]
  BY <1>5, PoseTypes DEF ScansWhole, YetToCome
<1>8. YetToCome'
  BY <1>4, <1>6, <1>7 DEF ScansWhole, YetToCome, ScanName
<1>9. QED BY <1>1, <1>2, <1>3, <1>8 DEF ScansWhole

(* The first packet of a new scan is about to be sent.                     *)
LEMMA NewScanStep ==
  ASSUME TypeOK, TypeOK', ScansWhole, StartTurn, phase' = "send"
  PROVE  ScansWhole'
<1> DEFINE B == gap9_ext_aug_pose_buf
<1>1. /\ turn \in Drone /\ turn' = turn /\ phase = "scan" /\ left' = SCAN_LEN
      /\ scans' = [scans EXCEPT ![turn] = @ + 1] /\ B' = B
      /\ UNCHANGED <<tableVars, ext_const_table>>
  BY DEF StartTurn, TypeOK, stmVars, gapVars
<1>2. ext_aug_pose_idx = 0
  BY <1>1, NothingOpen
<1>3. BatchIsScan' /\ NamesDiffer'
  BY <1>1
  DEF ScansWhole, BatchIsScan, NamesDiffer, TakenSlots, EntryName, RefName, tableVars
<1>4. StreamWhole'
  <2>1. phase # "send" /\ ~(left' < SCAN_LEN)
    BY <1>1, Sizes
  <2>2. QED BY <1>1, <2>1 DEF ScansWhole, StreamWhole, tableVars
<1>5. EntryOpen'
  BY <1>1, <1>2 DEF EntryOpen, tableVars
<1>6. Names' = Names
  BY <1>1 DEF Names, TakenSlots, EntryName, RefName, tableVars
<1>7. /\ scans \in [Drone -> Nat] /\ scans'[turn] = scans[turn] + 1
      /\ \A d \in Drone : scans[d] <= scans'[d] /\ scans'[d] \in Nat
  <2>1. scans \in [Drone -> Nat]
    BY Sizes DEF TypeOK
  <2>2. QED BY <1>1, <2>1
<1>8. \A name \in Names : name[2] <= scans[name[1]] /\ name[2] <= scans'[name[1]]
  BY <1>7, NameTypes DEF ScansWhole, YetToCome
<1>9. \A k \in DOMAIN B : /\ B[k].scan <= scans[B[k].drone_id]
                          /\ B[k].scan <= scans'[B[k].drone_id]
  BY <1>7, PoseTypes DEF ScansWhole, YetToCome
<1>10. ScanName(Packet)' = <<turn, scans[turn] + 1>>
  BY <1>1, <1>7 DEF ScanName, Packet
<1>11. ScanName(Packet)' \notin Names
  BY <1>7, <1>8, <1>10, NameTypes
<1>12. \A k \in DOMAIN B : ScanName(B[k]) # ScanName(Packet)'
  BY <1>7, <1>9, <1>10, PoseTypes DEF ScanName
<1> HIDE DEF B
<1>13. YetToCome'
  BY <1>1, <1>6, <1>8, <1>9, <1>11, <1>12 DEF ScansWhole, YetToCome, ScanName, B
<1>14. QED BY <1>3, <1>4, <1>5, <1>13 DEF ScansWhole

(* A packet of the scan arrives, once.                                     *)
LEMMA PacketStep ==
  ASSUME TypeOK, TypeOK', ScansWhole, PhaseOfTurn, PacketArrives,
         gap9_ext_aug_pose_buf' = Append(gap9_ext_aug_pose_buf, Packet)
  PROVE  ScansWhole'
<1> DEFINE B == gap9_ext_aug_pose_buf
           p == Packet
<1>1. /\ turn \in Drone /\ turn' = turn /\ phase = "send" /\ phase' = "send"
      /\ left \in 1 .. SCAN_LEN /\ left' = left - 1 /\ scans' = scans
      /\ UNCHANGED <<tableVars, ext_const_table>>
  BY DEF PacketArrives, Sending, TypeOK, gapVars
<1>2. ext_aug_pose_idx = 0
  BY <1>1, NothingOpen
<1>3. p \in ExtPose /\ p.place = SCAN_LEN - left /\ p.place \in 0 .. SCAN_LEN - 1
  <2>1. p \in ExtPose
    BY PacketType DEF PacketArrives, PhaseOfTurn, Sending
  <2>2. QED BY <1>1, <2>1, Sizes DEF Packet
<1>4. /\ p.drone_id = turn /\ p.scan = scans[turn]
      /\ Packet' = [p EXCEPT !.place = SCAN_LEN - left'] /\ p = [Packet' EXCEPT !.place = @ - 1]
  BY <1>1, Sizes DEF Packet
<1>5. /\ B \in Seq(ExtPose) /\ B' \in Seq(ExtPose) /\ DOMAIN B = 1 .. Len(B)
      /\ Len(B) \in Nat /\ Len(B') = Len(B) + 1 /\ DOMAIN B' = 1 .. Len(B) + 1
      /\ B'[Len(B) + 1] = p /\ B' # <<>>
      /\ \A k \in DOMAIN B : B'[k] = B[k]
      /\ B = <<>> <=> Len(B) = 0
  BY <1>3, PoseTypes, AppendProperties
<1> HIDE DEF p
<1>6. BatchIsScan' /\ NamesDiffer'
  BY <1>1
  DEF ScansWhole, BatchIsScan, NamesDiffer, TakenSlots, EntryName, RefName, tableVars
<1>7. EntryOpen'
  BY <1>1, <1>2 DEF EntryOpen, tableVars
<1>8. StreamWhole'
  <2>1. \A k \in 1 .. Len(B') - 1 : Follows(B'[k], B'[k + 1])
    <3> SUFFICES ASSUME NEW k \in 1 .. Len(B) PROVE Follows(B'[k], B'[k + 1])
      <4>1. Len(B') - 1 = Len(B)
        BY <1>5
      <4>2. QED BY <4>1
    <3>1. CASE k \in 1 .. Len(B) - 1
      <4>1. Follows(B[k], B[k + 1])
        BY <3>1 DEF ScansWhole, StreamWhole
      <4>2. B'[k] = B[k] /\ B'[k + 1] = B[k + 1]
        BY <1>5, <3>1
      <4>3. QED BY <4>1, <4>2
    <3>2. CASE k = Len(B)
      <4>1. B # <<>> /\ B'[k] = B[Len(B)] /\ B'[k + 1] = p /\ k \in DOMAIN B
        BY <1>5, <3>2
      <4>2. CASE left = SCAN_LEN
        <5>1. B[Len(B)].place = SCAN_LEN - 1
          BY <1>1, <4>1, <4>2, Sizes DEF ScansWhole, StreamWhole
        <5>2. QED BY <1>3, <4>1, <4>2, <5>1, Sizes DEF Follows
      <4>3. CASE left < SCAN_LEN
        <5>1. B[Len(B)] = [p EXCEPT !.place = @ - 1]
          BY <1>1, <4>3 DEF ScansWhole, StreamWhole, p
        <5>2. B[Len(B)].place = p.place - 1 /\ p = [B[Len(B)] EXCEPT !.place = @ + 1]
          <6> DEFINE q == B[Len(B)]
          <6>1. p = [drone_id |-> p.drone_id, scan |-> p.scan, place |-> p.place]
            BY <1>3 DEF ExtPose
          <6>2. p.place - 1 + 1 = p.place
            BY <1>3
          <6>3. q = [drone_id |-> p.drone_id, scan |-> p.scan, place |-> p.place - 1]
            BY <5>1, <6>1
          <6> HIDE DEF q
          <6>4. QED BY <6>1, <6>2, <6>3 DEF q
        <5>3. B[Len(B)].place # SCAN_LEN - 1
          BY <1>3, <5>2, Sizes
        <5>4. QED BY <4>1, <5>2, <5>3 DEF Follows
      <4>4. left = SCAN_LEN \/ left < SCAN_LEN
        BY <1>1, Sizes
      <4>5. QED BY <4>2, <4>3, <4>4
    <3>3. k \in 1 .. Len(B) - 1 \/ k = Len(B)
      <4>1. Len(B) \in Nat
        BY <1>5
      <4>2. QED BY <4>1
    <3>4. QED BY <3>1, <3>2, <3>3
  <2>2. B'[1].place = ext_aug_pose_idx'
    <3>1. CASE B = <<>>
      <4>1. left = SCAN_LEN
        BY <1>1, <3>1, Sizes DEF ScansWhole, StreamWhole
      <4>2. B'[1] = p /\ p.place = 0
        BY <1>3, <1>5, <3>1, <4>1, Sizes
      <4>3. QED BY <1>1, <1>2, <4>2 DEF tableVars
    <3>2. CASE B # <<>>
      <4>1. 1 \in DOMAIN B /\ B[1].place = ext_aug_pose_idx
        BY <1>5, <3>2 DEF ScansWhole, StreamWhole
      <4>2. QED BY <1>1, <1>5, <4>1 DEF tableVars
    <3>3. QED BY <3>1, <3>2
  <2>3. left' < SCAN_LEN /\ B'[Len(B')] = [Packet' EXCEPT !.place = @ - 1]
    BY <1>1, <1>4, <1>5, Sizes
  <2>4. QED BY <1>1, <1>5, <2>1, <2>2, <2>3 DEF StreamWhole
<1>9. Names' = Names
  BY <1>1 DEF Names, TakenSlots, EntryName, RefName, tableVars
<1>10. ScanName(p) = <<turn, scans[turn]>> /\ ScanName(Packet)' = ScanName(p)
  BY <1>1, <1>4 DEF ScanName, Packet
<1>11. Packet'.place = p.place + 1
  BY <1>1, <1>3, Sizes DEF Packet
<1>12. \A k \in DOMAIN B : ScanName(B[k]) = ScanName(p) => B[k].place < p.place
  BY <1>1 DEF ScansWhole, YetToCome, p
<1>13. \A k \in DOMAIN B' : k \in DOMAIN B \/ k = Len(B) + 1
  BY <1>5
<1>14. \A k \in DOMAIN B : ScanName(B'[k]) = ScanName(B[k])
  BY <1>5 DEF ScanName
<1>15. YetToCome'
  <2>1. ASSUME NEW k \in DOMAIN B', NEW m \in DOMAIN B', k < m,
               ScanName(B'[k]) = ScanName(B'[m])
        PROVE  B'[k].place < B'[m].place
    <3>1. k \in DOMAIN B
      BY <1>5, <2>1
    <3>2. CASE m \in DOMAIN B
      <4>1. B[k].place < B[m].place
        BY <1>14, <2>1, <3>1, <3>2 DEF ScansWhole, YetToCome
      <4>2. QED BY <1>5, <3>1, <3>2, <4>1
    <3>3. CASE m = Len(B) + 1
      BY <1>5, <1>12, <1>14, <2>1, <3>1, <3>3
    <3>4. QED BY <1>13, <3>2, <3>3
  <2>2. ScanName(p) \notin Names
    BY <1>1 DEF ScansWhole, YetToCome, p
  <2>3. ASSUME NEW k \in DOMAIN B'
        PROVE  ScanName(B'[k]) \notin Names /\ B'[k].scan <= scans[B'[k].drone_id]
    <3>1. CASE k \in DOMAIN B
      BY <1>5, <1>14, <3>1 DEF ScansWhole, YetToCome
    <3>2. CASE k = Len(B) + 1
      <4>1. scans[turn] <= scans[turn]
        <5>1. scans[turn] \in 0 .. MaxScans
          BY <1>1 DEF TypeOK
        <5>2. QED BY <5>1
      <4>2. QED BY <1>4, <1>5, <2>2, <3>2, <4>1
    <3>3. QED BY <1>13, <3>1, <3>2
  <2>4. ASSUME NEW k \in DOMAIN B', ScanName(B'[k]) = ScanName(p)
        PROVE  B'[k].place < Packet'.place
    <3>1. CASE k \in DOMAIN B
      <4>1. B[k].place < p.place /\ B[k].place \in Nat
        BY <1>12, <1>14, <2>4, <3>1, PoseTypes
      <4>2. QED BY <1>3, <1>5, <1>11, <3>1, <4>1
    <3>2. CASE k = Len(B) + 1
      BY <1>3, <1>5, <1>11, <3>2
    <3>3. QED BY <1>13, <3>1, <3>2
  <2>5. \A name \in Names : name[2] <= scans[name[1]]
    BY DEF ScansWhole, YetToCome
  <2> HIDE DEF B
  <2>6. QED
    BY <1>1, <1>9, <1>10, <2>1, <2>2, <2>3, <2>4, <2>5 DEF YetToCome, ScanName, B
<1>16. QED BY <1>6, <1>7, <1>8, <1>15 DEF ScansWhole

(* The whole scan has been sent.                                           *)
LEMMA ScanSentStep ==
  ASSUME TypeOK, ScansWhole, ScanSent PROVE ScansWhole'
<1> DEFINE B == gap9_ext_aug_pose_buf
<1>1. /\ phase = "send" /\ phase' = "update" /\ left = 0
      /\ UNCHANGED <<scans, gap9_ext_aug_pose_buf, tableVars, ext_const_table>>
  BY DEF ScanSent, stmVars, gapVars
<1>2. ext_aug_pose_idx = 0
  BY <1>1, NothingOpen
<1>3. BatchIsScan' /\ NamesDiffer'
  BY <1>1
  DEF ScansWhole, BatchIsScan, NamesDiffer, TakenSlots, EntryName, RefName, tableVars
<1>4. EntryOpen'
  BY <1>1, <1>2 DEF EntryOpen, tableVars
<1>5. Names' = Names
  BY <1>1 DEF Names, TakenSlots, EntryName, RefName, tableVars
<1>6. YetToCome'
  BY <1>1, <1>5 DEF ScansWhole, YetToCome, ScanName
<1>7. StreamWhole'
  <2>1. B # <<>> /\ B[Len(B)].place = SCAN_LEN - 1
    BY <1>1, Sizes DEF ScansWhole, StreamWhole, Packet
  <2>2. QED BY <1>1, <2>1 DEF ScansWhole, StreamWhole, tableVars
<1>8. QED BY <1>3, <1>4, <1>6, <1>7 DEF ScansWhole

(* There is a free entry for a scan that is yet to come.                   *)
LEMMA EntryIsFree ==
  ASSUME TypeOK, BatchIsScan, NamesDiffer, RoomForScans,
         NEW name \in Sender \X Scan, name \notin Names
  PROVE  FreeSlots # {}
<1> SUFFICES ASSUME FreeSlots = {} PROVE FALSE
  OBVIOUS
<1>1. TakenSlots = Slot
  BY DEF FreeSlots, TakenSlots
<1> DEFINE All == Sender \X Scan
           f == [i \in Slot |-> EntryName(i)]
<1>2. \A i \in Slot : EntryName(i) \in All
  <2> SUFFICES ASSUME NEW i \in Slot PROVE EntryName(i) \in All
    OBVIOUS
  <2>1. ext_scan_table[i] \in ExtScan
    BY DEF TypeOK
  <2>2. 0 \in 0 .. SCAN_LEN - 1
    BY Sizes
  <2>3. ext_scan_table[i].poses[0] \in ExtPose \cup {NoPose}
    BY <2>1, <2>2 DEF ExtScan
  <2>4. ext_scan_table[i].poses[0] =
          [drone_id |-> ext_scan_table[i].from_drone,
           scan |-> ext_scan_table[i].pose_id, place |-> 0]
    BY <1>1, <2>2 DEF BatchIsScan
  <2>5. ext_scan_table[i].from_drone \in Sender
    BY <2>1 DEF ExtScan
  <2>6. ext_scan_table[i].from_drone # ME
    BY <2>5, Sizes DEF Sender
  <2>7. ext_scan_table[i].poses[0] # NoPose
    <3>1. ext_scan_table[i].poses[0].drone_id # NoPose.drone_id
      BY <2>4, <2>6 DEF NoPose
    <3>2. QED BY <3>1
  <2>8. ext_scan_table[i].poses[0] \in ExtPose
    BY <2>3, <2>7
  <2>9. ext_scan_table[i].poses[0].scan = ext_scan_table[i].pose_id
    BY <2>4
  <2>10. ext_scan_table[i].pose_id \in Scan
    BY <2>8, <2>9 DEF ExtPose
  <2>11. QED BY <2>5, <2>10 DEF EntryName
<1>3. \A i \in Slot : EntryName(i) # name
  BY <1>1 DEF Names
<1>4. f \in Injection(Slot, All \ {name})
  <2>1. f \in [Slot -> All \ {name}]
    BY <1>2, <1>3
  <2>2. \A i, j \in Slot : f[i] = f[j] => i = j
    BY <1>1 DEF NamesDiffer
  <2>3. QED BY <2>1, <2>2 DEF Injection, IsInjective
<1>5. /\ IsFiniteSet(Sender) /\ Cardinality(Sender) = ME
      /\ IsFiniteSet(Scan) /\ Cardinality(Scan) = MaxScans
      /\ IsFiniteSet(Slot) /\ Cardinality(Slot) = MAX_SCANS
  <2>1. /\ IsFiniteSet(0 .. ME - 1) /\ Cardinality(0 .. ME - 1) = ME
    BY Sizes, FS_Interval
  <2>2. /\ IsFiniteSet(1 .. MaxScans) /\ Cardinality(1 .. MaxScans) = MaxScans
    BY Sizes, FS_Interval
  <2>3. /\ IsFiniteSet(0 .. MAX_SCANS - 1) /\ Cardinality(0 .. MAX_SCANS - 1) = MAX_SCANS
    BY Sizes, FS_Interval
  <2>4. QED BY <2>1, <2>2, <2>3 DEF Sender, Scan, Slot
<1>6. IsFiniteSet(All) /\ Cardinality(All) = ME * MaxScans
  BY <1>5, FS_Product
<1>7. IsFiniteSet(All \ {name}) /\ Cardinality(All \ {name}) = ME * MaxScans - 1
  BY <1>6, FS_RemoveElement
<1> HIDE DEF f, All
<1>8. Cardinality(Slot) <= Cardinality(All \ {name})
  BY <1>4, <1>7, FS_Injection
<1>9. ME * MaxScans \in Int
  BY Sizes
<1>10. QED BY <1>5, <1>7, <1>8, <1>9, Sizes DEF RoomForScans

(* The GAP9 stores the next pose of the scan it is reading.                *)
LEMMA ReadStep ==
  ASSUME TypeOK, TypeOK', ScansWhole, RoomForScans, ForwardPose
  PROVE  ScansWhole'
<1> DEFINE B == gap9_ext_aug_pose_buf
           p == B[1]
           n == ext_aug_pose_idx
           opens == ext_aug_pose_idx = 0 /\ FreeSlots # {}
           idx == IF opens THEN FirstFree ELSE ext_scan_table_idx
           name == ScanName(p)
           whole(k) == [drone_id |-> p.drone_id, scan |-> p.scan, place |-> k]
<1>1. /\ B # <<>> /\ B' = Tail(B) /\ Head(B) = p /\ add_ext_aug_pose_to_buf(p)
      /\ phase = "flush" /\ phase' = "flush"
      /\ UNCHANGED <<scans, ext_const_table, turn, left>>
  BY DEF ForwardPose, ringVars
<1>2. /\ B \in Seq(ExtPose) /\ Len(B) \in Nat \ {0} /\ DOMAIN B = 1 .. Len(B) /\ 1 \in DOMAIN B
      /\ Len(B') = Len(B) - 1 /\ DOMAIN B' = 1 .. Len(B) - 1
      /\ \A k \in 1 .. Len(B) - 1 : B'[k] = B[k + 1]
      /\ B' = <<>> <=> Len(B) = 1
  <2>1. /\ B \in Seq(ExtPose) /\ Len(B) \in Nat \ {0} /\ DOMAIN B = 1 .. Len(B)
    BY <1>1, PoseTypes
  <2>2. /\ B' \in Seq(ExtPose) /\ Len(B') = Len(B) - 1
        /\ \A k \in 1 .. Len(B) - 1 : B'[k] = B[k + 1]
    BY <1>1, <2>1, HeadTailProperties
  <2>3. DOMAIN B' = 1 .. Len(B') /\ (B' = <<>> <=> Len(B') = 0)
    BY <2>2
  <2>4. QED BY <2>1, <2>2, <2>3
<1>3. /\ p \in ExtPose /\ p.place = n /\ n \in 0 .. SCAN_LEN - 1 /\ p = whole(n)
      /\ name \in Sender \X Scan /\ name \notin Names
  <2>1. p \in ExtPose /\ p.place = n
    BY <1>1, <1>2, PoseTypes DEF ScansWhole, StreamWhole
  <2>2. n \in 0 .. SCAN_LEN - 1
    BY DEF TypeOK
  <2>3. name \notin Names
    BY <1>2 DEF ScansWhole, YetToCome
  <2>4. QED BY <2>1, <2>2, <2>3 DEF ExtPose, ScanName
<1>4. /\ opens <=> n = 0
      /\ idx \in Slot /\ ~ext_scan_table[idx].taken
      /\ n > 0 => /\ ext_scan_table[idx].from_drone = p.drone_id
                  /\ ext_scan_table[idx].pose_id = p.scan
                  /\ \A k \in 0 .. n - 1 : ext_scan_table[idx].poses[k] = whole(k)
  <2>1. CASE n = 0
    <3>1. FreeSlots # {}
      BY <1>3, EntryIsFree DEF ScansWhole
    <3>2. QED BY <2>1, <3>1, FirstFreeIsFree
  <2>2. CASE n > 0
    <3>1. ~opens /\ idx = ext_scan_table_idx /\ idx \in Slot
      BY <2>2 DEF TypeOK
    <3>2. /\ ~ext_scan_table[ext_scan_table_idx].taken
          /\ p = [drone_id |-> ext_scan_table[ext_scan_table_idx].from_drone,
                  scan |-> ext_scan_table[ext_scan_table_idx].pose_id, place |-> n]
          /\ \A k \in 0 .. n - 1 :
               ext_scan_table[ext_scan_table_idx].poses[k] =
                 [drone_id |-> ext_scan_table[ext_scan_table_idx].from_drone,
                  scan |-> ext_scan_table[ext_scan_table_idx].pose_id, place |-> k]
      BY <2>2 DEF ScansWhole, EntryOpen
    <3>3. /\ p.drone_id = ext_scan_table[ext_scan_table_idx].from_drone
          /\ p.scan = ext_scan_table[ext_scan_table_idx].pose_id
      BY <3>2
    <3>4. QED BY <2>2, <3>1, <3>2, <3>3
  <2>3. QED BY <1>3, <2>1, <2>2
<1> DEFINE old == ext_scan_table[idx]
           new == [taken |-> old.taken \/ Full,
                   from_drone |-> IF opens THEN p.drone_id ELSE old.from_drone,
                   pose_id |-> IF opens THEN p.scan ELSE old.pose_id,
                   poses |-> [old.poses EXCEPT ![n] = p]]
<1>5. /\ ext_scan_table' = [ext_scan_table EXCEPT ![idx] = new]
      /\ ext_scan_table_idx' = idx /\ n' = IF Full THEN 0 ELSE n + 1
  BY <1>1 DEF add_ext_aug_pose_to_buf
<1>6. /\ new.from_drone = p.drone_id /\ new.pose_id = p.scan
      /\ new.taken <=> Full
      /\ \A k \in 0 .. n : new.poses[k] = whole(k)
  <2>1. new.from_drone = p.drone_id /\ new.pose_id = p.scan
    BY <1>3, <1>4
  <2>2. new.taken <=> Full
    BY <1>4, Zenon
  <2>3. old.poses \in [0 .. SCAN_LEN - 1 -> ExtPose \cup {NoPose}]
    BY <1>4 DEF TypeOK, ExtScan
  <2>4. new.poses = [old.poses EXCEPT ![n] = p]
    OBVIOUS
  <2>5. \A k \in 0 .. n - 1 : k # n /\ k \in 0 .. SCAN_LEN - 1
    BY <1>3, Sizes
  <2>6. \A k \in 0 .. n - 1 : old.poses[k] = whole(k)
    BY <1>3, <1>4
  <2> HIDE DEF new, old, whole
  <2>7. \A k \in 0 .. n - 1 : new.poses[k] = whole(k)
    BY <2>3, <2>4, <2>5, <2>6
  <2>8. new.poses[n] = whole(n)
    BY <1>3, <2>3, <2>4
  <2>9. \A k \in 0 .. n : k = n \/ k \in 0 .. n - 1
    BY <1>3
  <2>10. QED BY <2>1, <2>2, <2>7, <2>8, <2>9
<1> HIDE DEF new, old, opens, idx, p, name
<1>7. PICK slot \in Slot :
        /\ slot = idx /\ slot \notin TakenSlots
        /\ \A i \in Slot : ext_scan_table'[i] = IF i = slot THEN new ELSE ext_scan_table[i]
  BY <1>4, <1>5 DEF TypeOK, TakenSlots
<1>8. TakenSlots' = IF Full THEN TakenSlots \cup {slot} ELSE TakenSlots
  <2>1. TakenSlots' = {i \in Slot : ext_scan_table'[i].taken}
    BY DEF TakenSlots
  <2>2. \A i \in Slot : ext_scan_table'[i].taken <=> i \in TakenSlots \/ (Full /\ i = slot)
    <3> SUFFICES ASSUME NEW i \in Slot
                 PROVE  ext_scan_table'[i].taken <=>
                          i \in TakenSlots \/ (Full /\ i = slot)
      OBVIOUS
    <3>1. CASE i = slot
      BY <1>6, <1>7, <3>1
    <3>2. CASE i # slot
      BY <1>7, <3>2 DEF TakenSlots
    <3>3. QED BY <3>1, <3>2
  <2>3. TakenSlots \subseteq Slot
    BY DEF TakenSlots
  <2>4. QED BY <1>7, <2>1, <2>2, <2>3
<1>9. /\ \A i \in TakenSlots : /\ ext_scan_table'[i] = ext_scan_table[i]
                               /\ EntryName(i)' = EntryName(i)
      /\ ext_scan_table'[slot] = new /\ EntryName(slot)' = name
  <2>1. \A i \in TakenSlots : ext_scan_table'[i] = ext_scan_table[i]
    BY <1>7 DEF TakenSlots
  <2>2. ext_scan_table'[slot] = new
    BY <1>7
  <2>3. name = <<p.drone_id, p.scan>>
    BY DEF name, ScanName
  <2>4. \A i \in TakenSlots : EntryName(i)' = EntryName(i)
    BY <2>1 DEF EntryName
  <2>5. EntryName(slot)' = <<new.from_drone, new.pose_id>>
    BY <2>2 DEF EntryName
  <2>6. EntryName(slot)' = name
    BY <1>6, <2>3, <2>5
  <2>7. QED BY <2>1, <2>2, <2>4, <2>6
<1>10. \A k \in DOMAIN ext_const_table : RefName(k)' = RefName(k)
  BY <1>1 DEF RefName
<1>11. Names' = IF Full THEN Names \cup {name} ELSE Names
  <2>1. Names' = {EntryName(i)' : i \in TakenSlots'}
                   \cup {RefName(k)' : k \in DOMAIN ext_const_table}
    BY <1>1 DEF Names
  <2>2. {RefName(k)' : k \in DOMAIN ext_const_table} =
          {RefName(k) : k \in DOMAIN ext_const_table}
    BY <1>10
  <2>3. {EntryName(i)' : i \in TakenSlots} = {EntryName(i) : i \in TakenSlots}
    BY <1>9
  <2>4. CASE Full
    <3> DEFINE e(i) == EntryName(i)'
    <3>1. TakenSlots' = TakenSlots \cup {slot} /\ e(slot) = name
      BY <1>8, <1>9, <2>4
    <3> HIDE DEF e
    <3>2. {e(i) : i \in TakenSlots'} = {e(i) : i \in TakenSlots} \cup {name}
      BY <3>1
    <3>3. {EntryName(i)' : i \in TakenSlots'} =
            {EntryName(i)' : i \in TakenSlots} \cup {name}
      BY <3>2 DEF e
    <3>4. QED BY <2>1, <2>2, <2>3, <2>4, <3>3 DEF Names
  <2>5. CASE ~Full
    BY <1>8, <2>1, <2>2, <2>3, <2>5 DEF Names
  <2>6. QED BY <2>4, <2>5
<1>12. BatchIsScan'
  <2> SUFFICES ASSUME NEW i \in TakenSlots', NEW k \in 0 .. SCAN_LEN - 1
               PROVE  ext_scan_table'[i].poses[k] =
                        [drone_id |-> ext_scan_table'[i].from_drone,
                         scan |-> ext_scan_table'[i].pose_id, place |-> k]
    BY DEF BatchIsScan
  <2>1. CASE i \in TakenSlots
    BY <1>9, <2>1 DEF ScansWhole, BatchIsScan
  <2>2. CASE i = slot /\ Full
    <3>1. k \in 0 .. n
      BY <1>3, <2>2, Sizes DEF Full
    <3>2. QED BY <1>6, <1>9, <2>2, <3>1
  <2>3. QED BY <1>8, <2>1, <2>2
<1>13. NamesDiffer'
  <2>1. /\ \A i \in TakenSlots : EntryName(i) # name
        /\ \A k \in DOMAIN ext_const_table : RefName(k) # name
    BY <1>3 DEF Names
  <2>2. ASSUME NEW i \in TakenSlots', NEW j \in TakenSlots', i # j
        PROVE  EntryName(i)' # EntryName(j)'
    <3>1. CASE i \in TakenSlots /\ j \in TakenSlots
      BY <1>9, <2>2, <3>1 DEF ScansWhole, NamesDiffer
    <3>2. CASE i = slot /\ j \in TakenSlots
      <4>1. EntryName(i)' = name
        BY <1>9, <3>2
      <4>2. EntryName(j)' = EntryName(j) /\ EntryName(j) # name
        BY <1>9, <2>1, <3>2
      <4>3. QED BY <4>1, <4>2
    <3>3. CASE i \in TakenSlots /\ j = slot
      <4>1. EntryName(j)' = name
        BY <1>9, <3>3
      <4>2. EntryName(i)' = EntryName(i) /\ EntryName(i) # name
        BY <1>9, <2>1, <3>3
      <4>3. QED BY <4>1, <4>2
    <3>4. QED BY <1>8, <2>2, <3>1, <3>2, <3>3
  <2>3. ASSUME NEW i \in TakenSlots', NEW k \in DOMAIN ext_const_table
        PROVE  EntryName(i)' # RefName(k)'
    <3>1. CASE i \in TakenSlots
      BY <1>9, <1>10, <3>1 DEF ScansWhole, NamesDiffer
    <3>2. CASE i = slot
      <4>1. EntryName(i)' = name
        BY <1>9, <3>2
      <4>2. RefName(k)' = RefName(k) /\ RefName(k) # name
        BY <1>10, <2>1
      <4>3. QED BY <4>1, <4>2
    <3>3. QED BY <1>8, <3>1, <3>2
  <2>4. \A k, m \in DOMAIN ext_const_table : k # m => RefName(k)' # RefName(m)'
    BY <1>10 DEF ScansWhole, NamesDiffer
  <2>5. QED BY <1>1, <2>2, <2>3, <2>4 DEF NamesDiffer
<1>14. B # <<>> => B[1] = p /\ Len(B) >= 1
  BY <1>2 DEF p
<1>15. Len(B) > 1 => Follows(p, B'[1])
  <2> SUFFICES ASSUME Len(B) > 1 PROVE Follows(p, B'[1])
    OBVIOUS
  <2>1. 1 \in 1 .. Len(B) - 1 /\ B'[1] = B[2]
    BY <1>2
  <2>2. \A k \in 1 .. Len(B) - 1 : Follows(B[k], B[k + 1])
    BY DEF ScansWhole, StreamWhole
  <2>3. Follows(B[1], B[1 + 1])
    BY <2>1, <2>2
  <2>4. QED BY <2>1, <2>3 DEF p
<1>16. Len(B) = 1 => Full
  BY <1>1, <1>2, <1>3, Sizes DEF ScansWhole, StreamWhole, Full, p
<1>17. StreamWhole'
  <2>1. \A k \in 1 .. Len(B') - 1 : Follows(B'[k], B'[k + 1])
    <3> SUFFICES ASSUME NEW k \in 1 .. Len(B') - 1 PROVE Follows(B'[k], B'[k + 1])
      OBVIOUS
    <3>1. k \in 1 .. Len(B) - 1 /\ k + 1 \in 1 .. Len(B) - 1
      BY <1>2
    <3>2. Follows(B[k + 1], B[k + 1 + 1])
      BY <3>1 DEF ScansWhole, StreamWhole
    <3>3. QED BY <1>2, <3>1, <3>2
  <2>2. B' # <<>> => B'[1].place = n'
    <3> SUFFICES ASSUME B' # <<>> PROVE B'[1].place = n'
      OBVIOUS
    <3>1. Follows(p, B'[1])
      BY <1>2, <1>15
    <3>2. CASE Full
      BY <1>3, <1>5, <3>1, <3>2, Sizes DEF Follows, Full
    <3>3. CASE ~Full
      <4>1. p.place # SCAN_LEN - 1
        BY <1>3, <3>3, Sizes DEF Full
      <4>2. B'[1] = [p EXCEPT !.place = @ + 1]
        BY <3>1, <4>1 DEF Follows
      <4>3. B'[1].place = p.place + 1
        BY <1>3, <4>2 DEF ExtPose
      <4>4. QED BY <1>3, <1>5, <3>3, <4>3
    <3>4. QED BY <3>2, <3>3
  <2>3. B' = <<>> => n' = 0
    BY <1>2, <1>5, <1>16
  <2>4. B' # <<>> => B'[Len(B')].place = SCAN_LEN - 1
    <3> SUFFICES ASSUME B' # <<>> PROVE B'[Len(B')].place = SCAN_LEN - 1
      OBVIOUS
    <3>1. Len(B') \in 1 .. Len(B) - 1 /\ Len(B') + 1 = Len(B)
      BY <1>2
    <3>2. B'[Len(B')] = B[Len(B)]
      BY <1>2, <3>1
    <3>3. B[Len(B)].place = SCAN_LEN - 1
      BY <1>1 DEF ScansWhole, StreamWhole
    <3>4. QED BY <3>2, <3>3
  <2>5. QED BY <1>1, <2>1, <2>2, <2>3, <2>4 DEF StreamWhole
<1>18. EntryOpen'
  <2> SUFFICES ASSUME n' > 0 PROVE EntryOpen'
    BY DEF EntryOpen
  <2>1. ~Full /\ n' = n + 1
    BY <1>5
  <2>2. Len(B) > 1 /\ B' # <<>>
    BY <1>2, <1>16, <2>1
  <2>3. B'[1] = whole(n + 1)
    <3>1. p.place # SCAN_LEN - 1
      BY <1>3, <2>1, Sizes DEF Full
    <3>2. B'[1] = [p EXCEPT !.place = @ + 1]
      BY <1>15, <2>2, <3>1 DEF Follows
    <3>3. QED BY <1>3, <3>2
  <2>4. \A k \in 0 .. n' - 1 : new.poses[k] = whole(k)
    <3>1. n' - 1 = n
      BY <1>3, <2>1
    <3>2. QED BY <1>6, <3>1
  <2>5. ext_scan_table'[ext_scan_table_idx'] = new
    BY <1>5, <1>7, <1>9
  <2> HIDE DEF whole
  <2>6. whole(n + 1) = [drone_id |-> new.from_drone, scan |-> new.pose_id, place |-> n']
    BY <1>6, <2>1 DEF whole
  <2>7. \A k \in 0 .. n' - 1 :
          new.poses[k] = [drone_id |-> new.from_drone, scan |-> new.pose_id, place |-> k]
    BY <1>6, <2>4 DEF whole
  <2>8. ~new.taken
    BY <1>6, <2>1
  <2>9. QED BY <1>1, <2>2, <2>3, <2>5, <2>6, <2>7, <2>8 DEF EntryOpen
<1>19. YetToCome'
  <2>1. \A k \in DOMAIN B' : k + 1 \in DOMAIN B /\ k + 1 # 1 /\ B'[k] = B[k + 1]
    BY <1>2
  <2>2. ASSUME NEW k \in DOMAIN B', NEW m \in DOMAIN B', k < m,
               ScanName(B'[k]) = ScanName(B'[m])
        PROVE  B'[k].place < B'[m].place
    <3>1. k + 1 < m + 1
      BY <1>2, <2>2
    <3>2. QED BY <2>1, <2>2, <3>1 DEF ScansWhole, YetToCome
  <2>3. ASSUME NEW k \in DOMAIN B'
        PROVE  ScanName(B'[k]) \notin Names' /\ B'[k].scan <= scans[B'[k].drone_id]
    <3>1. /\ ScanName(B[k + 1]) \notin Names
          /\ B[k + 1].scan <= scans[B[k + 1].drone_id]
      BY <2>1 DEF ScansWhole, YetToCome
    <3>2. Full => ScanName(B[k + 1]) # name
      <4> SUFFICES ASSUME Full, ScanName(B[k + 1]) = name PROVE FALSE
        OBVIOUS
      <4>1. 1 < k + 1 /\ ScanName(B[1]) = ScanName(B[k + 1])
        BY <1>2 DEF name, p
      <4>2. B[1].place < B[k + 1].place
        BY <1>2, <2>1, <4>1 DEF ScansWhole, YetToCome
      <4>3. B[1].place = SCAN_LEN - 1 /\ B[k + 1].place \in 0 .. SCAN_LEN - 1
        BY <1>3, <2>1, PoseTypes, Sizes DEF Full, p
      <4>4. QED BY <4>2, <4>3, Sizes
    <3>3. QED BY <1>11, <2>1, <3>1, <3>2
  <2>4. \A x \in Names' : x[2] <= scans[x[1]]
    <3>1. name[2] <= scans[name[1]]
      BY <1>2 DEF ScansWhole, YetToCome, name, p, ScanName
    <3>2. \A x \in Names : x[2] <= scans[x[1]]
      BY DEF ScansWhole, YetToCome
    <3>3. QED BY <1>11, <3>1, <3>2
  <2> HIDE DEF B
  <2>5. QED BY <1>1, <2>2, <2>3, <2>4 DEF YetToCome, ScanName, B
<1>20. QED BY <1>12, <1>13, <1>17, <1>18, <1>19 DEF ScansWhole

(* An optimisation turns entries into constraints.                         *)
LEMMA OptimizeStep ==
  ASSUME TypeOK, TypeOK', ScansWhole, PhaseOfTurn, Optimize
  PROVE  ScansWhole'
<1> DEFINE C == ext_const_table
           T == ext_scan_table
<1>1. /\ gap9_ext_aug_pose_buf = <<>> /\ gap9_ext_aug_pose_buf' = <<>>
      /\ phase' = "scan" /\ scans' = scans
      /\ UNCHANGED <<ext_scan_table_idx, ext_aug_pose_idx>>
  BY DEF Optimize, PhaseOfTurn, stmVars
<1>2. ext_aug_pose_idx = 0
  <2>1. ~(phase = "send" /\ left < SCAN_LEN)
    BY DEF Optimize
  <2>2. QED BY <1>1, <2>1 DEF ScansWhole, StreamWhole
<1>3. StreamWhole' /\ EntryOpen'
  <2>1. StreamWhole'
    <3>1. Len(<<>>) = 0 /\ 1 .. 0 - 1 = {}
      OBVIOUS
    <3>2. QED BY <1>1, <1>2, <3>1 DEF StreamWhole
  <2>2. QED BY <1>1, <1>2, <2>1 DEF EntryOpen
<1>4. PICK n \in Nat :
        \E slots \in Matches(n) :
          /\ Len(C') = Len(C) + n
          /\ \A k \in 1 .. Len(C) : C'[k].from_drone = C[k].from_drone /\ C'[k].ref = C[k].ref
          /\ \A k \in 1 .. n : /\ C'[Len(C) + k].from_drone = T[slots[k]].from_drone
                               /\ C'[Len(C) + k].ref = T[slots[k]].pose_id
          /\ T' = Freed(slots)
  BY OptimizeResult
<1>5. PICK slots \in Matches(n) :
        /\ Len(C') = Len(C) + n
        /\ \A k \in 1 .. Len(C) : C'[k].from_drone = C[k].from_drone /\ C'[k].ref = C[k].ref
        /\ \A k \in 1 .. n : /\ C'[Len(C) + k].from_drone = T[slots[k]].from_drone
                             /\ C'[Len(C) + k].ref = T[slots[k]].pose_id
        /\ T' = Freed(slots)
  BY <1>4
<1>6. /\ slots \in [1 .. n -> TakenSlots] /\ DOMAIN slots = 1 .. n
      /\ \A k, m \in 1 .. n : k # m => slots[k] # slots[m]
  <2>1. /\ slots \in [1 .. n -> TakenSlots]
        /\ \A k, m \in 1 .. n : k < m => slots[k] < slots[m]
    BY DEF Matches
  <2>2. \A k \in 1 .. n : slots[k] \in Nat
    BY <2>1, Sizes DEF TakenSlots, Slot
  <2>3. \A k, m \in 1 .. n : k # m => k < m \/ m < k
    OBVIOUS
  <2>4. QED BY <2>1, <2>2, <2>3
<1>7. /\ Len(C) \in Nat /\ DOMAIN C = 1 .. Len(C) /\ DOMAIN C' = 1 .. Len(C')
  <2>1. C \in Seq(ExtConstraint) /\ C' \in Seq(ExtConstraint)
    BY DEF TypeOK
  <2>2. QED BY <2>1
<1> HIDE DEF C
<1>8. \A k \in DOMAIN C' : \/ k \in DOMAIN C
                           \/ k - Len(C) \in 1 .. n /\ k = Len(C) + (k - Len(C))
  BY <1>5, <1>7
<1>9. /\ TakenSlots' = {i \in TakenSlots : \A k \in 1 .. n : slots[k] # i}
      /\ \A i \in TakenSlots' : /\ i \in TakenSlots /\ T'[i].poses = T[i].poses
                                /\ T'[i].from_drone = T[i].from_drone
                                /\ T'[i].pose_id = T[i].pose_id
  <2>1. \A i \in Slot : T'[i] = [T[i] EXCEPT !.taken = @ /\ \A k \in 1 .. n : slots[k] # i]
    BY <1>5, <1>6 DEF Freed
  <2>2. \A i \in Slot : T[i] \in ExtScan
    BY DEF TypeOK
  <2>3. ASSUME NEW i \in Slot
        PROVE  /\ T'[i].taken <=> T[i].taken /\ \A k \in 1 .. n : slots[k] # i
               /\ T'[i].poses = T[i].poses
               /\ T'[i].from_drone = T[i].from_drone /\ T'[i].pose_id = T[i].pose_id
    <3> DEFINE e == T[i]
               kept == \A k \in 1 .. n : slots[k] # i
    <3>1. e \in ExtScan /\ T'[i] = [e EXCEPT !.taken = @ /\ kept]
      BY <2>1, <2>2
    <3> HIDE DEF e, kept
    <3>2. T'[i].taken = (e.taken /\ kept)
      BY <3>1 DEF ExtScan
    <3>3. /\ T'[i].poses = e.poses
          /\ T'[i].from_drone = e.from_drone /\ T'[i].pose_id = e.pose_id
      BY <3>1 DEF ExtScan
    <3>4. T'[i].taken <=> e.taken /\ kept
      BY <3>2, Zenon
    <3>5. QED BY <3>3, <3>4 DEF e, kept
  <2>4. \A i : i \in TakenSlots' <=> i \in TakenSlots /\ \A k \in 1 .. n : slots[k] # i
    <3>1. \A i : i \in TakenSlots' <=> i \in Slot /\ T'[i].taken
      BY DEF TakenSlots
    <3>2. \A i : i \in TakenSlots <=> i \in Slot /\ T[i].taken
      BY DEF TakenSlots
    <3>3. QED BY <2>3, <3>1, <3>2
  <2>5. TakenSlots \subseteq Slot
    BY DEF TakenSlots
  <2> HIDE DEF T
  <2>6. TakenSlots' = {i \in TakenSlots : \A k \in 1 .. n : slots[k] # i}
    BY <2>4
  <2>7. QED BY <2>3, <2>4, <2>5, <2>6
<1>10. \A i \in TakenSlots' : EntryName(i)' = EntryName(i)
  BY <1>9 DEF EntryName
<1>11. \A k \in DOMAIN C : RefName(k)' = RefName(k)
  BY <1>5, <1>7 DEF RefName, C
<1>12. \A k \in DOMAIN C' : k \in DOMAIN C \/ RefName(k)' = EntryName(slots[k - Len(C)])
  <2> SUFFICES ASSUME NEW k \in DOMAIN C', k \notin DOMAIN C
               PROVE  RefName(k)' = EntryName(slots[k - Len(C)])
    OBVIOUS
  <2>1. k - Len(C) \in 1 .. n /\ k = Len(C) + (k - Len(C))
    BY <1>8
  <2>2. /\ C'[k].from_drone = T[slots[k - Len(C)]].from_drone
        /\ C'[k].ref = T[slots[k - Len(C)]].pose_id
    BY <1>5, <2>1
  <2>3. QED BY <2>2 DEF RefName, EntryName, C
<1>13. BatchIsScan'
  <2> SUFFICES ASSUME NEW i \in TakenSlots', NEW k \in 0 .. SCAN_LEN - 1
               PROVE  T'[i].poses[k] = [drone_id |-> T'[i].from_drone,
                                        scan |-> T'[i].pose_id, place |-> k]
    BY DEF BatchIsScan
  <2>1. T[i].poses[k] = [drone_id |-> T[i].from_drone, scan |-> T[i].pose_id, place |-> k]
    BY <1>9 DEF ScansWhole, BatchIsScan
  <2>2. QED BY <1>9, <2>1
<1> HIDE DEF T
<1>14. NamesDiffer'
  <2>1. \A i, j \in TakenSlots' : i # j => EntryName(i)' # EntryName(j)'
    BY <1>9, <1>10 DEF ScansWhole, NamesDiffer
  <2>2. ASSUME NEW i \in TakenSlots', NEW k \in DOMAIN C' PROVE EntryName(i)' # RefName(k)'
    <3>1. i \in TakenSlots /\ EntryName(i)' = EntryName(i)
      BY <1>9, <1>10
    <3>2. CASE k \in DOMAIN C
      BY <1>11, <3>1, <3>2 DEF ScansWhole, NamesDiffer, C
    <3>3. CASE k \notin DOMAIN C
      <4>1. k - Len(C) \in 1 .. n
        BY <1>8, <3>3
      <4>2. slots[k - Len(C)] \in TakenSlots /\ slots[k - Len(C)] # i
        BY <1>6, <1>9, <4>1
      <4>3. EntryName(slots[k - Len(C)]) # EntryName(i)
        BY <3>1, <4>2 DEF ScansWhole, NamesDiffer
      <4>4. QED BY <1>12, <3>1, <3>3, <4>3
    <3>4. QED BY <3>2, <3>3
  <2>3. ASSUME NEW k \in DOMAIN C, NEW m \in DOMAIN C', m \notin DOMAIN C
        PROVE  RefName(k)' # RefName(m)'
    <3>1. m - Len(C) \in 1 .. n /\ slots[m - Len(C)] \in TakenSlots
      BY <1>6, <1>8, <2>3
    <3>2. EntryName(slots[m - Len(C)]) # RefName(k)
      BY <3>1 DEF ScansWhole, NamesDiffer, C
    <3>3. QED BY <1>11, <1>12, <2>3, <3>2
  <2>4. ASSUME NEW k \in DOMAIN C', NEW m \in DOMAIN C', k # m,
               k \notin DOMAIN C, m \notin DOMAIN C
        PROVE  RefName(k)' # RefName(m)'
    <3>1. k - Len(C) \in 1 .. n /\ m - Len(C) \in 1 .. n /\ k - Len(C) # m - Len(C)
      <4>1. /\ k - Len(C) \in 1 .. n /\ k = Len(C) + (k - Len(C))
            /\ m - Len(C) \in 1 .. n /\ m = Len(C) + (m - Len(C))
        BY <1>8, <2>4
      <4>2. QED BY <2>4, <4>1
    <3>2. /\ slots[k - Len(C)] \in TakenSlots /\ slots[m - Len(C)] \in TakenSlots
          /\ slots[k - Len(C)] # slots[m - Len(C)]
      BY <1>6, <3>1
    <3>3. EntryName(slots[k - Len(C)]) # EntryName(slots[m - Len(C)])
      BY <3>2 DEF ScansWhole, NamesDiffer
    <3>4. QED BY <1>12, <2>4, <3>3
  <2>5. \A k, m \in DOMAIN C : k # m => RefName(k)' # RefName(m)'
    BY <1>11 DEF ScansWhole, NamesDiffer, C
  <2>6. \A k, m \in DOMAIN C' : k # m => RefName(k)' # RefName(m)'
    BY <2>3, <2>4, <2>5
  <2>7. QED BY <2>1, <2>2, <2>6 DEF NamesDiffer, C
<1>15. Names' \subseteq Names
  <2> SUFFICES ASSUME NEW name \in Names' PROVE name \in Names
    OBVIOUS
  <2>1. \/ \E i \in TakenSlots' : name = EntryName(i)'
        \/ \E k \in DOMAIN C' : name = RefName(k)'
    BY DEF Names, C
  <2>2. CASE \E i \in TakenSlots' : name = EntryName(i)'
    <3>1. \E i \in TakenSlots : name = EntryName(i)
      BY <1>9, <1>10, <2>2
    <3>2. QED BY <3>1 DEF Names
  <2>3. CASE \E k \in DOMAIN C' : name = RefName(k)'
    <3>1. PICK k \in DOMAIN C' : name = RefName(k)'
      BY <2>3
    <3>2. CASE k \in DOMAIN C
      <4>1. name = RefName(k)
        BY <1>11, <3>1, <3>2
      <4>2. QED BY <3>2, <4>1 DEF Names, C
    <3>3. CASE k \notin DOMAIN C
      <4>1. slots[k - Len(C)] \in TakenSlots
        BY <1>6, <1>8, <3>3
      <4>2. name = EntryName(slots[k - Len(C)])
        BY <1>12, <3>1, <3>3
      <4>3. QED BY <4>1, <4>2 DEF Names
    <3>4. QED BY <3>2, <3>3
  <2>4. QED BY <2>1, <2>2, <2>3
<1>16. YetToCome'
  <2>1. DOMAIN <<>> = {}
    OBVIOUS
  <2>2. \A name \in Names' : name[2] <= scans'[name[1]]
    BY <1>1, <1>15 DEF ScansWhole, YetToCome
  <2>3. QED BY <1>1, <2>1, <2>2 DEF YetToCome
<1>17. QED BY <1>3, <1>13, <1>14, <1>16 DEF ScansWhole

(* A fault is never forgotten.                                             *)
LEMMA FaultsRemain ==
  ASSUME TypeOK, PhaseOfTurn, [Next]_vars, FaultFree'
  PROVE  /\ FaultFree
         /\ ~PacketLost
         /\ PacketArrives => gap9_ext_aug_pose_buf' = Append(gap9_ext_aug_pose_buf, Packet)
<1>1. faults \in FaultCounts /\ faults.faulty \in Nat
  BY FaultsCounted, Sizes DEF FaultCounts
<1>2. ~Fault
  <2>1. Fault => faults'.faulty = faults.faulty + 1
    BY <1>1 DEF Fault, FaultCounts
  <2>2. QED BY <1>1, <2>1 DEF FaultFree
<1>3. ~PacketLost
  BY <1>2 DEF PacketLost
<1>4. CASE PacketArrives
  <2>1. gap9_ext_aug_pose_buf' = Copies(1) /\ UNCHANGED faults
    BY <1>2, <1>4 DEF PacketArrives
  <2>2. Packet \in ExtPose
    BY <1>4, PacketType DEF PacketArrives, Sending, PhaseOfTurn
  <2>3. QED BY <1>3, <2>1, <2>2, CopiesWait DEF FaultFree
<1>5. CASE ~PacketArrives
  <2>1. faults'.faulty = faults.faulty
    <3>1. CASE UNCHANGED faults
      BY <3>1
    <3>2. CASE SendUpdates \/ Skipped
      BY <1>1, <3>2 DEF SendUpdates, Skipped, FaultCounts
    <3>3. QED
      BY <1>3, <1>5, <3>1, <3>2
      DEF Next, StartTurn, ScanSent, NoUpdates, StartOwnTurn, ForwardPose,
          ForwardUpdate, Forwarded, Optimize, vars, ringVars
  <2>2. QED BY <1>3, <1>5, <2>1 DEF FaultFree
<1>6. QED BY <1>4, <1>5

(* While every packet arrives once, every step keeps the scans whole.      *)
LEMMA ScansStep ==
  ASSUME TypeOK, TypeOK', PhaseOfTurn, FaultFree => ScansWhole, RoomForScans,
         [Next]_vars, FaultFree'
  PROVE  ScansWhole'
<1>1. ScansWhole
  BY FaultsRemain
<1>2. \A d \in Drone : scans[d] <= scans'[d]
  BY ScansGrow
<1>3. ext_aug_pose_idx > 0 => phase = "flush" /\ gap9_ext_aug_pose_buf # <<>>
  BY <1>1 DEF ScansWhole, EntryOpen
<1>4. CASE StartTurn
  <2>1. CASE phase' = "send"
    BY <1>1, <1>4, <2>1, NewScanStep
  <2>2. CASE phase' # "send"
    <3>1. /\ phase # "send" /\ phase # "flush"
          /\ UNCHANGED <<gap9_ext_aug_pose_buf, tableVars, ext_const_table>>
      BY <1>4 DEF StartTurn, stmVars, gapVars
    <3>2. QED BY <1>1, <1>2, <1>3, <2>2, <3>1, QuietStep
  <2>3. QED BY <2>1, <2>2
<1>5. CASE PacketArrives
  BY <1>1, <1>5, FaultsRemain, PacketStep
<1>6. CASE ScanSent
  BY <1>1, <1>6, ScanSentStep
<1>7. CASE SendUpdates \/ NoUpdates \/ Skipped \/ StartOwnTurn
  <2>1. /\ phase # "send" /\ phase' # "send" /\ phase # "flush"
        /\ UNCHANGED <<gap9_ext_aug_pose_buf, tableVars, ext_const_table>>
    BY <1>7 DEF SendUpdates, NoUpdates, Skipped, StartOwnTurn, stmVars, gapVars
  <2>2. QED BY <1>1, <1>2, <1>3, <2>1, QuietStep
<1>8. CASE ForwardPose
  BY <1>1, <1>8, ReadStep
<1>9. CASE ForwardUpdate \/ Forwarded
  <2>1. /\ phase # "send" /\ phase' # "send" /\ gap9_ext_aug_pose_buf = <<>>
        /\ UNCHANGED <<gap9_ext_aug_pose_buf, tableVars, ext_const_table>>
    BY <1>9 DEF ForwardUpdate, Forwarded, stmVars, gapVars, ringVars
  <2>2. QED BY <1>1, <1>2, <1>3, <2>1, QuietStep
<1>10. CASE Optimize
  BY <1>1, <1>10, OptimizeStep
<1>11. CASE UNCHANGED vars
  BY <1>1, <1>11
  DEF vars, ringVars, stmVars, gapVars, tableVars, ScansWhole, BatchIsScan, StreamWhole,
      EntryOpen, NamesDiffer, YetToCome, Names, TakenSlots, EntryName, RefName, ScanName,
      Packet
<1>12. QED
  BY <1>4, <1>5, <1>6, <1>7, <1>8, <1>9, <1>10, <1>11, FaultsRemain DEF Next

----------------------------------------------------------------------------
(* The invariant, and what follows from it. *)

(* At power-up there is nothing to be wrong about.                         *)
LEMMA InvInit == Init => Inv
<1> SUFFICES ASSUME Init PROVE Inv
  OBVIOUS
<1>1. TypeOK
  BY TypeInit
<1>2. TakenSlots = {} /\ DOMAIN ext_const_table = {} /\ Names = {}
  <2>1. \A i \in Slot : ~ext_scan_table[i].taken
    BY DEF Init
  <2>2. TakenSlots = {}
    BY <2>1 DEF TakenSlots
  <2>3. DOMAIN ext_const_table = {}
    BY DEF Init
  <2>4. QED BY <2>2, <2>3 DEF Names
<1>3. PhaseOfTurn /\ WaitingBounded
  <2>1. PhaseOfTurn
    BY DEF Init, PhaseOfTurn
  <2>2. /\ TurnsTaken = 0 /\ SentInTurn = 0
        /\ (ATTEMPTS - 1) * faults.faulty = 0
        /\ Len(gap9_ext_aug_pose_buf) = 0
    BY Sizes, CopiesOfFaults DEF Init, TurnsTaken, SentInTurn
  <2>3. SCAN_LEN * 0 + 0 + 0 = 0
    BY Sizes
  <2>4. QED BY <2>1, <2>2, <2>3 DEF WaitingBounded
<1>4. OwnScansDiffer /\ LastIsLatest
  <2>1. DOMAIN ext_pose_upd_table = {}
    BY DEF Init
  <2>2. QED BY <1>2, <2>1 DEF OwnScansDiffer, LastIsLatest
<1>5. ScansWhole
  <2>1. BatchIsScan /\ NamesDiffer
    BY <1>2 DEF BatchIsScan, NamesDiffer
  <2>2. StreamWhole
    <3>1. gap9_ext_aug_pose_buf = <<>> /\ ext_aug_pose_idx = 0 /\ phase = "scan"
      BY DEF Init
    <3>2. Len(<<>>) = 0 /\ 1 .. 0 - 1 = {}
      OBVIOUS
    <3>3. QED BY <3>1, <3>2 DEF StreamWhole
  <2>3. EntryOpen
    BY DEF Init, EntryOpen
  <2>4. YetToCome
    <3>1. DOMAIN gap9_ext_aug_pose_buf = {} /\ phase = "scan"
      BY DEF Init
    <3>2. QED BY <1>2, <3>1 DEF YetToCome
  <2>5. QED BY <2>1, <2>2, <2>3, <2>4 DEF ScansWhole
<1>6. QED BY <1>1, <1>3, <1>4, <1>5 DEF Inv

(* What holds whatever arrives, and however little room there is.          *)
Shaped == TypeOK /\ PhaseOfTurn /\ WaitingBounded /\ OwnScansDiffer /\ LastIsLatest

(* Each part is kept by its own lemma.                                     *)
LEMMA ShapedStep == Shaped /\ [Next]_vars => Shaped'
<1> SUFFICES ASSUME Shaped, [Next]_vars PROVE Shaped'
  OBVIOUS
<1> USE DEF Shaped
<1>1. TypeOK'
  BY TypeStep
<1>2. PhaseOfTurn'
  BY PhaseStep
<1>3. WaitingBounded'
  BY <1>1, WaitingStep
<1>4. OwnScansDiffer'
  BY <1>1, OwnScansStep
<1>5. LastIsLatest'
  BY LastIsLatestStep
<1>6. QED BY <1>1, <1>2, <1>3, <1>4, <1>5

(* With room for every scan, a step keeps the whole invariant.             *)
LEMMA InvStep ==
  ASSUME RoomForScans PROVE Inv /\ [Next]_vars => Inv'
<1> SUFFICES ASSUME Inv, [Next]_vars PROVE Inv'
  OBVIOUS
<1>1. Shaped /\ Shaped'
  BY ShapedStep DEF Inv, Shaped
<1>2. ASSUME FaultFree' PROVE ScansWhole'
  BY <1>1, <1>2, ScansStep DEF Inv, Shaped
<1>3. QED BY <1>1, <1>2 DEF Inv, Shaped

(* So these parts hold for ever.                                           *)
LEMMA AlwaysShaped == Spec => []Shaped
<1>1. Init => Shaped
  BY InvInit DEF Inv, Shaped
<1>2. Shaped /\ [Next]_vars => Shaped'
  BY ShapedStep
<1>3. QED BY <1>1, <1>2, PTL DEF Spec

(* Whatever is lost or repeated and however many scans arrive, the entry   *)
(* and the place in it where the GAP9 stores the next pose are within      *)
(* ext_scan_table and ext_aug_poses, which it does not check               *)
(* (external_point_cloud.c:32-68).  (The other tables are sequences here.) *)
THEOREM TypeCorrect == Spec => []TypeOK
<1>1. Shaped => TypeOK
  BY DEF Shaped
<1>2. QED BY <1>1, AlwaysShaped, PTL

(* A scan of ME is matched with other drones once, whatever arrives.       *)
THEOREM OwnScansOnce == Spec => []OwnScansDiffer
<1>1. Shaped => OwnScansDiffer
  BY DEF Shaped
<1>2. QED BY <1>1, AlwaysShaped, PTL

(* The poses of other drones fit the buffer of the STM32, whatever is lost *)
(* or repeated, if it has room for one scan of each lower drone in each    *)
(* round without a turn of ME, and for the copies of the packets that come *)
(* more than once.                                                         *)
THEOREM BufferFitsTheorem == RoomForPoses => (Spec => []BufferFits)
<1>1. ASSUME RoomForPoses PROVE Shaped => BufferFits
  BY <1>1, BufferSuffices DEF Shaped
<1>2. ASSUME RoomForPoses PROVE []Shaped => []BufferFits
  BY <1>1, <1>2, PTL
<1>3. QED BY <1>2, AlwaysShaped

(* The whole invariant, if the table has room for every scan of every      *)
(* lower drone.                                                            *)
THEOREM ExternalInvariant == RoomForScans => (Spec => []Inv)
<1>1. ASSUME RoomForScans PROVE Spec => []Inv
  <2>1. Init => Inv
    BY InvInit
  <2>2. Inv /\ [Next]_vars => Inv'
    BY <1>1, InvStep
  <2>3. QED BY <2>1, <2>2, PTL DEF Spec
<1>2. QED BY <1>1

(* An entry that may be matched holds one scan of one drone, whole and in  *)
(* order, as long as every packet arrives once: also when the scans of     *)
(* several drones wait for ME, and when turns of ME are skipped.           *)
THEOREM IntactBatchTheorem == RoomForScans => (Spec => []IntactBatch)
<1>1. Inv => IntactBatch
  BY DEF Inv, ScansWhole, IntactBatch
<1>2. ASSUME RoomForScans PROVE Spec => []IntactBatch
  <2>1. Spec => []Inv
    BY <1>2, ExternalInvariant
  <2>2. QED BY <1>1, <2>1, PTL
<1>3. QED BY <1>2

(* A scan of ME gives at most one constraint with other drones, whatever   *)
(* arrives; a scan of another drone gives at most one while every packet   *)
(* arrives once.                                                           *)
THEOREM MatchedOnceTheorem == RoomForScans => (Spec => []MatchedOnce)
<1>1. Inv => MatchedOnce
  <2> SUFFICES ASSUME Inv, NEW k \in DOMAIN ext_const_table,
                      NEW m \in DOMAIN ext_const_table, k # m
               PROVE  /\ ext_const_table[k].cur # ext_const_table[m].cur
                      /\ FaultFree => RefName(k) # RefName(m)
    BY DEF MatchedOnce, RefName
  <2>1. ext_const_table[k].cur # ext_const_table[m].cur
    BY DEF Inv, OwnScansDiffer
  <2>2. FaultFree => RefName(k) # RefName(m)
    BY DEF Inv, ScansWhole, NamesDiffer
  <2>3. QED BY <2>1, <2>2
<1>2. ASSUME RoomForScans PROVE Spec => []MatchedOnce
  <2>1. Spec => []Inv
    BY <1>2, ExternalInvariant
  <2>2. QED BY <1>1, <2>1, PTL
<1>3. QED BY <1>2

(* An optimisation gives each constraint it already had the newest of the  *)
(* values that arrived for it, although every update changes only the      *)
(* first constraint it concerns: with NamesDiffer there is no second one.  *)
THEOREM UpdatesAppliedTheorem == RoomForScans => (Spec => UpdatesApplied)
<1> DEFINE Step ==
      FaultFree /\ phase = "optimize" /\ phase' = "scan" =>
        \A k \in DOMAIN ext_const_table :
          LET c == ext_const_table[k] IN
            (\E i \in DOMAIN ext_pose_upd_table :
               Concerns(ext_pose_upd_table[i], c))
              => ext_const_table'[k].version = latest[<<c.from_drone, c.ref>>]
<1>1. Inv /\ [Next]_vars => Step
  <2> SUFFICES ASSUME Inv, [Next]_vars, FaultFree, phase = "optimize", phase' = "scan",
                      NEW k \in DOMAIN ext_const_table,
                      NEW i \in DOMAIN ext_pose_upd_table,
                      Concerns(ext_pose_upd_table[i], ext_const_table[k])
               PROVE  ext_const_table'[k].version =
                        latest[<<ext_const_table[k].from_drone, ext_const_table[k].ref>>]
    OBVIOUS
  <2>1. Optimize
    BY DEF Next, vars, ringVars, StartTurn, PacketArrives, PacketLost, Sending, ScanSent,
           SendUpdates, NoUpdates, Skipped, StartOwnTurn, ForwardPose, ForwardUpdate,
           Forwarded
  <2>2. TypeOK /\ LastIsLatest /\ NamesDiffer
    BY DEF Inv, ScansWhole
  <2>3. QED BY <2>1, <2>2, LastUpdateGiven
<1>2. Inv /\ [Next]_vars => [Step]_vars
  BY <1>1
<1>3. ASSUME RoomForScans PROVE Spec => UpdatesApplied
  <2>1. Spec => []Inv
    BY <1>3, ExternalInvariant
  <2> HIDE DEF Step
  <2>2. Spec => [][Step]_vars
    BY <1>1, <2>1, PTL DEF Spec
  <2>3. QED BY <2>2 DEF UpdatesApplied, Step
<1>4. QED BY <1>3
=============================================================================
