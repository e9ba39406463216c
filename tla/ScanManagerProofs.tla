------------------------- MODULE ScanManagerProofs -------------------------
(***************************************************************************)
(* Proofs about the scans of a drone for any length of scan, queue and     *)
(* mission: what holds at any pace of the tasks, and what holds at the     *)
(* pace of a mission.                                                      *)
(***************************************************************************)
EXTENDS ScanManager, SequenceTheorems, TLAPS

LEMMA Sizes ==
  /\ NR_OF_NODES \in Nat /\ NODE_ID \in Nat /\ NODE_ID < NR_OF_NODES
  /\ SCAN_LEN \in Nat \ {0} /\ QUEUE_SIZE \in Nat \ {0}
  /\ SCANS_PER_OPT \in Nat \ {0} /\ MaxPoses \in Nat /\ TokenBy \in Nat
  /\ MaxLocked \in Nat /\ ValidateBy \in Nat /\ SpinGap \in Nat
BY ScanAssumption DEF ScanAssumption

----------------------------------------------------------------------------
(* The type invariant, one variable at a time. *)

MissionTypes ==
  /\ mpc \in {"frame", "queue", "reset", "buffer", "scan", "lock"}
  /\ pose_cnt \in Id /\ scan_id \in ScanId
  /\ broadcast_scan \in BOOLEAN /\ announced \in Seq(ScanId)

FlightTypes ==
  /\ spinning \in BOOLEAN /\ scan_pose_id \in ScanId
  /\ scan_token \in BOOLEAN /\ travelled \in BOOLEAN

SharedTypes ==
  /\ poseQueue \in Seq(Id) /\ Len(poseQueue) <= QUEUE_SIZE
  /\ newScanQueue \in Seq(ScanId) /\ Len(newScanQueue) <= 1
  /\ history \in [Slot -> Id] /\ head \in Slot
  /\ locked \in BOOLEAN

UwbTypes ==
  /\ upc \in {"wait", "drain", "range", "send", "notify", "decide",
              "optimize", "correct"}
  /\ sent \in Seq(Id) /\ scan_poses \in Seq(Id)
  /\ opt_cnt \in Nat \ {0}
  /\ optimize \in BOOLEAN /\ unopt \in ScanId

GapTypes == p_cloud \in Seq(Id) /\ int_scan_pose_ids \in Seq(Id)

Types == MissionTypes /\ FlightTypes /\ SharedTypes /\ UwbTypes /\ GapTypes

LEMMA SameTypes == TypeOK <=> Types
BY DEF TypeOK, Types, MissionTypes, FlightTypes, SharedTypes, UwbTypes, GapTypes

LEMMA LastPose ==
  ASSUME Types
  PROVE  get_last_pose_id \in ScanId /\ (pose_cnt > 0 => get_last_pose_id \in Id)
BY Sizes DEF Types, MissionTypes, Id, ScanId, None, get_last_pose_id

(* The places of the history. *)
LEMMA Place ==
  ASSUME NEW h \in Slot, NEW k \in Slot
  PROVE  /\ (h + k) % SCAN_LEN \in Slot
         /\ (h + k) % SCAN_LEN = IF h + k < SCAN_LEN THEN h + k
                                 ELSE h + k - SCAN_LEN
         /\ (h + 1) % SCAN_LEN = IF h + 1 < SCAN_LEN THEN h + 1 ELSE 0
BY Sizes DEF Slot

LEMMA BufferType ==
  ASSUME Types
  PROVE  /\ \A k \in Slot : get_pose_from_scan_buffer(k) \in Id
         /\ Newest = get_pose_from_scan_buffer(SCAN_LEN - 1)
         /\ get_pose_from_scan_buffer(0) \in Id
         /\ SCAN_LEN - 1 \in Slot /\ 0 \in Slot
<1>1. SCAN_LEN - 1 \in Slot /\ 0 \in Slot
  BY Sizes DEF Slot
<1>2. \A k \in Slot : get_pose_from_scan_buffer(k) \in Id
  BY Place DEF get_pose_from_scan_buffer, Types, SharedTypes
<1>3. Newest = get_pose_from_scan_buffer(SCAN_LEN - 1)
  <2>1. head + SCAN_LEN - 1 = head + (SCAN_LEN - 1)
    BY Sizes DEF Types, SharedTypes, Slot
  <2>2. QED BY <2>1 DEF Newest, get_pose_from_scan_buffer
<1>4. QED BY <1>1, <1>2, <1>3

(* What the history holds after a pose was added to it.                    *)
LEMMA Shifted ==
  ASSUME Types, Counted, AddToScanBuffer, ~locked
  PROVE  /\ history' \in [Slot -> Id] /\ head' \in Slot
         /\ \A k \in Slot : get_pose_from_scan_buffer(k)' =
              IF k = SCAN_LEN - 1 THEN get_last_pose_id
              ELSE get_pose_from_scan_buffer(k + 1)
<1>1. /\ history' = [history EXCEPT ![head] = get_last_pose_id]
      /\ head' = (head + 1) % SCAN_LEN
      /\ get_last_pose_id \in Id
  BY LastPose DEF AddToScanBuffer, Counted
<1>2. head \in Slot /\ history \in [Slot -> Id]
  BY DEF Types, SharedTypes
<1>3. head' \in Slot /\ head' = IF head + 1 < SCAN_LEN THEN head + 1 ELSE 0
  BY <1>1, <1>2, Place, Sizes DEF Slot
<1>4. ASSUME NEW k \in Slot
      PROVE  get_pose_from_scan_buffer(k)' =
              IF k = SCAN_LEN - 1 THEN get_last_pose_id
              ELSE get_pose_from_scan_buffer(k + 1)
  <2>1. get_pose_from_scan_buffer(k)' = history'[(head' + k) % SCAN_LEN]
    BY DEF get_pose_from_scan_buffer
  <2>2. CASE k = SCAN_LEN - 1
    <3>1. (head' + k) % SCAN_LEN = head
      BY <1>2, <1>3, <2>2, Place, Sizes DEF Slot
    <3>2. QED BY <1>1, <1>2, <2>1, <2>2, <3>1
  <2>3. CASE k # SCAN_LEN - 1
    <3>1. k + 1 \in Slot
      BY <2>3, Sizes DEF Slot
    <3>2. /\ (head' + k) % SCAN_LEN = (head + (k + 1)) % SCAN_LEN
          /\ (head + (k + 1)) % SCAN_LEN \in Slot \ {head}
      BY <1>2, <1>3, <3>1, Place, Sizes DEF Slot
    <3>3. QED BY <1>1, <1>2, <2>1, <2>3, <3>2 DEF get_pose_from_scan_buffer
  <2>4. QED BY <2>2, <2>3
<1>5. QED BY <1>1, <1>2, <1>3, <1>4

(* Nothing but AddToScanBuffer changes the history.                        *)
LEMMA BufferSame ==
  ASSUME UNCHANGED bufferVars
  PROVE  /\ \A k : get_pose_from_scan_buffer(k)' = get_pose_from_scan_buffer(k)
         /\ Newest' = Newest
BY DEF bufferVars, get_pose_from_scan_buffer, Newest

LEMMA TypesInit == Init => Types /\ Counted
<1> SUFFICES ASSUME Init PROVE Types /\ Counted
  OBVIOUS
<1> USE Sizes DEF Init, Id, ScanId, Slot, None
<1>1. MissionTypes /\ FlightTypes /\ Counted
  BY DEF MissionTypes, FlightTypes, Counted
<1>2. SharedTypes
  BY DEF SharedTypes
<1>3. UwbTypes /\ GapTypes
  BY DEF UwbTypes, GapTypes
<1>4. QED BY <1>1, <1>2, <1>3 DEF Types

(* What a step leaves alone keeps its type.                                *)
LEMMA TypesSame ==
  /\ MissionTypes /\ UNCHANGED missionVars => MissionTypes'
  /\ FlightTypes /\ UNCHANGED <<flightVars, travelled>> => FlightTypes'
  /\ SharedTypes /\ UNCHANGED <<poseQueue, newScanQueue, bufferVars, locked>>
       => SharedTypes'
  /\ UwbTypes /\ UNCHANGED <<upc, scanVars>> => UwbTypes'
  /\ GapTypes /\ UNCHANGED gapVars => GapTypes'
BY DEF MissionTypes, missionVars, FlightTypes, flightVars, SharedTypes,
       bufferVars, UwbTypes, scanVars, GapTypes, gapVars

(* The types are preserved, and so is Counted: each task is a lemma.       *)
LEMMA TypesMission ==
  ASSUME Types, Counted, Mission PROVE Types' /\ Counted'
<1>1. UwbTypes' /\ GapTypes'
  BY TypesSame DEF Mission, AcquirePose, SendToQueue, ResetQueue, AddToScanBuffer,
                   GetScanId, LockScan, uwbTask, Types
<1>2. FlightTypes'
  <2>1. travelled' \in BOOLEAN
    BY Zenon DEF Mission, AcquirePose, SendToQueue, ResetQueue, AddToScanBuffer,
                 GetScanId, LockScan, Types, FlightTypes
  <2>2. QED BY <2>1 DEF Mission, AcquirePose, SendToQueue, ResetQueue,
                        AddToScanBuffer, GetScanId, LockScan, Types,
                        FlightTypes, flightVars
<1>3. CASE AcquirePose
  <2>1. MissionTypes' /\ Counted'
    BY <1>3, Sizes DEF AcquirePose, Types, MissionTypes, Id, Counted
  <2>2. QED BY <1>1, <1>2, <1>3, <2>1, TypesSame DEF AcquirePose, Types
<1>4. CASE SendToQueue
  <2>1. poseQueue' \in Seq(Id) /\ Len(poseQueue') <= QUEUE_SIZE
    <3>1. /\ poseQueue \in Seq(Id) /\ Len(poseQueue) <= QUEUE_SIZE
          /\ get_last_pose_id \in Id
      BY <1>4, LastPose DEF SendToQueue, Types, SharedTypes, Counted
    <3>2. \/ poseQueue' = poseQueue
          \/ /\ poseQueue' = Append(poseQueue, get_last_pose_id)
             /\ Len(poseQueue) # QUEUE_SIZE
      BY <1>4 DEF SendToQueue, Enqueued, QueueFull
    <3>3. QED BY <3>1, <3>2, Sizes
  <2>2. SharedTypes'
    BY <1>4, <2>1 DEF SendToQueue, Types, SharedTypes, bufferVars
  <2>3. MissionTypes' /\ Counted'
    BY <1>4 DEF SendToQueue, Types, MissionTypes, Counted
  <2>4. QED BY <1>1, <1>2, <2>2, <2>3 DEF Types
<1>9. CASE ResetQueue
  <2>1. poseQueue' = <<>>
    BY <1>9 DEF ResetQueue
  <2>2. SharedTypes'
    BY <1>9, <2>1, Sizes DEF ResetQueue, Types, SharedTypes, bufferVars
  <2>3. MissionTypes' /\ Counted'
    BY <1>9 DEF ResetQueue, Types, MissionTypes, Counted
  <2>4. QED BY <1>1, <1>2, <2>2, <2>3 DEF Types
<1>5. CASE AddToScanBuffer
  <2>1. history' \in [Slot -> Id] /\ head' \in Slot
    BY <1>5, Shifted DEF AddToScanBuffer, Types, SharedTypes, bufferVars
  <2>2. SharedTypes'
    BY <1>5, <2>1 DEF AddToScanBuffer, Types, SharedTypes
  <2>3. MissionTypes' /\ Counted'
    BY <1>5 DEF AddToScanBuffer, Types, MissionTypes, Counted
  <2>4. QED BY <1>1, <1>2, <2>2, <2>3 DEF Types
<1>6. CASE GetScanId
  <2>1. newScanQueue # <<>> => Head(newScanQueue) \in ScanId
    BY DEF Types, SharedTypes
  <2>2. MissionTypes' /\ Counted'
    <3>1. broadcast_scan' \in BOOLEAN
      BY <1>6 DEF GetScanId, Types, MissionTypes
    <3>2. scan_id' \in ScanId /\ announced' \in Seq(ScanId)
      BY <1>6, <2>1 DEF GetScanId, Types, MissionTypes
    <3>3. QED
      BY <1>6, <3>1, <3>2 DEF GetScanId, Types, MissionTypes, Counted
  <2>3. newScanQueue' = <<>>
    BY <1>6 DEF GetScanId
  <2>4. SharedTypes'
    BY <1>6, <2>3 DEF GetScanId, Types, SharedTypes, bufferVars
  <2>5. QED BY <1>1, <1>2, <2>2, <2>4 DEF Types
<1>7. CASE LockScan
  <2>1. locked' \in BOOLEAN /\ broadcast_scan' \in BOOLEAN
    BY <1>7 DEF LockScan
  <2>2. MissionTypes' /\ Counted'
    BY <1>7, <2>1 DEF LockScan, Types, MissionTypes, Counted
  <2>3. SharedTypes'
    BY <1>7, <2>1 DEF LockScan, Types, SharedTypes, bufferVars
  <2>4. QED BY <1>1, <1>2, <2>2, <2>3 DEF Types
<1>8. QED BY <1>3, <1>4, <1>9, <1>5, <1>6, <1>7 DEF Mission

LEMMA TypesFlight ==
  ASSUME Types, Counted, Flight PROVE Types' /\ Counted'
<1>1. MissionTypes' /\ UwbTypes' /\ GapTypes'
  BY TypesSame DEF Flight, StartSpin, ValidateScan, StopSpin, uwbTask, Types
<1>2. Counted'
  BY DEF Flight, StartSpin, ValidateScan, StopSpin, missionVars, Counted
<1>3. FlightTypes'
  <2>1. spinning' \in BOOLEAN /\ scan_token' \in BOOLEAN
    BY DEF Flight, StartSpin, ValidateScan, StopSpin, Types, FlightTypes
  <2>2. scan_pose_id' \in ScanId
    BY LastPose DEF Flight, StartSpin, ValidateScan, StopSpin, Types, FlightTypes
  <2>3. travelled' = travelled
    BY DEF Flight, StartSpin, ValidateScan, StopSpin
  <2>4. QED BY <2>1, <2>2, <2>3 DEF Types, FlightTypes
<1>4. SharedTypes'
  <2>1. newScanQueue' \in Seq(ScanId) /\ Len(newScanQueue') <= 1
    <3>1. newScanQueue' = newScanQueue \/ newScanQueue' = <<scan_pose_id>>
      BY DEF Flight, StartSpin, ValidateScan, StopSpin
    <3>2. /\ <<scan_pose_id>> \in Seq(ScanId) /\ Len(<<scan_pose_id>>) <= 1
          /\ newScanQueue \in Seq(ScanId) /\ Len(newScanQueue) <= 1
      BY DEF Types, SharedTypes, FlightTypes
    <3>3. QED BY <3>1, <3>2, Zenon
  <2>2. UNCHANGED <<poseQueue, bufferVars, locked>>
    BY DEF Flight, StartSpin, ValidateScan, StopSpin
  <2>3. QED BY <2>1, <2>2 DEF Types, SharedTypes, bufferVars
<1>5. QED BY <1>1, <1>2, <1>3, <1>4 DEF Types

LEMMA TypesUwb ==
  ASSUME Types, Counted, Uwb PROVE Types' /\ Counted'
<1>1. UNCHANGED otherTasks
  BY DEF Uwb, TakeToken, DrainPose, DrainDone, CheckNewScan, SendPacket,
         SendDone, NotifyGap9, Decide, Optimize, Correct, PassOn
<1>2. MissionTypes' /\ FlightTypes' /\ Counted'
  BY <1>1, TypesSame DEF otherTasks, Types, Counted, missionVars
<1>3. SharedTypes'
  <2>1. poseQueue' \in Seq(Id) /\ Len(poseQueue') <= QUEUE_SIZE
    <3>1. \/ poseQueue' = poseQueue
          \/ poseQueue # <<>> /\ poseQueue' = Tail(poseQueue)
      BY DEF Uwb, TakeToken, DrainPose, DrainDone, CheckNewScan, SendPacket,
             SendDone, NotifyGap9, Decide, Optimize, Correct, PassOn
    <3>2. poseQueue \in Seq(Id) /\ Len(poseQueue) <= QUEUE_SIZE
      BY DEF Types, SharedTypes
    <3>3. QED BY <3>1, <3>2, Sizes
  <2>2. locked' \in BOOLEAN
    BY DEF Uwb, TakeToken, DrainPose, DrainDone, CheckNewScan, SendPacket,
           SendDone, NotifyGap9, Decide, Optimize, Correct, PassOn,
           Types, SharedTypes
  <2>3. QED BY <1>1, <2>1, <2>2 DEF otherTasks, bufferVars, Types, SharedTypes
<1>4. CASE TakeToken
  <2>1. optimize' \in BOOLEAN
    BY <1>4 DEF TakeToken, Types, UwbTypes
  <2>2. UwbTypes'
    BY <1>4, <2>1 DEF TakeToken, Types, UwbTypes
  <2>3. QED BY <1>2, <1>3, <1>4, <2>2, TypesSame DEF TakeToken, Types
<1>5. CASE DrainPose
  <2>1. GapTypes'
    BY <1>5 DEF DrainPose, Types, SharedTypes, GapTypes
  <2>2. QED BY <1>2, <1>3, <1>5, <2>1, TypesSame DEF DrainPose, Types
<1>6. CASE DrainDone \/ CheckNewScan \/ SendDone \/ PassOn
  <2>1. UwbTypes'
    BY <1>6 DEF DrainDone, CheckNewScan, SendDone, PassOn, Types, UwbTypes,
                scanVars
  <2>2. GapTypes'
    BY <1>6, TypesSame DEF DrainDone, CheckNewScan, SendDone, PassOn, Types
  <2>3. QED BY <1>2, <1>3, <2>1, <2>2 DEF Types
<1>7. CASE SendPacket
  <2>1. Len(sent) % SCAN_LEN \in Slot
    BY Sizes DEF Types, UwbTypes, Slot
  <2>2. sent' \in Seq(Id)
    BY <1>7, <2>1, BufferType DEF SendPacket, Types, UwbTypes
  <2>3. UwbTypes'
    BY <1>7, <2>2 DEF SendPacket, Types, UwbTypes
  <2>4. QED BY <1>2, <1>3, <1>7, <2>3, TypesSame DEF SendPacket, Types
<1>8. CASE NotifyGap9
  <2>1. GapTypes'
    BY <1>8, BufferType DEF NotifyGap9, Types, GapTypes
  <2>2. UwbTypes'
    BY <1>8 DEF NotifyGap9, Types, UwbTypes, scanVars
  <2>3. QED BY <1>2, <1>3, <2>1, <2>2 DEF Types
<1>9. CASE Decide
  <2>1. scan_poses' \in Seq(Id) /\ sent' \in Seq(Id)
    BY <1>9, BufferType DEF Decide, Types, UwbTypes
  <2>2. optimize' \in BOOLEAN /\ opt_cnt' \in Nat \ {0}
    BY <1>9 DEF Decide, Types, UwbTypes
  <2>3. UwbTypes'
    BY <1>9, <2>1, <2>2 DEF Decide, Types, UwbTypes
  <2>4. QED BY <1>2, <1>3, <1>9, <2>3, TypesSame DEF Decide, Types
<1>10. CASE Optimize
  <2>1. unopt' \in ScanId
    <3>1. unopt' = get_last_pose_id
      BY <1>10, Zenon DEF Optimize
    <3>2. QED BY <3>1, LastPose
  <2>2. UwbTypes'
    BY <1>10, <2>1 DEF Optimize, Types, UwbTypes
  <2>3. QED BY <1>2, <1>3, <1>10, <2>2, TypesSame DEF Optimize, Types
<1>11. CASE Correct
  <2>1. UwbTypes'
    BY <1>11 DEF Correct, Types, UwbTypes, ScanId
  <2>2. QED BY <1>2, <1>3, <1>11, <2>1, TypesSame DEF Correct, Types
<1>12. QED BY <1>4, <1>5, <1>6, <1>7, <1>8, <1>9, <1>10, <1>11 DEF Uwb

LEMMA TypesStep ==
  ASSUME Types, Counted, [Next]_vars PROVE Types' /\ Counted'
<1>1. CASE UNCHANGED vars
  <2>1. Types'
    BY <1>1, TypesSame DEF vars, otherTasks, uwbTask, Types
  <2>2. Counted'
    BY <1>1 DEF vars, otherTasks, missionVars, Counted
  <2>3. QED BY <2>1, <2>2
<1>2. QED BY <1>1, TypesMission, TypesFlight, TypesUwb DEF Next

LEMMA TypesAlways == Spec => [](Types /\ Counted)
<1>1. Types /\ Counted /\ [Next]_vars => (Types /\ Counted)'
  BY TypesStep
<1>2. QED BY <1>1, TypesInit, PTL DEF Spec

(* Every variable keeps its type, the ring buffer and the queues their     *)
(* bounds (scan_manager.c, uwb_ranging.c:55-68).                           *)
THEOREM TypeCorrect == Spec => []TypeOK
BY TypesAlways, SameTypes, PTL
----------------------------------------------------------------------------
(* The way of a pose to the GAP9. *)

(* What a queue loses at its head, the table gains at its end.             *)
LEMMA ConcatHead ==
  ASSUME NEW s \in Seq(Nat), NEW t \in Seq(Nat), t # <<>>
  PROVE  Append(s, Head(t)) \o Tail(t) = s \o t
<1> DEFINE u == Append(s, Head(t)) \o Tail(t)
           v == s \o t
<1>1. u \in Seq(Nat) /\ v \in Seq(Nat) /\ Len(u) = Len(v)
  OBVIOUS
<1>2. \A i \in 1 .. Len(u) : u[i] = v[i]
  OBVIOUS
<1> HIDE DEF u, v
<1>3. u = v
  BY <1>1, <1>2, SeqEqual
<1>4. QED BY <1>3 DEF u, v

LEMMA ConcatAppend ==
  ASSUME NEW s \in Seq(Nat), NEW t \in Seq(Nat), NEW e \in Nat
  PROVE  s \o Append(t, e) = Append(s \o t, e)
<1> DEFINE u == s \o Append(t, e)
           v == Append(s \o t, e)
<1>1. u \in Seq(Nat) /\ v \in Seq(Nat) /\ Len(u) = Len(v)
  OBVIOUS
<1>2. \A i \in 1 .. Len(u) : u[i] = v[i]
  OBVIOUS
<1> HIDE DEF u, v
<1>3. u = v
  BY <1>1, <1>2, SeqEqual
<1>4. QED BY <1>3 DEF u, v

(* What a step does to the queue: nothing, one pose in, all poses out, one *)
(* pose out.                                                               *)
LEMMA QueueStep ==
  ASSUME Types, Counted, [Next]_vars
  PROVE  \/ UNCHANGED <<poseQueue, p_cloud, Queued>>
         \/ /\ mpc = "queue" /\ mpc' = "buffer" /\ ~QueueFull
            /\ poseQueue' = Append(poseQueue, Queued)
            /\ p_cloud' = p_cloud /\ Queued' = Queued + 1
         \/ /\ mpc = "reset" /\ mpc' = "queue" /\ poseQueue' = <<>>
            /\ p_cloud' = p_cloud /\ Queued' = Queued
         \/ /\ poseQueue # <<>> /\ poseQueue' = Tail(poseQueue)
            /\ p_cloud' = Append(p_cloud, Head(poseQueue))
            /\ UNCHANGED <<Queued, mpc>>
<1> USE DEF Queued
<1>1. CASE AcquirePose
  BY <1>1, Sizes DEF AcquirePose, uwbTask, gapVars, Types, MissionTypes, Id
<1>2. CASE SendToQueue
  BY <1>2, Sizes
  DEF SendToQueue, Enqueued, uwbTask, gapVars, Types, MissionTypes, Id,
      get_last_pose_id
<1>9. CASE ResetQueue
  BY <1>9 DEF ResetQueue, uwbTask, gapVars
<1>3. CASE AddToScanBuffer \/ GetScanId \/ LockScan
  BY <1>3 DEF AddToScanBuffer, GetScanId, LockScan, uwbTask, gapVars
<1>4. CASE Flight
  BY <1>4 DEF Flight, StartSpin, ValidateScan, StopSpin, missionVars, uwbTask,
              gapVars
<1>5. CASE DrainPose
  BY <1>5 DEF DrainPose, otherTasks, missionVars
<1>6. CASE Uwb /\ ~DrainPose
  BY <1>6 DEF Uwb, TakeToken, DrainDone, CheckNewScan, SendPacket, SendDone,
              NotifyGap9, Decide, Optimize, Correct, PassOn, otherTasks,
              missionVars, gapVars
<1>7. CASE UNCHANGED vars
  BY <1>7 DEF vars, otherTasks, missionVars, uwbTask, gapVars
<1>8. QED BY <1>1, <1>2, <1>9, <1>3, <1>4, <1>5, <1>6, <1>7 DEF Next, Mission

LEMMA QueueTypes ==
  ASSUME Types, Counted
  PROVE  /\ poseQueue \in Seq(Nat) /\ p_cloud \in Seq(Nat) /\ Queued \in Nat
         /\ Len(poseQueue) <= QUEUE_SIZE
<1>1. Id \subseteq Nat
  BY Sizes DEF Id
<1>2. Queued \in Nat
  BY <1>1 DEF Types, MissionTypes, Counted, Queued
<1>3. poseQueue \in Seq(Id) /\ p_cloud \in Seq(Id) /\ Len(poseQueue) <= QUEUE_SIZE
  BY DEF Types, SharedTypes, GapTypes
<1>4. QED BY <1>1, <1>2, <1>3, SeqMonotonic

(* What a step does to the poses on their way: nothing, a pose joins them, *)
(* or the ones that wait are dropped.                                      *)
LEMMA WayStep ==
  ASSUME Types, Counted, [Next]_vars
  PROVE  /\ OnTheWay \in Seq(Nat)
         /\ \/ OnTheWay' = OnTheWay /\ Queued' = Queued
            \/ OnTheWay' = Append(OnTheWay, Queued) /\ Queued' = Queued + 1
            \/ OnTheWay' = p_cloud /\ Queued' = Queued /\ mpc = "reset"
<1>1. OnTheWay \in Seq(Nat)
  BY QueueTypes DEF OnTheWay
<1>2. CASE UNCHANGED <<poseQueue, p_cloud, Queued>>
  BY <1>1, <1>2 DEF OnTheWay
<1>3. CASE /\ poseQueue' = Append(poseQueue, Queued)
           /\ p_cloud' = p_cloud /\ Queued' = Queued + 1
  <2>1. p_cloud \o Append(poseQueue, Queued) = Append(OnTheWay, Queued)
    BY QueueTypes, ConcatAppend DEF OnTheWay
  <2>2. QED BY <1>1, <1>3, <2>1 DEF OnTheWay
<1>4. CASE /\ poseQueue' = <<>> /\ mpc = "reset"
           /\ p_cloud' = p_cloud /\ Queued' = Queued
  <2>1. p_cloud \o <<>> = p_cloud
    BY QueueTypes
  <2>2. QED BY <1>1, <1>4, <2>1 DEF OnTheWay
<1>5. CASE /\ poseQueue # <<>> /\ poseQueue' = Tail(poseQueue)
           /\ p_cloud' = Append(p_cloud, Head(poseQueue)) /\ Queued' = Queued
  <2>1. Append(p_cloud, Head(poseQueue)) \o Tail(poseQueue) = OnTheWay
    BY <1>5, QueueTypes, ConcatHead DEF OnTheWay
  <2>2. QED BY <1>1, <1>5, <2>1 DEF OnTheWay
<1>6. QED BY <1>2, <1>3, <1>4, <1>5, QueueStep

LEMMA IncreasingAppend ==
  ASSUME NEW s \in Seq(Nat), NEW last \in Nat, Increasing(s),
         \A k \in 1 .. Len(s) : s[k] < last
  PROVE  /\ Increasing(Append(s, last))
         /\ \A k \in 1 .. Len(Append(s, last)) : Append(s, last)[k] < last + 1
BY DEF Increasing

LEMMA QueueInvStep ==
  ASSUME Types, Counted, QueueInv, [Next]_vars PROVE QueueInv'
<1>1. CASE OnTheWay' = OnTheWay /\ Queued' = Queued
  BY <1>1 DEF QueueInv, Increasing
<1>2. CASE OnTheWay' = Append(OnTheWay, Queued) /\ Queued' = Queued + 1
  BY <1>2, WayStep, QueueTypes, IncreasingAppend DEF QueueInv, Increasing
<1>3. CASE OnTheWay' = p_cloud /\ Queued' = Queued
  <2>1. /\ p_cloud \in Seq(Nat) /\ Queued \in Nat
        /\ Len(p_cloud) <= Len(OnTheWay) /\ Len(OnTheWay) \in Nat
        /\ \A k \in 1 .. Len(p_cloud) : p_cloud[k] = OnTheWay[k]
    BY QueueTypes DEF OnTheWay
  <2>2. ASSUME NEW k \in 1 .. Len(p_cloud) - 1
        PROVE  p_cloud[k] < p_cloud[k + 1]
    <3>1. k \in 1 .. Len(OnTheWay) - 1 /\ {k, k + 1} \subseteq 1 .. Len(p_cloud)
      BY <2>1
    <3>2. OnTheWay[k] < OnTheWay[k + 1]
      BY <3>1 DEF QueueInv, Increasing
    <3>3. QED BY <2>1, <3>1, <3>2
  <2>3. ASSUME NEW k \in 1 .. Len(p_cloud) PROVE p_cloud[k] < Queued
    BY <2>1 DEF QueueInv
  <2>4. QED BY <1>3, <2>2, <2>3 DEF QueueInv, Increasing
<1>4. QED BY <1>1, <1>2, <1>3, WayStep

LEMMA QueueInvInit == Init => QueueInv
BY DEF Init, QueueInv, OnTheWay, Increasing

(* The poses on their way are in the order of their ids.                   *)
LEMMA QueueInvOrders ==
  ASSUME Types, Counted, QueueInv PROVE PosesInOrder
<1>1. OnTheWay \in Seq(Nat) /\ Queued \in Nat
  BY QueueTypes DEF OnTheWay
<1>2. CASE mpc \in {"queue", "reset"}
  <2>1. get_last_pose_id = Queued
    BY <1>2 DEF Queued, get_last_pose_id
  <2>2. OnTheWay \o <<Queued>> = Append(OnTheWay, Queued)
    BY <1>1
  <2>3. Increasing(OnTheWay \o <<Queued>>)
    BY <1>1, <2>2, IncreasingAppend DEF QueueInv
  <2>4. QED BY <1>2, <2>1, <2>3 DEF PosesInOrder, OnTheWay
<1>3. CASE mpc \notin {"queue", "reset"}
  <2>1. OnTheWay \o <<>> = OnTheWay
    BY <1>1
  <2>2. QED BY <1>3, <2>1 DEF PosesInOrder, OnTheWay, QueueInv
<1>4. QED BY <1>2, <1>3

(* Poses are neither doubled nor overtaken on their way to the GAP9,       *)
(* whatever the queue drops (uwb_ranging.c:55-68, 388-392).                *)
THEOREM PosesInOrderTheorem == Spec => []PosesInOrder
<1>1. Types /\ Counted /\ QueueInv /\ [Next]_vars => QueueInv'
  BY QueueInvStep
<1>2. Types /\ Counted /\ QueueInv => PosesInOrder
  BY QueueInvOrders
<1>3. QED BY <1>1, <1>2, QueueInvInit, TypesAlways, PTL DEF Spec

LEMMA NoPoseDroppedStep ==
  ASSUME TokenInTime, Types, Counted, NoPoseDropped, [Next]_vars
  PROVE  NoPoseDropped'
<1>1. mpc' # "reset"
  <2>1. SendToQueue => mpc' = "buffer"
    BY DEF NoPoseDropped, SendToQueue
  <2>2. mpc' = "reset" => SendToQueue \/ mpc' = mpc
    BY DEF Next, Mission, AcquirePose, ResetQueue, AddToScanBuffer, GetScanId,
           LockScan, Flight, StartSpin, ValidateScan, StopSpin, Uwb, TakeToken,
           DrainPose, DrainDone, CheckNewScan, SendPacket, SendDone, NotifyGap9,
           Decide, Optimize, Correct, PassOn, vars, otherTasks, missionVars
  <2>3. QED BY <2>1, <2>2 DEF NoPoseDropped
<1>2. mpc' = "queue" => ~QueueFull'
  <2>1. mpc' = "queue" => AcquirePose \/ mpc' = mpc
    BY DEF Next, Mission, SendToQueue, ResetQueue, AddToScanBuffer, GetScanId,
           LockScan, Flight, StartSpin, ValidateScan, StopSpin, Uwb, TakeToken,
           DrainPose, DrainDone, CheckNewScan, SendPacket, SendDone, NotifyGap9,
           Decide, Optimize, Correct, PassOn, vars, otherTasks, missionVars,
           NoPoseDropped
  <2>2. AcquirePose => Len(poseQueue) < QUEUE_SIZE /\ poseQueue' = poseQueue
    BY Sizes, QueueTypes DEF AcquirePose, TurnInTime, TokenInTime
  <2>3. /\ mpc = "queue" => ~QueueFull
        /\ mpc = "queue" /\ mpc' = mpc =>
             \/ poseQueue' = poseQueue
             \/ poseQueue # <<>> /\ poseQueue' = Tail(poseQueue)
    BY QueueStep DEF NoPoseDropped
  <2>4. QED BY <2>1, <2>2, <2>3, QueueTypes, Sizes DEF QueueFull
<1>3. CASE OnTheWay' = OnTheWay /\ Queued' = Queued
  BY <1>1, <1>2, <1>3 DEF NoPoseDropped
<1>4. CASE OnTheWay' = Append(OnTheWay, Queued) /\ Queued' = Queued + 1
  BY <1>1, <1>2, <1>4, WayStep, QueueTypes DEF NoPoseDropped
<1>5. QED BY <1>3, <1>4, WayStep DEF NoPoseDropped

(* While the token is back before the queue is full, the GAP9 finds every  *)
(* pose at the index that is its id (point_cloud.h:83).                    *)
THEOREM IndexIsIdTheorem == ASSUME TokenInTime PROVE Spec => []IndexIsId
<1>1. Init => NoPoseDropped
  BY DEF Init, NoPoseDropped, Queued, OnTheWay
<1>2. Types /\ Counted /\ NoPoseDropped /\ [Next]_vars => NoPoseDropped'
  BY NoPoseDroppedStep
<1>3. ASSUME Types, Counted, NoPoseDropped PROVE IndexIsId
  <2>1. \A k \in 1 .. Len(p_cloud) : k \in 1 .. Len(OnTheWay)
                                     /\ p_cloud[k] = OnTheWay[k]
    BY <1>3, QueueTypes DEF OnTheWay
  <2>2. QED BY <1>3, <2>1 DEF NoPoseDropped, IndexIsId
<1>4. QED BY <1>1, <1>2, <1>3, TypesAlways, PTL DEF Spec
----------------------------------------------------------------------------
(* The history and its lock. *)

(* What a step does to the history: nothing, or a pose is offered to it,   *)
(* which it takes unless it is locked.                                     *)
LEMMA HistoryStep ==
  ASSUME Types, Counted, [Next]_vars
  PROVE  \/ UNCHANGED <<bufferVars, Offered>>
         \/ /\ AddToScanBuffer /\ Offered' = Offered + 1
            /\ Offered = get_last_pose_id /\ Offered \in Nat
            /\ locked => UNCHANGED bufferVars
<1> USE DEF Offered
<1>1. CASE AcquirePose
  BY <1>1, Sizes DEF AcquirePose, Types, MissionTypes, Id
<1>2. CASE SendToQueue \/ ResetQueue \/ GetScanId \/ LockScan
  BY <1>2 DEF SendToQueue, ResetQueue, GetScanId, LockScan
<1>3. CASE AddToScanBuffer
  <2>1. Offered' = Offered + 1 /\ Offered = get_last_pose_id /\ Offered \in Nat
    BY <1>3, Sizes
    DEF AddToScanBuffer, Types, MissionTypes, Id, get_last_pose_id, Counted
  <2>2. locked => UNCHANGED bufferVars
    BY <1>3 DEF AddToScanBuffer
  <2>3. QED BY <1>3, <2>1, <2>2
<1>4. CASE Flight
  BY <1>4 DEF Flight, StartSpin, ValidateScan, StopSpin, missionVars
<1>5. CASE Uwb
  BY <1>5 DEF Uwb, TakeToken, DrainPose, DrainDone, CheckNewScan, SendPacket,
              SendDone, NotifyGap9, Decide, Optimize, Correct, PassOn,
              otherTasks, missionVars
<1>6. CASE UNCHANGED vars
  BY <1>6 DEF vars, otherTasks, missionVars
<1>7. QED BY <1>1, <1>2, <1>3, <1>4, <1>5, <1>6 DEF Next, Mission

(* What a step does to the lock.                                           *)
LEMMA LockStep ==
  ASSUME [Next]_vars
  PROVE  \/ locked' = locked
         \/ LockScan
         \/ Decide
BY DEF Next, Mission, AcquirePose, SendToQueue, ResetQueue, AddToScanBuffer,
       GetScanId, Flight, StartSpin, ValidateScan, StopSpin, Uwb, TakeToken,
       DrainPose, DrainDone, CheckNewScan, SendPacket, SendDone, NotifyGap9,
       Optimize, Correct, PassOn, vars

(* What a step does to the scan that is announced.                         *)
LEMMA AnnounceStep ==
  ASSUME [Next]_vars
  PROVE  \/ UNCHANGED <<scan_id, announced, broadcast_scan>>
         \/ GetScanId
         \/ /\ LockScan /\ UNCHANGED <<scan_id, announced>>
            /\ broadcast_scan' = (broadcast_scan /\ ~ScanComplete)
BY DEF Next, Mission, AcquirePose, SendToQueue, ResetQueue, AddToScanBuffer,
       LockScan, Flight, StartSpin, ValidateScan, StopSpin, Uwb, TakeToken,
       DrainPose, DrainDone, CheckNewScan, SendPacket, SendDone, NotifyGap9,
       Decide, Optimize, Correct, PassOn, vars, otherTasks, missionVars

LEMMA AnnouncedGrows ==
  ASSUME Types, [Next]_vars
  PROVE  /\ ToSet(announced) \subseteq ToSet(announced')
         /\ ~UNCHANGED <<scan_id, announced, broadcast_scan>> /\ broadcast_scan'
              => scan_id' \in ToSet(announced')
<1>1. announced \in Seq(ScanId)
  BY DEF Types, MissionTypes
<1>2. CASE announced' = Append(announced, scan_id')
  <2>1. /\ Len(announced) \in Nat /\ Len(announced') = Len(announced) + 1
        /\ DOMAIN announced = 1 .. Len(announced)
        /\ DOMAIN announced' = 1 .. Len(announced) + 1
        /\ announced'[Len(announced) + 1] = scan_id'
        /\ \A k \in 1 .. Len(announced) : announced'[k] = announced[k]
    BY <1>1, <1>2
  <2>2. scan_id' \in ToSet(announced')
    BY <2>1 DEF ToSet
  <2>3. ASSUME NEW k \in DOMAIN announced PROVE announced[k] \in ToSet(announced')
    <3>1. k \in DOMAIN announced' /\ announced'[k] = announced[k]
      BY <2>1
    <3>2. QED BY <3>1 DEF ToSet
  <2>4. QED BY <2>2, <2>3 DEF ToSet
<1>3. CASE UNCHANGED <<scan_id, announced, broadcast_scan>>
  BY <1>3
<1>4. CASE GetScanId
  BY <1>2, <1>3, <1>4 DEF GetScanId
<1>5. CASE LockScan /\ UNCHANGED <<scan_id, announced>>
           /\ broadcast_scan' = (broadcast_scan /\ ~ScanComplete)
  <2>1. broadcast_scan' => broadcast_scan
    BY <1>5, Zenon
  <2>2. UNCHANGED <<scan_id, announced>> /\ broadcast_scan'
          => broadcast_scan' = broadcast_scan
    <3>1. broadcast_scan \in BOOLEAN
      BY DEF Types, MissionTypes
    <3>2. broadcast_scan' \in BOOLEAN
      BY <1>5, Zenon
    <3>3. QED BY <2>1, <3>1, <3>2
  <2>3. QED BY <1>5, <2>2
<1>6. QED BY <1>3, <1>4, <1>5, AnnounceStep

LEMMA AnnouncedStep ==
  ASSUME Types, broadcast_scan => scan_id \in ToSet(announced), [Next]_vars
  PROVE  broadcast_scan' => scan_id' \in ToSet(announced')
<1>1. CASE UNCHANGED <<scan_id, announced, broadcast_scan>>
  BY <1>1
<1>2. QED BY <1>1, AnnouncedGrows

(* A history that fills up is full before a scan is locked, but for one    *)
(* that begins before the first pose.                                      *)
LEMMA FillsStep ==
  ASSUME Types, Counted, HistoryFills, [Next]_vars,
         broadcast_scan => scan_id \in ToSet(announced)
  PROVE  (HistoryFull \/ HistoryFills \/ HistoryShort)'
<1>1. /\ head \in Slot /\ history \in [Slot -> Id] /\ SCAN_LEN \in Nat \ {0}
      /\ head = Offered /\ ~locked /\ Offered < SCAN_LEN
      /\ \A k \in Slot : history[k] = IF k < head THEN k ELSE 0
  BY Sizes DEF Types, SharedTypes, HistoryFills
<1>2. CASE UNCHANGED <<bufferVars, Offered>>
  <2>1. CASE ~locked'
    BY <1>1, <1>2, <2>1 DEF HistoryFills, bufferVars
  <2>2. CASE locked'
    <3>1. LockScan /\ ScanComplete
      BY <1>1, <2>2, LockStep DEF LockScan, Decide
    <3>2. Offered = pose_cnt /\ pose_cnt \in Nat /\ scan_id \in ScanId
      BY <3>1, Sizes DEF LockScan, Offered, Types, MissionTypes, Id
    <3>3. broadcast_scan /\ pose_cnt - 1 - scan_id >= SCAN_LEN - 1
      BY <3>1 DEF ScanComplete, get_last_pose_id
    <3>4. scan_id = None /\ Offered = SCAN_LEN - 1
      BY <1>1, <3>2, <3>3, Sizes DEF ScanId, Id, None
    <3>5. None \in ToSet(announced)'
      BY <3>3, <3>4, AnnouncedGrows
    <3>6. QED BY <1>1, <1>2, <3>4, <3>5 DEF HistoryShort, bufferVars
  <2>3. QED BY <2>1, <2>2
<1>3. CASE /\ AddToScanBuffer /\ Offered' = Offered + 1
           /\ Offered = get_last_pose_id
  <2>1. /\ history' = [history EXCEPT ![head] = head]
        /\ head' = (head + 1) % SCAN_LEN /\ ~locked'
    BY <1>1, <1>3 DEF AddToScanBuffer
  <2>2. \A k \in Slot : history'[k] = IF k < head + 1 THEN k ELSE 0
    BY <1>1, <2>1 DEF Slot
  <2>3. CASE head + 1 < SCAN_LEN
    <3>1. head' = head + 1
      BY <1>1, <2>1, <2>3, Place, Sizes DEF Slot
    <3>2. QED BY <1>1, <1>3, <2>1, <2>2, <2>3, <3>1 DEF HistoryFills, Slot
  <2>4. CASE head + 1 = SCAN_LEN
    <3>1. head' = 0
      BY <1>1, <2>1, <2>4, Place, Sizes DEF Slot
    <3>2. ASSUME NEW k \in Slot PROVE get_pose_from_scan_buffer(k)' = k
      <4>1. (0 + k) % SCAN_LEN = k /\ k < head + 1
        BY <2>4, Sizes DEF Slot
      <4>2. QED BY <2>2, <3>1, <4>1 DEF get_pose_from_scan_buffer
    <3>3. QED BY <1>1, <1>3, <2>4, <3>2 DEF HistoryFull, Slot
  <2>5. QED BY <1>1, <2>3, <2>4 DEF Slot
<1>4. QED BY <1>2, <1>3, HistoryStep

(* The places of a history whose last slot is left.                        *)
LEMMA ShortPlaces ==
  ASSUME HistoryShort
  PROVE  \A k \in Slot : get_pose_from_scan_buffer(k) = IF k = 0 THEN 0 ELSE k - 1
<1>1. SUFFICES ASSUME NEW k \in Slot
               PROVE  get_pose_from_scan_buffer(k) = IF k = 0 THEN 0 ELSE k - 1
  OBVIOUS
<1>2. head = SCAN_LEN - 1 /\ head \in Slot
  BY Sizes DEF HistoryShort, Slot
<1>3. (head + k) % SCAN_LEN = IF k = 0 THEN SCAN_LEN - 1 ELSE k - 1
  BY <1>2, Place, Sizes DEF Slot
<1>4. /\ SCAN_LEN - 1 \in Slot /\ history[SCAN_LEN - 1] = 0
      /\ k # 0 => k - 1 \in Slot /\ history[k - 1] = k - 1
  BY Sizes DEF HistoryShort, Slot
<1>5. QED BY <1>3, <1>4 DEF get_pose_from_scan_buffer

(* The slot that is left is the next that is written to.                   *)
LEMMA ShortStep ==
  ASSUME Types, Counted, HistoryShort, [Next]_vars
  PROVE  (HistoryFull \/ HistoryShort)'
<1>1. None \in ToSet(announced')
  BY AnnouncedGrows DEF HistoryShort
<1>2. CASE UNCHANGED <<bufferVars, Offered>>
  BY <1>1, <1>2 DEF HistoryShort, bufferVars
<1>3. CASE Offered' = Offered + 1 /\ Offered \in Nat /\ UNCHANGED bufferVars
  BY <1>1, <1>3, Sizes DEF HistoryShort, bufferVars
<1>4. CASE /\ AddToScanBuffer /\ Offered' = Offered + 1 /\ Offered \in Nat
           /\ Offered = get_last_pose_id /\ ~locked
  <2>1. Offered >= SCAN_LEN - 1
    BY DEF HistoryShort
  <2>2. \A k \in Slot : get_pose_from_scan_buffer(k)' =
              IF k = SCAN_LEN - 1 THEN Offered ELSE k
    <3>1. SUFFICES ASSUME NEW k \in Slot
                   PROVE  get_pose_from_scan_buffer(k)' =
                            IF k = SCAN_LEN - 1 THEN Offered ELSE k
      OBVIOUS
    <3>2. CASE k = SCAN_LEN - 1
      BY <1>4, <3>2, Shifted
    <3>3. CASE k # SCAN_LEN - 1
      <4>1. k + 1 \in Slot /\ k + 1 # 0 /\ (k + 1) - 1 = k
        BY <3>3, Sizes DEF Slot
      <4>2. get_pose_from_scan_buffer(k + 1) = k
        BY <4>1, ShortPlaces
      <4>3. QED BY <1>4, <3>3, <4>2, Shifted
    <3>4. QED BY <3>2, <3>3
  <2>3. QED BY <1>4, <2>1, <2>2, Sizes DEF HistoryFull, Slot
<1>5. QED BY <1>2, <1>3, <1>4, HistoryStep

(* A full history drops its oldest pose for each that it takes.            *)
LEMMA FullStep ==
  ASSUME Types, Counted, HistoryFull, [Next]_vars
  PROVE  HistoryFull'
<1>1. CASE UNCHANGED <<bufferVars, Offered>>
  BY <1>1, BufferSame DEF HistoryFull
<1>2. CASE AddToScanBuffer /\ Offered' = Offered + 1 /\ Offered \in Nat
           /\ UNCHANGED bufferVars
  <2>1. \A k \in Slot : get_pose_from_scan_buffer(k) \in Nat
    BY BufferType, Sizes DEF Id
  <2>2. QED BY <1>2, <2>1, BufferSame DEF HistoryFull
<1>3. CASE /\ AddToScanBuffer /\ Offered' = Offered + 1 /\ Offered \in Nat
           /\ Offered = get_last_pose_id /\ ~locked
  <2>1. \A k \in Slot : get_pose_from_scan_buffer(k) \in Nat
    BY BufferType, Sizes DEF Id
  <2>2. \A k \in Slot : get_pose_from_scan_buffer(k)' =
              IF k = SCAN_LEN - 1 THEN Offered
              ELSE get_pose_from_scan_buffer(k + 1)
    BY <1>3, Shifted
  <2>3. \A k \in Slot : k # SCAN_LEN - 1 => k + 1 \in Slot
    BY Sizes DEF Slot
  <2>4. \A k \in Slot : get_pose_from_scan_buffer(k)' < Offered'
    BY <1>3, <2>1, <2>2, <2>3 DEF HistoryFull
  <2>5. ASSUME NEW i \in Slot, NEW k \in Slot, i < k
        PROVE  get_pose_from_scan_buffer(i)' < get_pose_from_scan_buffer(k)'
    <3>1. i + 1 \in Slot /\ i # SCAN_LEN - 1
      BY <2>5, Sizes DEF Slot
    <3>2. CASE k = SCAN_LEN - 1
      BY <2>2, <3>1, <3>2 DEF HistoryFull
    <3>3. CASE k # SCAN_LEN - 1
      <4>1. i + 1 < k + 1
        BY <2>5, Sizes DEF Slot
      <4>2. QED BY <2>2, <2>3, <3>1, <3>3, <4>1 DEF HistoryFull
    <3>4. QED BY <3>2, <3>3
  <2>6. QED BY <2>4, <2>5 DEF HistoryFull
<1>4. QED BY <1>1, <1>2, <1>3, HistoryStep

LEMMA HistoryInvStep ==
  ASSUME Types, Counted, HistoryInv, [Next]_vars PROVE HistoryInv'
BY FillsStep, FullStep, ShortStep, AnnouncedStep DEF HistoryInv

LEMMA HistoryInvInit == Init => HistoryInv
<1> SUFFICES ASSUME Init PROVE HistoryFills /\ ~broadcast_scan
  BY DEF HistoryInv
<1>1. QED BY Sizes DEF Init, HistoryFills, Offered, Slot
----------------------------------------------------------------------------
(* Sending a scan. *)

(* What a step does to the UWB task.                                       *)
LEMMA UwbStep ==
  ASSUME [Next]_vars, ~Uwb
  PROVE  UNCHANGED <<upc, scanVars, gapVars>>
BY DEF Next, Mission, AcquirePose, SendToQueue, ResetQueue, AddToScanBuffer,
       GetScanId, LockScan, Flight, StartSpin, ValidateScan, StopSpin, vars,
       uwbTask, scanVars, gapVars

(* Only the mission task writes to the history, and the UWB task does not  *)
(* announce a scan.                                                        *)
LEMMA UwbKeeps ==
  ASSUME Uwb
  PROVE  /\ UNCHANGED <<bufferVars, missionVars, newScanQueue, Offered>>
         /\ locked' = locked \/ Decide
BY DEF Uwb, TakeToken, DrainPose, DrainDone, CheckNewScan, SendPacket, SendDone,
       NotifyGap9, Decide, Optimize, Correct, PassOn, otherTasks, missionVars,
       Offered

(* A locked history stays as it is.                                        *)
LEMMA LockedSame ==
  ASSUME Types, Counted, [Next]_vars, locked
  PROVE  UNCHANGED bufferVars
BY HistoryStep

LEMMA SendInvStep ==
  ASSUME Types, Counted, SendInv, [Next]_vars PROVE SendInv'
<1>1. sent \in Seq(Id) /\ Len(sent) \in Nat /\ SCAN_LEN \in Nat \ {0}
  BY Sizes DEF Types, UwbTypes
<1>2. CASE ~Uwb
  <2>1. UNCHANGED <<upc, sent>>
    BY <1>2, UwbStep DEF scanVars
  <2>2. upc \in {"send", "notify", "decide"} => locked'
    <3>1. locked => locked'
      BY <1>2, LockStep DEF LockScan, Uwb
    <3>2. QED BY <3>1 DEF SendInv
  <2>3. CASE upc \in {"send", "notify", "decide"}
    <3>1. UNCHANGED bufferVars
      BY <2>3, LockedSame DEF SendInv
    <3>2. QED BY <2>1, <2>2, <2>3, <3>1, BufferSame DEF SendInv
  <2>4. CASE upc \notin {"send", "notify", "decide"}
    <3>1. sent' = <<>> /\ upc' = upc
      BY <2>1, <2>4 DEF SendInv
    <3>2. QED BY <2>4, <3>1 DEF SendInv
  <2>5. QED BY <2>3, <2>4
<1>3. CASE Uwb
  <2>1. UNCHANGED bufferVars /\ (locked' = locked \/ Decide)
    BY <1>3, UwbKeeps
  <2>2. upc' \in {"send", "notify", "decide"} => locked'
    BY <1>3 DEF Uwb, TakeToken, DrainPose, DrainDone, CheckNewScan, SendPacket,
                SendDone, NotifyGap9, Decide, Optimize, Correct, PassOn, SendInv
  <2>3. upc' \notin {"send", "notify", "decide"} => sent' = <<>>
    BY <1>3 DEF Uwb, TakeToken, DrainPose, DrainDone, CheckNewScan, SendPacket,
                SendDone, NotifyGap9, Decide, Optimize, Correct, PassOn, SendInv,
                scanVars
  <2>4. \/ sent' = sent \/ sent' = <<>>
        \/ sent' = Append(sent, get_pose_from_scan_buffer(Len(sent) % SCAN_LEN))
    BY <1>3 DEF Uwb, TakeToken, DrainPose, DrainDone, CheckNewScan, SendPacket,
                SendDone, NotifyGap9, Decide, Optimize, Correct, PassOn, scanVars
  <2>5. \A k \in 1 .. Len(sent') :
          sent'[k] = get_pose_from_scan_buffer((k - 1) % SCAN_LEN)
    <3>1. CASE sent' = sent
      BY <3>1 DEF SendInv
    <3>2. CASE sent' = <<>>
      BY <3>2
    <3>3. CASE sent' = Append(sent, get_pose_from_scan_buffer(Len(sent) % SCAN_LEN))
      <4> DEFINE n == Len(sent)
      <4>1. /\ Len(sent') = n + 1
            /\ sent'[n + 1] = get_pose_from_scan_buffer(n % SCAN_LEN)
            /\ \A k \in 1 .. n : sent'[k] = sent[k]
        BY <1>1, <3>3
      <4>2. (n + 1) - 1 = n /\ \A k \in 1 .. n + 1 : k \in 1 .. n \/ k = n + 1
        BY <1>1
      <4> HIDE DEF n
      <4>3. \A k \in 1 .. n :
              sent[k] = get_pose_from_scan_buffer((k - 1) % SCAN_LEN)
        BY DEF SendInv, n
      <4>4. QED BY <4>1, <4>2, <4>3
    <3>4. QED BY <2>4, <3>1, <3>2, <3>3
  <2>6. \A k \in 1 .. Len(sent') :
          sent'[k] = get_pose_from_scan_buffer((k - 1) % SCAN_LEN)'
    BY <2>1, <2>5, BufferSame
  <2>7. QED BY <2>2, <2>3, <2>6 DEF SendInv
<1>4. QED BY <1>2, <1>3

LEMMA TablesAgreeStep ==
  ASSUME Types, Counted, SendInv, TablesAgree, [Next]_vars PROVE TablesAgree'
<1>1. CASE ~Uwb
  <2>1. UNCHANGED <<upc, scan_poses, int_scan_pose_ids>>
    BY <1>1, UwbStep DEF scanVars, gapVars
  <2>2. CASE upc = "decide"
    <3>1. UNCHANGED bufferVars
      BY <2>2, LockedSame DEF SendInv
    <3>2. QED BY <2>1, <2>2, <3>1, BufferSame DEF TablesAgree
  <2>3. CASE upc # "decide"
    BY <2>1, <2>3 DEF TablesAgree
  <2>4. QED BY <2>2, <2>3
<1>2. CASE Uwb
  <2>1. \A k : get_pose_from_scan_buffer(k)' = get_pose_from_scan_buffer(k)
    BY <1>2, UwbKeeps, BufferSame
  <2>2. CASE NotifyGap9
    BY <2>1, <2>2 DEF NotifyGap9, TablesAgree, scanVars
  <2>3. CASE Decide
    BY <2>3 DEF Decide, TablesAgree, gapVars
  <2>4. CASE ~NotifyGap9 /\ ~Decide
    <3>1. /\ UNCHANGED <<scan_poses, int_scan_pose_ids>>
          /\ upc # "decide" /\ upc' # "decide"
      BY <1>2, <2>4 DEF Uwb, TakeToken, DrainPose, DrainDone, CheckNewScan,
           SendPacket, SendDone, Optimize, Correct, PassOn, scanVars, gapVars
    <3>2. QED BY <3>1 DEF TablesAgree
  <2>5. QED BY <2>2, <2>3, <2>4
<1>3. QED BY <1>1, <1>2

LEMMA OptInvStep ==
  ASSUME Types, Counted, OptInv, [Next]_vars PROVE OptInv'
<1> SUFFICES ASSUME NODE_ID = 0 PROVE OptInv'
  BY DEF OptInv
<1>1. /\ opt_cnt \in Nat \ {0} /\ SCANS_PER_OPT \in Nat \ {0}
      /\ scan_poses \in Seq(Id) /\ Len(scan_poses) \in Nat
  BY Sizes DEF Types, UwbTypes
<1>2. CASE Decide
  <2>1. Len(scan_poses') = Len(scan_poses) + 1 /\ upc' = "optimize"
    BY <1>1, <1>2, BufferType DEF Decide
  <2>2. ~optimize
    BY <1>2 DEF Decide, OptInv
  <2>3. CASE OptimizationDue
    <3>1. opt_cnt' = opt_cnt + 1 /\ Len(scan_poses) = SCANS_PER_OPT * opt_cnt - 1
      BY <1>2, <2>3 DEF Decide, OptimizationDue
    <3>2. /\ SCANS_PER_OPT * (opt_cnt' - 1) = SCANS_PER_OPT * opt_cnt
          /\ SCANS_PER_OPT * opt_cnt' = SCANS_PER_OPT * opt_cnt + SCANS_PER_OPT
      BY <1>1, <3>1
    <3>3. QED BY <1>1, <2>1, <3>1, <3>2 DEF OptInv
  <2>4. CASE ~OptimizationDue
    <3>1. opt_cnt' = opt_cnt /\ ~optimize'
      BY <1>2, <2>2, <2>4 DEF Decide
    <3>2. Len(scan_poses) # SCANS_PER_OPT * opt_cnt - 1
      BY <2>4 DEF OptimizationDue
    <3>3. SCANS_PER_OPT * opt_cnt \in Int /\ SCANS_PER_OPT * (opt_cnt - 1) \in Int
      BY <1>1
    <3>4. QED BY <1>1, <2>1, <3>1, <3>2, <3>3 DEF OptInv
  <2>5. QED BY <2>3, <2>4
<1>3. CASE ~Decide
  <2>1. UNCHANGED <<scan_poses, opt_cnt>>
    BY <1>3, UwbStep
    DEF Uwb, TakeToken, DrainPose, DrainDone, CheckNewScan, SendPacket, SendDone,
        NotifyGap9, Optimize, Correct, PassOn, scanVars
  <2>2. /\ optimize' => optimize
        /\ optimize' /\ upc \in {"optimize", "correct"}
             => upc' \in {"optimize", "correct"}
    <3>1. CASE ~Uwb
      <4>1. upc' = upc /\ optimize' = optimize
        BY <3>1, UwbStep, Zenon DEF scanVars
      <4>2. QED BY <4>1
    <3>2. CASE TakeToken \/ Optimize \/ Correct \/ PassOn
      <4>1. CASE TakeToken
        <5>1. optimize' => optimize
          BY <4>1, Zenon DEF TakeToken
        <5>2. upc \notin {"optimize", "correct"}
          BY <4>1 DEF TakeToken
        <5>3. QED BY <5>1, <5>2, Zenon
      <4>2. CASE Optimize
        BY <4>2, Zenon DEF Optimize
      <4>3. CASE Correct
        BY <4>3, Zenon DEF Correct
      <4>4. CASE PassOn
        BY <4>4, Zenon DEF PassOn, scanVars
      <4>5. QED BY <3>2, <4>1, <4>2, <4>3, <4>4
    <3>3. CASE DrainPose \/ DrainDone \/ CheckNewScan
      BY <3>3 DEF DrainPose, DrainDone, CheckNewScan, scanVars
    <3>4. CASE SendPacket \/ SendDone \/ NotifyGap9
      BY <3>4 DEF SendPacket, SendDone, NotifyGap9, scanVars
    <3>5. QED BY <1>3, <3>1, <3>2, <3>3, <3>4 DEF Uwb
  <2>3. QED BY <2>1, <2>2 DEF OptInv
<1>4. QED BY <1>2, <1>3

LEMMA SendInvInit == Init => SendInv /\ TablesAgree /\ OptInv
<1> SUFFICES ASSUME Init PROVE SendInv /\ TablesAgree /\ OptInv
  OBVIOUS
<1>1. SendInv /\ TablesAgree
  BY DEF Init, SendInv, TablesAgree
<1>2. OptInv
  BY Sizes DEF Init, OptInv
<1>3. QED BY <1>1, <1>2

----------------------------------------------------------------------------
(* What holds at any pace of the three tasks. *)

(* Every step of the three tasks preserves the invariant.                  *)
THEOREM RaceInvariant == Spec => []Inv
<1> DEFINE I == /\ Types /\ Counted /\ QueueInv /\ HistoryInv /\ SendInv
                /\ TablesAgree /\ OptInv
<1>1. Init => I
  BY TypesInit, QueueInvInit, HistoryInvInit, SendInvInit
<1>2. I /\ [Next]_vars => I'
  BY TypesStep, QueueInvStep, HistoryInvStep, SendInvStep, TablesAgreeStep,
     OptInvStep
<1>3. I => Inv
  BY SameTypes DEF Inv
<1> HIDE DEF I
<1>4. QED BY <1>1, <1>2, <1>3, PTL DEF Spec

LEMMA InvIntact == ASSUME Inv PROVE ScanIntact
<1> SUFFICES ASSUME upc \in {"send", "notify"} PROVE ScanIntact
  BY DEF ScanIntact
<1> DEFINE s == [k \in 1 .. SCAN_LEN |-> get_pose_from_scan_buffer(k - 1)]
<1>1. Types /\ (HistoryFull \/ HistoryShort)
  BY SameTypes DEF Inv, SendInv, HistoryInv, HistoryFills
<1>2. ASSUME NEW k \in 1 .. SCAN_LEN - 1,
             k > 1 \/ None \notin ToSet(announced)
      PROVE  s[k] < s[k + 1]
  <2>1. k - 1 \in Slot /\ k \in Slot /\ k - 1 < k /\ (k + 1) - 1 = k
    BY Sizes DEF Slot
  <2>2. get_pose_from_scan_buffer(k - 1) < get_pose_from_scan_buffer(k)
    <3>1. CASE HistoryFull
      BY <2>1, <3>1 DEF HistoryFull
    <3>2. CASE HistoryShort
      <4>1. k > 1
        BY <1>2, <3>2 DEF HistoryShort
      <4>2. QED BY <2>1, <3>2, <4>1, ShortPlaces
    <3>3. QED BY <1>1, <3>1, <3>2
  <2>3. QED BY <2>1, <2>2, Sizes
<1>3. \A k \in Slot : get_pose_from_scan_buffer(k) \in Id
  BY <1>1, BufferType
<1>4. s \in Seq(Id) /\ Len(s) = SCAN_LEN
  <2>1. \A k \in 1 .. SCAN_LEN : k - 1 \in Slot
    BY Sizes DEF Slot
  <2>2. s \in [1 .. SCAN_LEN -> Id]
    BY <1>3, <2>1
  <2>3. QED BY <2>2, Sizes
<1> HIDE DEF s
<1>5. Increasing(IF None \in ToSet(announced) THEN Tail(s) ELSE s)
  <2>1. CASE None \notin ToSet(announced)
    BY <1>2, <1>4, <2>1 DEF Increasing
  <2>2. CASE None \in ToSet(announced)
    <3>1. /\ Len(Tail(s)) = SCAN_LEN - 1
          /\ \A k \in 1 .. SCAN_LEN - 1 : Tail(s)[k] = s[k + 1]
      BY <1>4, Sizes
    <3>2. ASSUME NEW k \in 1 .. Len(Tail(s)) - 1
          PROVE  Tail(s)[k] < Tail(s)[k + 1]
      <4>1. /\ k \in 1 .. SCAN_LEN - 1 /\ k + 1 \in 1 .. SCAN_LEN - 1
            /\ k + 1 > 1
        BY <3>1, Sizes
      <4>2. s[k + 1] < s[(k + 1) + 1]
        BY <1>2, <4>1
      <4>3. QED BY <3>1, <4>1, <4>2
    <3>3. QED BY <2>2, <3>2 DEF Increasing
  <2>3. QED BY <2>1, <2>2
<1>6. QED BY <1>5 DEF Inv, SendInv, ScanIntact, s

(* A scan is sent whole and in order to every drone, although poses are    *)
(* acquired meanwhile (scan_manager.c:99-111, uwb_ranging.c:292-305).      *)
THEOREM ScanIntactTheorem == Spec => []ScanIntact
BY RaceInvariant, InvIntact, PTL

(* The STM32 and the GAP9 have the same scans (uwb_ranging.c:415-427).     *)
THEOREM TablesAgreeTheorem == Spec => []TablesAgree
<1>1. Inv => TablesAgree
  BY DEF Inv
<1>2. QED BY <1>1, RaceInvariant, PTL

(* The quotient of a number that lies between two multiples, and the       *)
(* remainder of a multiple.                                                *)
LEMMA Quotient ==
  ASSUME NEW b \in Nat \ {0}, NEW a \in Nat, NEW q \in Nat,
         q * b <= a, a < q * b + b
  PROVE  a \div b = q
OBVIOUS

LEMMA Remainder ==
  ASSUME NEW b \in Nat \ {0}, NEW a \in Nat, NEW q \in Nat, a = q * b
  PROVE  a % b = 0
OBVIOUS

LEMMA InvOptEvery == ASSUME Inv PROVE OptEveryFourth
<1> SUFFICES ASSUME NODE_ID = 0 PROVE OptEveryFourth
  BY DEF OptEveryFourth
<1>1. /\ opt_cnt - 1 \in Nat /\ SCANS_PER_OPT \in Nat \ {0}
      /\ Len(scan_poses) \in Nat /\ (opt_cnt - 1) + 1 = opt_cnt
  BY Sizes, SameTypes DEF Inv, Types, UwbTypes
<1>2. /\ SCANS_PER_OPT * (opt_cnt - 1) <= Len(scan_poses)
      /\ Len(scan_poses) < SCANS_PER_OPT * opt_cnt
      /\ optimize => Len(scan_poses) = SCANS_PER_OPT * (opt_cnt - 1)
  BY DEF Inv, OptInv
<1>3. /\ Len(scan_poses) \div SCANS_PER_OPT = opt_cnt - 1
      /\ optimize => Len(scan_poses) % SCANS_PER_OPT = 0
  <2> DEFINE q == opt_cnt - 1
             b == SCANS_PER_OPT
  <2>1. /\ b * q = q * b /\ b * (q + 1) = q * b + b
        /\ q \in Nat /\ b \in Nat \ {0}
    BY <1>1
  <2>2. /\ q * b <= Len(scan_poses) /\ Len(scan_poses) < q * b + b
        /\ optimize => Len(scan_poses) = q * b
    BY <1>1, <1>2, <2>1
  <2> HIDE DEF q, b
  <2>3. Len(scan_poses) \div b = q
    BY <1>1, <2>1, <2>2, Quotient
  <2>4. optimize => Len(scan_poses) % b = 0
    BY <1>1, <2>1, <2>2, Remainder
  <2>5. QED BY <2>3, <2>4 DEF q, b
<1>4. QED BY <1>1, <1>3 DEF OptEveryFourth

(* Drone 0 optimises with every fourth scan and no other: its two counters *)
(* never miss each other (uwb_ranging.c:420).                              *)
THEOREM OptEveryFourthTheorem == Spec => []OptEveryFourth
BY RaceInvariant, InvOptEvery, PTL
----------------------------------------------------------------------------
(* What holds at the pace of a mission: scans that are far enough apart. *)

(* The numbers of poses that the argument compares.                        *)
LEMMA Numbers ==
  ASSUME Types
  PROVE  /\ pose_cnt \in Nat /\ get_last_pose_id \in Int /\ Offered \in Int
         /\ get_last_pose_id = pose_cnt - 1
         /\ Offered = IF mpc \in {"queue", "reset", "buffer"} THEN get_last_pose_id
                      ELSE get_last_pose_id + 1
         /\ scan_pose_id \in Int
         /\ \A k \in Slot : get_pose_from_scan_buffer(k) \in Int
         /\ newScanQueue # <<>> => newScanQueue[1] \in Int
         /\ \A k \in 1 .. Len(announced) : announced[k] \in Int
         /\ Len(announced) \in Nat
         /\ announced # <<>> => Len(announced) \in 1 .. Len(announced)
<1>1. pose_cnt \in Nat /\ Id \subseteq Int /\ ScanId \subseteq Int
  BY Sizes DEF Types, MissionTypes, Id, ScanId, None
<1>2. \A k \in Slot : get_pose_from_scan_buffer(k) \in Int
  BY <1>1, BufferType
<1>3. scan_pose_id \in Int
  BY <1>1 DEF Types, FlightTypes
<1>4. newScanQueue # <<>> => newScanQueue[1] \in Int
  <2>1. newScanQueue \in Seq(ScanId)
    BY DEF Types, SharedTypes
  <2>2. newScanQueue # <<>> => newScanQueue[1] \in ScanId
    BY <2>1
  <2>3. QED BY <1>1, <2>2
<1>5. /\ \A k \in 1 .. Len(announced) : announced[k] \in Int
      /\ Len(announced) \in Nat
      /\ announced # <<>> => Len(announced) \in 1 .. Len(announced)
  <2>1. announced \in Seq(ScanId)
    BY DEF Types, MissionTypes
  <2>2. /\ Len(announced) \in Nat
        /\ \A k \in 1 .. Len(announced) : announced[k] \in ScanId
    BY <2>1
  <2>3. announced # <<>> => Len(announced) \in 1 .. Len(announced)
    BY <2>1, <2>2
  <2>4. QED BY <1>1, <2>2, <2>3
<1>6. /\ get_last_pose_id = pose_cnt - 1 /\ get_last_pose_id \in Int
      /\ Offered = IF mpc \in {"queue", "reset", "buffer"} THEN get_last_pose_id
                   ELSE get_last_pose_id + 1
  BY <1>1 DEF get_last_pose_id, Offered
<1>7. Offered \in Int
  BY <1>6
<1>8. QED BY <1>1, <1>2, <1>3, <1>4, <1>5, <1>6, <1>7

(* The scan at hand began long before any place that is far from all that  *)
(* were announced.                                                         *)
LEMMA ScanIsFar ==
  ASSUME Types, ScanIsLastAnnounced, announced # <<>>
  PROVE  /\ scan_id \in Int
         /\ \A n \in Int : FarFromAnnounced(n) => scan_id + SpinGap <= n
BY Numbers DEF ScanIsLastAnnounced, FarFromAnnounced

(* A scan that is acquired or sent is not yet over: no other can begin.    *)
LEMMA NotOver ==
  ASSUME Types, ScansApart, ScanInv, locked \/ broadcast_scan
  PROVE  /\ announced # <<>> /\ scan_id \in Int
         /\ get_last_pose_id < scan_id + SpinGap
         /\ \A n \in Int : n <= get_last_pose_id => ~FarFromAnnounced(n)
<1>1. announced # <<>>
  BY DEF ScanInv, HeldBack, Acquired
<1>2. /\ scan_id \in Int
      /\ \A n \in Int : FarFromAnnounced(n) => scan_id + SpinGap <= n
  BY <1>1, ScanIsFar DEF ScanInv
<1>3. get_last_pose_id < scan_id + SpinGap
  <2>1. CASE locked
    BY <1>2, <2>1, Numbers, Sizes DEF ScanInv, HeldBack, ScansApart
  <2>2. CASE broadcast_scan
    BY <1>2, <2>2, Numbers, Sizes DEF ScanInv, Acquired, ScansApart
  <2>3. QED BY <2>1, <2>2
<1>4. QED BY <1>1, <1>2, <1>3, Numbers, Sizes

(* What a slot holds for a pose of a scan.                                 *)
LEMMA StoredIs == (\A n \in Nat : Stored(n) = n) /\ Stored(None) = 0
BY DEF Stored, None

(* The history keeps up with the poses while it is not locked.             *)
LEMMA ContiguousStep ==
  ASSUME Types, Counted, [Next]_vars, ~locked, NEW f \in Int, Contiguous(f),
         f <= get_last_pose_id
  PROVE  Contiguous(f)'
<1>1. CASE UNCHANGED <<bufferVars, Offered>>
  <2>1. SUFFICES ASSUME NEW k \in Slot, f <= Offered' - SCAN_LEN + k
                 PROVE  get_pose_from_scan_buffer(k)' =
                          Stored(Offered' - SCAN_LEN + k)
    BY DEF Contiguous
  <2>2. QED BY <1>1, <2>1, BufferSame DEF Contiguous
<1>2. CASE /\ AddToScanBuffer /\ Offered' = Offered + 1
           /\ Offered = get_last_pose_id /\ Offered \in Nat
  <2>1. SUFFICES ASSUME NEW k \in Slot, f <= Offered' - SCAN_LEN + k
                 PROVE  get_pose_from_scan_buffer(k)' =
                          Stored(Offered' - SCAN_LEN + k)
    BY DEF Contiguous
  <2>2. get_pose_from_scan_buffer(k)' =
          IF k = SCAN_LEN - 1 THEN Offered ELSE get_pose_from_scan_buffer(k + 1)
    BY <1>2, Shifted
  <2>3. CASE k = SCAN_LEN - 1
    <3>1. Offered' - SCAN_LEN + k = Offered
      BY <1>2, <2>3, Sizes
    <3>2. QED BY <1>2, <2>2, <2>3, <3>1, StoredIs
  <2>4. CASE k # SCAN_LEN - 1
    <3>1. k + 1 \in Slot /\ Offered' - SCAN_LEN + k = Offered - SCAN_LEN + (k + 1)
      BY <1>2, <2>4, Sizes DEF Slot
    <3>2. QED BY <2>1, <2>2, <2>4, <3>1 DEF Contiguous
  <2>5. QED BY <2>3, <2>4
<1>3. QED BY <1>1, <1>2, HistoryStep

LEMMA LastGrows ==
  ASSUME Types, [Next]_vars
  PROVE  /\ pose_cnt' \in {pose_cnt, pose_cnt + 1}
         /\ get_last_pose_id <= get_last_pose_id'
<1>1. pose_cnt' \in {pose_cnt, pose_cnt + 1}
  BY DEF Next, Mission, AcquirePose, SendToQueue, ResetQueue, AddToScanBuffer,
         GetScanId, LockScan, Flight, StartSpin, ValidateScan, StopSpin, Uwb,
         TakeToken, DrainPose, DrainDone, CheckNewScan, SendPacket, SendDone,
         NotifyGap9, Decide, Optimize, Correct, PassOn, vars, otherTasks,
         missionVars
<1>2. QED BY <1>1, Numbers DEF get_last_pose_id

(* Where a scan may begin, it may until another is announced or locked.    *)
LEMMA MayBeginStep ==
  ASSUME Types, Counted, [Next]_vars, ~locked', announced' = announced,
         NEW f \in Int, MayBegin(f)
  PROVE  MayBegin(f)'
<1>1. f <= get_last_pose_id'
  <2>1. get_last_pose_id' \in Int
    BY LastGrows, Numbers DEF get_last_pose_id
  <2>2. QED BY <2>1, LastGrows, Numbers DEF MayBegin
<1>2. Contiguous(f)'
  BY ContiguousStep DEF MayBegin
<1>3. FarFromAnnounced(f)'
  BY DEF MayBegin, FarFromAnnounced
<1>4. QED BY <1>1, <1>2, <1>3 DEF MayBegin
(* Where a scan may begin, none is acquired or sent, and none will be      *)
(* locked by the next step.                                                *)
LEMMA StaysUnlocked ==
  ASSUME Types, Counted, ScansApart, ScanInv, [Next]_vars,
         NEW f \in Int, MayBegin(f)
  PROVE  /\ ~locked /\ ~locked' /\ ~broadcast_scan
         /\ announced' = announced => MayBegin(f)'
<1>1. ~locked /\ ~broadcast_scan
  BY NotOver DEF MayBegin
<1>2. ~locked'
  BY <1>1, LockStep DEF LockScan, ScanComplete, Decide
<1>3. QED BY <1>1, <1>2, MayBeginStep

(* What a step does to the place where a scan is to begin.                 *)
LEMMA ProposeStep ==
  ASSUME [Next]_vars
  PROVE  \/ UNCHANGED <<flightVars, newScanQueue, announced>>
         \/ GetScanId /\ UNCHANGED flightVars
         \/ StartSpin
         \/ ValidateScan
         \/ StopSpin
BY DEF Next, Mission, AcquirePose, SendToQueue, ResetQueue, AddToScanBuffer,
       GetScanId, LockScan, Flight, Uwb, TakeToken, DrainPose, DrainDone,
       CheckNewScan, SendPacket, SendDone, NotifyGap9, Decide, Optimize,
       Correct, PassOn, vars, otherTasks, missionVars

(* What a step does to the round of the mission task.                      *)
LEMMA RoundStep ==
  ASSUME [Next]_vars
  PROVE  \/ AcquirePose
         \/ /\ pose_cnt' = pose_cnt
            /\ \/ mpc' = mpc \/ SendToQueue \/ ResetQueue
               \/ AddToScanBuffer \/ GetScanId \/ LockScan
BY DEF Next, Mission, SendToQueue, ResetQueue, AddToScanBuffer, GetScanId,
       LockScan, Flight, StartSpin, ValidateScan, StopSpin, Uwb, TakeToken,
       DrainPose, DrainDone, CheckNewScan, SendPacket, SendDone, NotifyGap9,
       Decide, Optimize, Correct, PassOn, vars, otherTasks, missionVars

LEMMA ScanIsLastAnnouncedStep ==
  ASSUME Types, ScanIsLastAnnounced, [Next]_vars PROVE ScanIsLastAnnounced'
<1>1. CASE UNCHANGED <<scan_id, announced>>
  BY <1>1 DEF ScanIsLastAnnounced
<1>2. CASE GetScanId /\ ~UNCHANGED <<scan_id, announced>>
  <2>1. announced \in Seq(ScanId) /\ newScanQueue \in Seq(ScanId)
    BY DEF Types, MissionTypes, SharedTypes
  <2>2. announced' = Append(announced, scan_id')
    BY <1>2 DEF GetScanId
  <2>3. /\ Len(announced') = Len(announced) + 1
        /\ announced'[Len(announced) + 1] = scan_id'
    BY <2>1, <2>2
  <2>4. QED BY <2>3 DEF ScanIsLastAnnounced
<1>3. QED BY <1>1, <1>2, AnnounceStep

(* Before the first pose the history is empty.                             *)
LEMMA EmptyHistory ==
  ASSUME Types, HistoryInv, Offered = 0
  PROVE  get_pose_from_scan_buffer(SCAN_LEN - 1) = 0
<1>1. CASE HistoryFull
  BY <1>1, BufferType, Sizes DEF HistoryFull, Id
<1>2. CASE HistoryFills
  <2>1. \A k \in Slot : history[k] = 0
    BY <1>2 DEF HistoryFills, Slot
  <2>2. head \in Slot /\ SCAN_LEN - 1 \in Slot
    BY BufferType DEF Types, SharedTypes
  <2>3. QED BY <2>1, <2>2, Place DEF get_pose_from_scan_buffer
<1>3. CASE HistoryShort
  <2>1. SCAN_LEN - 1 = 0 /\ 0 \in Slot
    BY <1>3, Sizes DEF HistoryShort, Slot
  <2>2. QED BY <1>3, <2>1, ShortPlaces
<1>4. QED BY <1>1, <1>2, <1>3 DEF HistoryInv

LEMMA ProposedStep ==
  ASSUME Types, Counted, HistoryInv, ScansApart, ScanInv, [Next]_vars
  PROVE  Proposed'
<1> SUFFICES ASSUME spinning', scan_token'
             PROVE  newScanQueue' = <<>> /\ MayBegin(scan_pose_id)'
  BY DEF Proposed
<1>1. CASE StartSpin
  <2>1. /\ scan_pose_id' = get_last_pose_id
        /\ UNCHANGED <<announced, mpc, pose_cnt, newScanQueue, locked, bufferVars>>
    BY <1>1 DEF StartSpin, missionVars
  <2>2. announced \in Seq(ScanId) /\ newScanQueue \in Seq(ScanId)
    BY DEF Types, MissionTypes, SharedTypes
  <2>3. FarFromAnnounced(get_last_pose_id)
    <3>1. ASSUME NEW k \in 1 .. Len(announced)
          PROVE  announced[k] + SpinGap <= get_last_pose_id
      <4>1. /\ k \in DOMAIN (announced \o newScanQueue)
            /\ (announced \o newScanQueue)[k] = announced[k]
        BY <2>2
      <4>2. get_last_pose_id >= announced[k] + SpinGap
        BY <1>1, <4>1 DEF StartSpin
      <4>3. QED BY <4>2, Numbers, Sizes
    <3>2. QED BY <3>1 DEF FarFromAnnounced
  <2>4. newScanQueue = <<>>
    <3>1. SUFFICES ASSUME newScanQueue # <<>> PROVE FALSE
      OBVIOUS
    <3>2. Len(newScanQueue) > 0 /\ Len(announced) \in Nat
      BY <2>2, <3>1
    <3>3. /\ Len(announced) + 1 \in DOMAIN (announced \o newScanQueue)
          /\ (announced \o newScanQueue)[Len(announced) + 1] = newScanQueue[1]
      BY <2>2, <3>2
    <3>4. get_last_pose_id >= newScanQueue[1] + SpinGap
      BY <1>1, <3>3 DEF StartSpin
    <3>5. get_last_pose_id - newScanQueue[1] <= ValidateBy + 1
      BY <3>1, Numbers, Sizes DEF ScanInv, Validated
    <3>6. QED BY <3>1, <3>4, <3>5, Numbers, Sizes DEF ScansApart
  <2>5. ~locked
    BY <2>3, NotOver, Numbers
  <2>6. Contiguous(get_last_pose_id)
    <3>1. SUFFICES ASSUME NEW k \in Slot,
                          get_last_pose_id <= Offered - SCAN_LEN + k
                   PROVE  get_pose_from_scan_buffer(k) =
                            Stored(Offered - SCAN_LEN + k)
      BY DEF Contiguous
    <3>2. /\ mpc \notin {"queue", "reset", "buffer"} /\ k = SCAN_LEN - 1
          /\ Offered - SCAN_LEN + k = get_last_pose_id
      BY <3>1, Numbers, Sizes DEF Slot
    <3>3. CASE pose_cnt > 0
      <4>1. Newest = get_last_pose_id
        BY <2>3, <3>2, <3>3 DEF ScanInv, UpToDate
      <4>2. get_last_pose_id \in Nat
        BY <3>3, Numbers
      <4>3. QED BY <3>2, <4>1, <4>2, BufferType, StoredIs
    <3>4. CASE pose_cnt = 0
      <4>1. get_last_pose_id = None /\ Offered = 0
        BY <3>2, <3>4, Numbers DEF None
      <4>2. QED BY <3>2, <4>1, EmptyHistory, StoredIs
    <3>5. QED BY <3>3, <3>4, Numbers
  <2>7. MayBegin(get_last_pose_id)
    BY <2>3, <2>5, <2>6, Numbers DEF MayBegin
  <2>8. \A f \in Int : MayBegin(f) => MayBegin(f)'
    BY <2>1, StaysUnlocked
  <2>9. PICK f \in Int : f = get_last_pose_id
    BY Numbers
  <2>10. MayBegin(f)' /\ f = scan_pose_id'
    BY <2>1, <2>7, <2>8, <2>9
  <2>11. QED BY <2>1, <2>4, <2>10 DEF MayBegin, FarFromAnnounced, Contiguous
<1>2. CASE spinning /\ scan_token /\ UNCHANGED flightVars
  <2>1. newScanQueue = <<>> /\ MayBegin(scan_pose_id)
    BY <1>2 DEF ScanInv, Proposed
  <2>2. newScanQueue' = <<>> /\ announced' = announced
    BY <2>1, <1>2, ProposeStep DEF GetScanId, StartSpin, StopSpin, ValidateScan,
       missionVars, flightVars
  <2>3. PICK f \in Int : f = scan_pose_id
    BY Numbers
  <2>4. MayBegin(f)' /\ f = scan_pose_id'
    BY <1>2, <2>1, <2>2, <2>3, StaysUnlocked DEF flightVars
  <2>5. QED BY <2>2, <2>4 DEF MayBegin, FarFromAnnounced, Contiguous
<1>3. QED BY <1>1, <1>2, ProposeStep DEF ValidateScan, StopSpin, flightVars

LEMMA ValidatedStep ==
  ASSUME Types, Counted, ScansApart, ScanInv, [Next]_vars PROVE Validated'
<1> SUFFICES ASSUME newScanQueue' # <<>>
             PROVE  /\ MayBegin(newScanQueue[1])'
                    /\ get_last_pose_id' - newScanQueue'[1] <=
                         IF mpc' \in {"lock", "frame"} THEN ValidateBy
                         ELSE ValidateBy + 1
  BY DEF Validated
<1>1. CASE ValidateScan
  <2>1. /\ newScanQueue'[1] = scan_pose_id
        /\ get_last_pose_id - scan_pose_id <= ValidateBy
        /\ UNCHANGED <<announced, pose_cnt, mpc>>
    BY <1>1 DEF ValidateScan, missionVars
  <2>2. MayBegin(scan_pose_id)
    BY <1>1 DEF ValidateScan, IsScanValid, ScanInv, Proposed
  <2>3. PICK f \in Int : f = scan_pose_id
    BY Numbers
  <2>4. MayBegin(f)' /\ f = newScanQueue'[1]
    BY <2>1, <2>2, <2>3, StaysUnlocked
  <2>5. get_last_pose_id' = get_last_pose_id
    BY <2>1 DEF get_last_pose_id
  <2>6. get_last_pose_id' - newScanQueue'[1] <= ValidateBy
    BY <2>1, <2>5
  <2>7. get_last_pose_id' - newScanQueue'[1] \in Int
    BY <2>1, <2>5, Numbers
  <2>8. MayBegin(newScanQueue[1])'
    BY <2>4 DEF MayBegin, FarFromAnnounced, Contiguous
  <2>9. QED BY <2>6, <2>7, <2>8, Sizes
<1>2. CASE ~ValidateScan
  <2>1. UNCHANGED <<announced, newScanQueue>> /\ ~(GetScanId /\ newScanQueue # <<>>)
    BY <1>2, ProposeStep DEF GetScanId, StartSpin, StopSpin, missionVars
  <2>2. /\ MayBegin(newScanQueue[1])
        /\ get_last_pose_id - newScanQueue[1] <=
             IF mpc \in {"lock", "frame"} THEN ValidateBy ELSE ValidateBy + 1
    BY <2>1 DEF ScanInv, Validated
  <2>3. PICK f \in Int : f = newScanQueue[1]
    BY <2>1, Numbers
  <2>4. MayBegin(f)' /\ f = newScanQueue'[1]
    BY <2>1, <2>2, <2>3, StaysUnlocked
  <2>5. get_last_pose_id' - newScanQueue'[1] <=
          IF mpc' \in {"lock", "frame"} THEN ValidateBy ELSE ValidateBy + 1
    <3>1. CASE AcquirePose
      <4>1. mpc = "frame" /\ mpc' = "queue" /\ pose_cnt' = pose_cnt + 1
        BY <3>1 DEF AcquirePose
      <4>2. get_last_pose_id' = get_last_pose_id + 1
        BY <4>1, Numbers DEF get_last_pose_id
      <4>3. QED BY <2>2, <2>3, <2>4, <4>1, <4>2, Numbers, Sizes
    <3>2. CASE ~AcquirePose /\ ~GetScanId
      <4>1. get_last_pose_id' = get_last_pose_id
        BY <3>2, RoundStep DEF get_last_pose_id
      <4>2. mpc \in {"lock", "frame"} <=> mpc' \in {"lock", "frame"}
        BY <3>2, RoundStep DEF SendToQueue, ResetQueue, AddToScanBuffer, LockScan
      <4>3. QED BY <2>2, <2>3, <2>4, <4>1, <4>2, Numbers, Sizes
    <3>3. CASE GetScanId
      BY <2>1, <3>3
    <3>4. QED BY <3>1, <3>2, <3>3, RoundStep
  <2>6. QED BY <2>4, <2>5 DEF MayBegin, FarFromAnnounced, Contiguous
<1>3. QED BY <1>1, <1>2
LEMMA AcquiredStep ==
  ASSUME Types, Counted, ScansApart, ScanInv, [Next]_vars PROVE Acquired'
<1> SUFFICES ASSUME broadcast_scan'
             PROVE  /\ announced' # <<>> /\ ~locked'
                    /\ scan_id' <= get_last_pose_id' /\ Contiguous(scan_id)'
                    /\ get_last_pose_id' - scan_id' <=
                         IF mpc' = "frame" THEN SCAN_LEN - 2 ELSE SCAN_LEN - 1
  BY DEF Acquired
<1>1. CASE GetScanId /\ newScanQueue # <<>>
  <2>1. /\ scan_id' = newScanQueue[1] /\ announced' = Append(announced, scan_id')
        /\ UNCHANGED <<pose_cnt, locked, bufferVars, Offered>> /\ mpc' = "lock"
        /\ mpc = "scan"
    <3>1. scan_id' = Head(newScanQueue) /\ Head(newScanQueue) = newScanQueue[1]
      <4>1. newScanQueue \in Seq(ScanId)
        BY DEF Types, SharedTypes
      <4>2. Head(newScanQueue) = newScanQueue[1]
        BY <1>1, <4>1
      <4>3. QED BY <1>1, <4>2 DEF GetScanId
    <3>2. /\ announced' = Append(announced, scan_id')
          /\ UNCHANGED <<pose_cnt, locked, bufferVars>>
          /\ mpc' = "lock" /\ mpc = "scan"
      BY <1>1 DEF GetScanId
    <3>3. Offered' = Offered
      BY <3>2 DEF Offered
    <3>4. QED BY <3>1, <3>2, <3>3
  <2>2. /\ MayBegin(newScanQueue[1])
        /\ get_last_pose_id - newScanQueue[1] <= ValidateBy + 1
    BY <1>1, <2>1 DEF ScanInv, Validated
  <2>3. get_last_pose_id' = get_last_pose_id
    BY <2>1 DEF get_last_pose_id
  <2>4. announced' # <<>>
    BY <2>1 DEF Types, MissionTypes
  <2>5. PICK f \in Int : f = newScanQueue[1]
    BY <1>1, Numbers
  <2>6. Contiguous(f)' /\ f = scan_id'
    BY <2>1, <2>2, <2>5, ContiguousStep DEF MayBegin
  <2>7. Contiguous(scan_id)'
    BY <2>6 DEF Contiguous
  <2>8. ~locked' /\ scan_id' <= get_last_pose_id'
    BY <2>1, <2>2, <2>3 DEF MayBegin
  <2>9. get_last_pose_id' - scan_id' <= SCAN_LEN - 1
    BY <1>1, <2>1, <2>2, <2>3, Numbers, Sizes DEF ScansApart
  <2>10. QED BY <2>1, <2>4, <2>7, <2>8, <2>9
<1>2. CASE /\ UNCHANGED <<scan_id, announced>> /\ broadcast_scan
           /\ LockScan => ~ScanComplete
  <2>1. /\ announced # <<>> /\ ~locked
        /\ scan_id <= get_last_pose_id /\ Contiguous(scan_id)
        /\ get_last_pose_id - scan_id <=
             IF mpc = "frame" THEN SCAN_LEN - 2 ELSE SCAN_LEN - 1
    BY <1>2 DEF ScanInv, Acquired
  <2>2. ~locked'
    BY <1>2, <2>1, LockStep DEF LockScan, Decide
  <2>3. PICK f \in Int : f = scan_id
    BY <1>2, NotOver
  <2>4. Contiguous(f)' /\ f = scan_id'
    BY <1>2, <2>1, <2>3, ContiguousStep
  <2>5. Contiguous(scan_id)'
    BY <2>4 DEF Contiguous
  <2>6. CASE AcquirePose
    <3>1. mpc = "frame" /\ mpc' = "queue" /\ pose_cnt' = pose_cnt + 1
      BY <2>6 DEF AcquirePose
    <3>2. get_last_pose_id' = get_last_pose_id + 1
      BY <3>1, Numbers DEF get_last_pose_id
    <3>3. /\ f <= get_last_pose_id' /\ get_last_pose_id' - f <= SCAN_LEN - 1
      BY <2>1, <2>3, <3>1, <3>2, Numbers, Sizes
    <3>4. QED BY <1>2, <2>1, <2>2, <2>4, <2>5, <3>1, <3>3
  <2>7. CASE ~AcquirePose
    <3>1. get_last_pose_id' = get_last_pose_id
      BY <2>7, RoundStep DEF get_last_pose_id
    <3>2. get_last_pose_id - f <= SCAN_LEN - 1
      BY <2>1, <2>3, Numbers, Sizes
    <3>3. mpc' = "frame" => get_last_pose_id - f <= SCAN_LEN - 2
      <4>1. CASE LockScan
        BY <1>2, <2>3, <4>1, Numbers, Sizes DEF ScanComplete
      <4>2. CASE ~LockScan
        <5>1. mpc' = "frame" => mpc = "frame"
          BY <2>7, <4>2, RoundStep DEF SendToQueue, ResetQueue, AddToScanBuffer,
                                       GetScanId
        <5>2. QED BY <2>1, <2>3, <5>1
      <4>3. QED BY <4>1, <4>2
    <3>4. QED BY <1>2, <2>1, <2>2, <2>3, <2>4, <2>5, <3>1, <3>2, <3>3
  <2>8. QED BY <2>6, <2>7
<1>3. CASE GetScanId /\ newScanQueue = <<>>
  BY <1>2, <1>3 DEF GetScanId, LockScan
<1>4. CASE ~GetScanId
  BY <1>2, <1>4, AnnounceStep DEF LockScan
<1>5. QED BY <1>1, <1>3, <1>4

LEMMA HeldBackStep ==
  ASSUME Types, Counted, ScansApart, ScanInv, [Next]_vars PROVE HeldBack'
<1> SUFFICES ASSUME locked'
             PROVE  /\ announced' # <<>>
                    /\ \A k \in Slot :
                         get_pose_from_scan_buffer(k)' = Stored(scan_id' + k)
                    /\ get_last_pose_id' - (scan_id' + SCAN_LEN - 1) <= MaxLocked
  BY DEF HeldBack
<1>1. CASE ~locked
  <2>1. LockScan /\ ScanComplete
    BY <1>1, LockStep DEF LockScan, Decide
  <2>2. /\ UNCHANGED <<announced, scan_id, pose_cnt, bufferVars>> /\ mpc = "lock"
    BY <2>1 DEF LockScan
  <2>3. /\ announced # <<>> /\ scan_id \in Int /\ Contiguous(scan_id)
        /\ get_last_pose_id = scan_id + SCAN_LEN - 1
        /\ Offered = scan_id + SCAN_LEN
    <3>1. broadcast_scan /\ get_last_pose_id - scan_id >= SCAN_LEN - 1
      BY <2>1 DEF ScanComplete
    <3>2. announced # <<>> /\ scan_id \in Int
      BY <3>1, NotOver
    <3>3. Contiguous(scan_id) /\ get_last_pose_id - scan_id <= SCAN_LEN - 1
      BY <2>2, <3>1 DEF ScanInv, Acquired
    <3>4. QED BY <2>2, <3>1, <3>2, <3>3, Numbers, Sizes
  <2>4. \A k \in Slot : get_pose_from_scan_buffer(k) = Stored(scan_id + k)
    <3>1. ASSUME NEW k \in Slot
          PROVE  get_pose_from_scan_buffer(k) = Stored(scan_id + k)
      <4>1. Offered - SCAN_LEN + k = scan_id + k /\ scan_id <= scan_id + k
        BY <2>3, Sizes DEF Slot
      <4>2. QED BY <2>3, <4>1 DEF Contiguous
    <3>2. QED BY <3>1
  <2>5. \A k \in Slot : get_pose_from_scan_buffer(k)' = Stored(scan_id' + k)
    BY <2>2, <2>4, BufferSame
  <2>6. get_last_pose_id' - (scan_id' + SCAN_LEN - 1) = 0
    BY <2>2, <2>3, Sizes DEF get_last_pose_id
  <2>7. QED BY <2>2, <2>3, <2>5, <2>6, Sizes
<1>2. CASE locked
  <2>1. /\ announced # <<>> /\ scan_id \in Int
        /\ \A k \in Slot : get_pose_from_scan_buffer(k) = Stored(scan_id + k)
        /\ get_last_pose_id - (scan_id + SCAN_LEN - 1) <= MaxLocked
    BY <1>2, NotOver DEF ScanInv, HeldBack
  <2>2. UNCHANGED bufferVars
    BY <1>2, LockedSame
  <2>3. UNCHANGED <<announced, scan_id>>
    <3>1. newScanQueue = <<>>
      BY <1>2 DEF ScanInv, Validated, MayBegin
    <3>2. QED BY <3>1, AnnounceStep DEF GetScanId
  <2>4. get_last_pose_id' - (scan_id + SCAN_LEN - 1) <= MaxLocked
    <3>1. CASE AcquirePose
      <4>1. get_last_pose_id - Newest < MaxLocked /\ pose_cnt' = pose_cnt + 1
        BY <1>2, <3>1 DEF AcquirePose, TurnInTime
      <4>2. Newest = scan_id + (SCAN_LEN - 1)
        <5>1. Newest = Stored(scan_id + (SCAN_LEN - 1))
          BY <2>1, BufferType
        <5>2. scan_id + (SCAN_LEN - 1) \in Nat
          <6>1. scan_id \in ScanId
            BY DEF Types, MissionTypes
          <6>2. scan_id >= None /\ SCAN_LEN >= 2
            BY <6>1, Sizes DEF ScanId, Id, None, ScansApart
          <6>3. QED BY <2>1, <6>2, Sizes DEF None
        <5>3. QED BY <5>1, <5>2, StoredIs
      <4>3. get_last_pose_id' = get_last_pose_id + 1
        BY <4>1, Numbers DEF get_last_pose_id
      <4>4. QED BY <2>1, <4>1, <4>2, <4>3, Numbers, Sizes
    <3>2. CASE ~AcquirePose
      <4>1. get_last_pose_id' = get_last_pose_id
        BY <3>2, RoundStep DEF get_last_pose_id
      <4>2. QED BY <2>1, <4>1
    <3>3. QED BY <3>1, <3>2
  <2>5. \A k \in Slot : get_pose_from_scan_buffer(k)' = Stored(scan_id' + k)
    BY <2>1, <2>2, <2>3, BufferSame
  <2>6. QED BY <2>1, <2>3, <2>4, <2>5
<1>3. QED BY <1>1, <1>2

LEMMA UpToDateStep ==
  ASSUME Types, Counted, ScansApart, ScanInv, [Next]_vars PROVE UpToDate'
<1> SUFFICES ASSUME mpc' \notin {"queue", "reset", "buffer"}, pose_cnt' > 0,
                    FarFromAnnounced(get_last_pose_id)'
             PROVE  Newest' = get_last_pose_id'
  BY DEF UpToDate
<1>1. ~AcquirePose /\ ~SendToQueue
  BY DEF AcquirePose, SendToQueue
<1>2. get_last_pose_id' = get_last_pose_id /\ pose_cnt' = pose_cnt
  BY <1>1, RoundStep DEF get_last_pose_id
<1>3. FarFromAnnounced(get_last_pose_id)
  <2>1. /\ Len(announced') >= Len(announced)
        /\ \A k \in 1 .. Len(announced) : announced'[k] = announced[k]
    <3>1. announced' = announced \/ announced' = Append(announced, scan_id')
      BY AnnounceStep DEF GetScanId
    <3>2. announced \in Seq(ScanId)
      BY DEF Types, MissionTypes
    <3>3. Len(announced) \in Nat
      BY <3>2
    <3>4. CASE announced' = announced
      BY <3>3, <3>4
    <3>5. CASE announced' = Append(announced, scan_id')
      BY <3>2, <3>3, <3>5
    <3>6. QED BY <3>1, <3>4, <3>5
  <2>2. ASSUME NEW k \in 1 .. Len(announced)
        PROVE  announced[k] + SpinGap <= get_last_pose_id
    <3>1. Len(announced') \in Nat
      <4>1. announced' = announced \/ announced' = Append(announced, scan_id')
        BY AnnounceStep DEF GetScanId
      <4>2. announced \in Seq(ScanId)
        BY DEF Types, MissionTypes
      <4>3. QED BY <4>1, <4>2
    <3>2. k \in 1 .. Len(announced')
      BY <2>1, <3>1, Numbers
    <3>3. announced'[k] + SpinGap <= get_last_pose_id'
      BY <3>2 DEF FarFromAnnounced
    <3>4. QED BY <1>2, <2>1, <3>3
  <2>3. QED BY <2>2 DEF FarFromAnnounced
<1>4. ~locked
  BY <1>3, NotOver, Numbers
<1>5. CASE AddToScanBuffer
  <2>1. Newest' = get_pose_from_scan_buffer(SCAN_LEN - 1)'
    <3>1. head' \in Slot
      BY <1>4, <1>5, Shifted
    <3>2. head' + SCAN_LEN - 1 = head' + (SCAN_LEN - 1)
      BY <3>1, Sizes DEF Slot
    <3>3. QED BY <3>2 DEF Newest, get_pose_from_scan_buffer
  <2>2. QED BY <1>2, <1>4, <1>5, <2>1, Shifted, BufferType
<1>6. CASE ~AddToScanBuffer
  <2>1. Newest' = Newest
    BY <1>6, HistoryStep, BufferSame
  <2>2. mpc \notin {"queue", "reset", "buffer"}
    BY <1>1, <1>6, RoundStep DEF ResetQueue, GetScanId, LockScan
  <2>3. QED BY <1>2, <1>3, <2>1, <2>2 DEF ScanInv, UpToDate
<1>7. QED BY <1>5, <1>6

LEMMA ScanInvStep ==
  ASSUME Types, Counted, HistoryInv, ScansApart, ScanInv, [Next]_vars
  PROVE  ScanInv'
BY ScanIsLastAnnouncedStep, ProposedStep, ValidatedStep, AcquiredStep,
   HeldBackStep, UpToDateStep DEF ScanInv
LEMMA ScanInvInit == ASSUME Init PROVE ScanInv /\ SharedInv
<1>1. /\ ~spinning /\ ~broadcast_scan /\ ~locked /\ pose_cnt = 0
      /\ newScanQueue = <<>> /\ announced = <<>> /\ int_scan_pose_ids = <<>>
  BY DEF Init
<1>2. ScanInv
  BY <1>1 DEF ScanInv, ScanIsLastAnnounced, Proposed, Validated, Acquired,
              HeldBack, UpToDate
<1>3. SharedInv
  BY <1>1 DEF SharedInv
<1>4. QED BY <1>2, <1>3

(* The announced scans but for the one on its way are those of the swarm.  *)
LEMMA SharedInvStep ==
  ASSUME Types, Counted, SendInv, ScansApart, ScanInv, SharedInv,
         [Next]_vars
  PROVE  SharedInv'
<1> DEFINE ids == int_scan_pose_ids
           onItsWay == broadcast_scan \/ (locked /\ upc # "decide")
<1>1. announced \in Seq(ScanId) /\ ids \in Seq(Id)
  BY DEF Types, MissionTypes, GapTypes
<1>2. /\ Len(announced) = Len(ids) + IF onItsWay THEN 1 ELSE 0
      /\ \A k \in 1 .. Len(ids) : ids[k] = Stored(announced[k])
  BY DEF SharedInv
<1>3. CASE GetScanId /\ newScanQueue # <<>>
  <2>1. /\ announced' = Append(announced, scan_id') /\ broadcast_scan'
        /\ ids' = ids
    BY <1>3 DEF GetScanId, uwbTask, gapVars
  <2>2. ~onItsWay
    <3>1. MayBegin(newScanQueue[1])
      BY <1>3 DEF ScanInv, Validated
    <3>2. QED BY <1>3, <3>1, Numbers, StaysUnlocked
  <2>3. Len(announced') = Len(ids') + 1
    BY <1>1, <1>2, <2>1, <2>2
  <2>4. \A k \in 1 .. Len(ids') : ids'[k] = Stored(announced'[k])
    BY <1>1, <1>2, <2>1, <2>2
  <2>5. QED BY <2>1, <2>3, <2>4 DEF SharedInv
<1>4. CASE NotifyGap9
  <2>1. /\ ids' = Append(ids, get_pose_from_scan_buffer(0)) /\ locked
        /\ upc = "notify" /\ upc' = "decide"
        /\ UNCHANGED <<announced, broadcast_scan>>
    BY <1>4 DEF NotifyGap9, SendInv, otherTasks, missionVars
  <2>2. ~broadcast_scan
    BY <2>1 DEF ScanInv, Acquired
  <2>3. Len(announced) = Len(ids) + 1
    BY <1>2, <2>1
  <2>4. get_pose_from_scan_buffer(0) = Stored(announced[Len(announced)])
    <3>1. get_pose_from_scan_buffer(0) = Stored(scan_id + 0) /\ announced # <<>>
      BY <2>1, BufferType DEF ScanInv, HeldBack
    <3>2. scan_id \in Int
      BY <2>1, NotOver
    <3>3. QED BY <3>1, <3>2 DEF ScanInv, ScanIsLastAnnounced
  <2>5. /\ Len(ids') = Len(ids) + 1
        /\ ids'[Len(ids) + 1] = Stored(announced[Len(announced)])
        /\ \A k \in 1 .. Len(ids) : ids'[k] = ids[k]
    BY <1>1, <2>1, <2>4
  <2>6. \A k \in 1 .. Len(ids') : k \in 1 .. Len(ids) \/ k = Len(ids) + 1
    BY <1>1, <2>5
  <2>7. \A k \in 1 .. Len(ids') : ids'[k] = Stored(announced'[k])
    BY <1>2, <2>1, <2>3, <2>5, <2>6
  <2>8. Len(announced') = Len(ids') + 0
    BY <1>1, <2>1, <2>3, <2>5
  <2>9. QED BY <2>1, <2>2, <2>7, <2>8 DEF SharedInv
<1>5. CASE ~NotifyGap9 /\ ~(GetScanId /\ newScanQueue # <<>>)
  <2>1. ids' = ids
    <3>1. CASE ~Uwb
      BY <3>1, UwbStep DEF gapVars
    <3>2. CASE Uwb
      BY <1>5, <3>2
      DEF Uwb, TakeToken, DrainPose, DrainDone, CheckNewScan, SendPacket,
          SendDone, Decide, Optimize, Correct, PassOn, gapVars
    <3>3. QED BY <3>1, <3>2
  <2>2. announced' = announced
    BY <1>5, AnnounceStep DEF GetScanId
  <2>3. onItsWay' <=> onItsWay
    <3>1. CASE LockScan
      <4>1. ScanComplete => upc # "decide" /\ broadcast_scan /\ ~locked
        BY DEF ScanComplete, ScanInv, Acquired, SendInv
      <4>2. /\ locked' = (locked \/ ScanComplete) /\ upc' = upc
            /\ broadcast_scan' = (broadcast_scan /\ ~ScanComplete)
        BY <3>1 DEF LockScan, uwbTask
      <4>3. CASE ScanComplete
        BY <4>1, <4>2, <4>3
      <4>4. CASE ~ScanComplete
        <5>1. (locked' <=> locked) /\ (broadcast_scan' <=> broadcast_scan)
          BY <4>2, <4>4, Zenon
        <5>2. QED BY <4>2, <5>1
      <4>5. QED BY <4>3, <4>4
    <3>2. CASE Decide
      <4>1. upc = "decide" /\ ~locked' /\ broadcast_scan' = broadcast_scan
        BY <3>2 DEF Decide, otherTasks, missionVars
      <4>2. QED BY <4>1
    <3>3. CASE ~LockScan /\ ~Decide
      <4>1. locked' = locked
        BY <3>3, LockStep
      <4>2. broadcast_scan' = broadcast_scan
        BY <1>5, <3>3, AnnounceStep DEF GetScanId
      <4>3. upc' = "decide" <=> upc = "decide"
        <5>1. CASE ~Uwb
          BY <5>1, UwbStep
        <5>2. CASE Uwb
          BY <1>5, <3>3, <5>2
          DEF Uwb, TakeToken, DrainPose, DrainDone, CheckNewScan, SendPacket,
              SendDone, Optimize, Correct, PassOn
        <5>3. QED BY <5>1, <5>2
      <4>4. QED BY <4>1, <4>2, <4>3
    <3>4. QED BY <3>1, <3>2, <3>3
  <2>4. QED BY <1>2, <2>1, <2>2, <2>3 DEF SharedInv
<1>6. QED BY <1>3, <1>4, <1>5

(* Every step of the three tasks preserves what holds at that pace.        *)
LEMMA PacedInvariant ==
  ASSUME ScansApart PROVE Spec => [](Inv /\ ScanInv /\ SharedInv)
<1> DEFINE I == Inv /\ ScanInv /\ SharedInv
           J == ScanInv /\ SharedInv
<1>1. Init => J
  BY ScanInvInit
<1>2. Inv /\ J /\ [Next]_vars => J'
  BY ScanInvStep, SharedInvStep, SameTypes DEF Inv
<1>3. Inv /\ J => I
  OBVIOUS
<1> HIDE DEF I, J
<1>4. Spec => []I
  BY <1>1, <1>2, <1>3, RaceInvariant, PTL DEF Spec
<1>5. QED BY <1>4 DEF I

(* A scan that is sent holds the poses from its validated start, without a *)
(* gap, when it is validated before it would be complete and the next one  *)
(* begins after it was sent (scan_manager.c:86-111, app_main.c:157-170).   *)
THEOREM ScanFromItsStartTheorem ==
  ASSUME ScansApart PROVE Spec => []ScanFromItsStart
<1>1. Inv /\ ScanInv /\ SharedInv => ScanFromItsStart
  BY DEF Inv, SendInv, ScanInv, HeldBack, ScanFromItsStart
<1>2. QED BY <1>1, PacedInvariant, PTL

(* The swarm has every scan that was announced to the PC but for the one   *)
(* on its way, in that order (app_main.c:160-170, uwb_ranging.c:415-427).  *)
THEOREM EveryScanSharedTheorem ==
  ASSUME ScansApart PROVE Spec => []EveryScanShared
<1>1. Inv /\ ScanInv /\ SharedInv => EveryScanShared
  <2> SUFFICES ASSUME Inv, SharedInv PROVE EveryScanShared
    OBVIOUS
  <2> DEFINE ids == int_scan_pose_ids
  <2>1. announced \in Seq(ScanId) /\ ids \in Seq(Id)
    BY SameTypes DEF Inv, Types, MissionTypes, GapTypes
  <2>2. /\ Len(ids) \in Nat /\ Len(announced) \in Nat
        /\ Len(ids) <= Len(announced) /\ Len(announced) <= Len(ids) + 1
        /\ \A k \in 1 .. Len(ids) : ids[k] = Stored(announced[k])
    BY <2>1 DEF SharedInv
  <2> DEFINE shared == [k \in DOMAIN announced |-> Stored(announced[k])]
  <2>3. /\ shared \in Seq(Id) /\ Len(shared) = Len(announced)
        /\ \A k \in 1 .. Len(announced) : shared[k] = Stored(announced[k])
    <3>1. DOMAIN announced = 1 .. Len(announced)
      BY <2>1
    <3>2. ASSUME NEW k \in 1 .. Len(announced) PROVE Stored(announced[k]) \in Id
      <4>1. announced[k] \in ScanId
        BY <2>1, <3>2
      <4>2. QED BY <4>1, Sizes DEF ScanId, Id, Stored, None
    <3>3. shared \in [1 .. Len(announced) -> Id]
      BY <3>1, <3>2
    <3>4. QED BY <2>2, <3>1, <3>3
  <2> HIDE DEF shared
  <2>4. SubSeq(ids, 1, Len(ids)) = SubSeq(shared, 1, Len(ids))
    <3>1. /\ SubSeq(ids, 1, Len(ids)) = [k \in 1 .. Len(ids) |-> ids[k]]
          /\ SubSeq(shared, 1, Len(ids)) = [k \in 1 .. Len(ids) |-> shared[k]]
      BY <2>1, <2>2, <2>3
    <3>2. \A k \in 1 .. Len(ids) : ids[k] = shared[k]
      BY <2>2, <2>3
    <3>3. QED BY <3>1, <3>2
  <2>5. IsPrefix(ids, shared)
    BY <2>2, <2>3, <2>4 DEF IsPrefix
  <2>6. QED BY <2>2, <2>5 DEF EveryScanShared, shared
<1>2. QED BY <1>1, PacedInvariant, PTL
=============================================================================
