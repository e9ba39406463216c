---------------------------- MODULE ScanManager ----------------------------
(***************************************************************************)
(* How a drone turns its own poses into scans: the mission task acquires   *)
(* augmented poses, the flight task proposes the pose a scan starts at,    *)
(* the UWB task feeds the poses to the GAP9, broadcasts the scan and tells *)
(* both the GAP9 and the graph optimisation about it.                      *)
(*                                                                         *)
(* The three FreeRTOS tasks share poseQueue, newScanQueue, the history of  *)
(* the last SCAN_LEN poses and its lock; each action is what one task does *)
(* between two points at which another may run.  A pose is its id.         *)
(***************************************************************************)
EXTENDS Integers, Sequences, SequencesExt

CONSTANTS
  NODE_ID, NR_OF_NODES,   \* this drone, and the size of the swarm
  SCAN_LEN,        \* poses of a scan, and of the history (20)
  QUEUE_SIZE,      \* capacity of poseQueue (100)
  SCANS_PER_OPT,   \* scans between two optimisations (4)
  MaxPoses,        \* bound: poses acquired in the mission
  TokenBy,         \* the token is back before more poses are queued
  MaxLocked,       \* poses acquired before the scan that is locked is sent
  ValidateBy,      \* a scan is validated at most so many poses after its start
  SpinGap          \* poses from the start of a scan to that of the next one

ASSUME ScanAssumption ==
  /\ NR_OF_NODES \in Nat /\ NODE_ID \in 0 .. NR_OF_NODES - 1
  /\ {SCAN_LEN, QUEUE_SIZE, SCANS_PER_OPT} \subseteq Nat \ {0}
  /\ {MaxPoses, TokenBy, MaxLocked, ValidateBy, SpinGap} \subseteq Nat

VARIABLES
  mpc, pose_cnt, scan_id, broadcast_scan,       \* mission task
  announced,                                    \* scan ids sent to the PC
  spinning, scan_pose_id, scan_token,           \* flight task
  travelled,                                    \* more than 1 m since reset
  poseQueue, newScanQueue, history, head, locked,  \* shared
  upc, sent, scan_poses, opt_cnt, optimize, unopt, \* UWB task
  p_cloud, int_scan_pose_ids                    \* GAP9

missionVars == <<mpc, pose_cnt, scan_id, broadcast_scan, announced>>
flightVars  == <<spinning, scan_pose_id, scan_token>>
bufferVars  == <<history, head>>
scanVars    == <<sent, scan_poses, opt_cnt, optimize, unopt>>
gapVars     == <<p_cloud, int_scan_pose_ids>>
uwbTask     == <<upc, scanVars, gapVars>>
otherTasks  == <<missionVars, flightVars, travelled, newScanQueue, bufferVars>>
vars == <<otherTasks, poseQueue, locked, uwbTask>>

None == -1                              \* get_last_pose_id before a pose
Id == 0 .. MaxPoses
ScanId == Id \cup {None}
Slot == 0 .. SCAN_LEN - 1
Dests == NR_OF_NODES - NODE_ID - 1      \* the drones with a higher id

TypeOK ==
  /\ mpc \in {"frame", "queue", "reset", "buffer", "scan", "lock"}
  /\ upc \in {"wait", "drain", "range", "send", "notify", "decide",
              "optimize", "correct"}
  /\ pose_cnt \in Id /\ {scan_id, scan_pose_id, unopt} \subseteq ScanId
  /\ {broadcast_scan, spinning, scan_token, travelled, locked, optimize}
       \subseteq BOOLEAN
  /\ history \in [Slot -> Id] /\ head \in Slot
  /\ opt_cnt \in Nat \ {0}
  /\ {sent, scan_poses, p_cloud, int_scan_pose_ids, poseQueue} \subseteq Seq(Id)
  /\ {announced, newScanQueue} \subseteq Seq(ScanId)
  /\ Len(poseQueue) <= QUEUE_SIZE /\ Len(newScanQueue) <= 1

get_last_pose_id == pose_cnt - 1
get_pose_from_scan_buffer(idx) == history[(head + idx) % SCAN_LEN]
Newest == history[(head + SCAN_LEN - 1) % SCAN_LEN]

Init ==
  /\ mpc = "frame" /\ pose_cnt = 0 /\ scan_id = None
  /\ broadcast_scan = FALSE /\ announced = <<>>
  /\ spinning = FALSE /\ scan_pose_id = 0 /\ scan_token = TRUE
  /\ travelled = FALSE /\ poseQueue = <<>> /\ newScanQueue = <<>>
  /\ history = [s \in Slot |-> 0] /\ head = 0 /\ locked = FALSE
  /\ upc = "wait" /\ sent = <<>> /\ scan_poses = <<>>
  /\ opt_cnt = 1 /\ optimize = FALSE /\ unopt = None
  /\ p_cloud = <<>> /\ int_scan_pose_ids = <<>>

----------------------------------------------------------------------------
(* Mission task: one round for every pose. *)

(* The environment's pace, as far as a run assumes one.                    *)
TurnInTime ==
  /\ Len(poseQueue) < TokenBy
  /\ locked => get_last_pose_id - Newest < MaxLocked

AcquirePose ==
  /\ mpc = "frame" /\ pose_cnt < MaxPoses /\ TurnInTime
  /\ pose_cnt' = pose_cnt + 1
  /\ travelled' \in {travelled, TRUE}
  /\ mpc' = "queue"
  /\ UNCHANGED <<scan_id, broadcast_scan, announced, flightVars, poseQueue,
                 newScanQueue, bufferVars, locked, uwbTask>>

(* Mutant: the pose is put in front of the ones that wait.                 *)
EnqueuedInFront(pose) == <<pose>> \o poseQueue

Enqueued(pose) == Append(poseQueue, pose)

(* Mutant: the last free place of the queue is taken for none.             *)
QueueFullEarly == Len(poseQueue) >= QUEUE_SIZE - 1

QueueFull == Len(poseQueue) = QUEUE_SIZE

(* The pose is put in where there is a place; the UWB task takes poses out *)
(* at any time, ...                                                        *)
SendToQueue ==
  /\ mpc = "queue"
  /\ \/ /\ ~QueueFull /\ mpc' = "buffer"
        /\ poseQueue' = Enqueued(get_last_pose_id)
     \/ /\ QueueFull /\ mpc' = "reset"
        /\ UNCHANGED poseQueue
  /\ UNCHANGED <<pose_cnt, scan_id, broadcast_scan, announced, flightVars,
                 travelled, newScanQueue, bufferVars, locked, uwbTask>>

(* ... also before a queue that was full is emptied.                       *)
ResetQueue ==
  /\ mpc = "reset" /\ mpc' = "queue"
  /\ poseQueue' = <<>>
  /\ UNCHANGED <<pose_cnt, scan_id, broadcast_scan, announced, flightVars,
                 travelled, newScanQueue, bufferVars, locked, uwbTask>>

(* Mutant: the lock is ignored.                                            *)
AddAnyway ==
  /\ mpc = "buffer" /\ mpc' = "scan"
  /\ history' = [history EXCEPT ![head] = get_last_pose_id]
  /\ head' = (head + 1) % SCAN_LEN
  /\ UNCHANGED <<pose_cnt, scan_id, broadcast_scan, announced, flightVars,
                 travelled, poseQueue, newScanQueue, locked, uwbTask>>

(* Mutant: the head of the ring buffer does not wrap around.               *)
AddNoWrap ==
  /\ mpc = "buffer" /\ mpc' = "scan"
  /\ \/ locked /\ UNCHANGED bufferVars
     \/ /\ ~locked /\ head \in Slot
        /\ history' = [history EXCEPT ![head] = get_last_pose_id]
        /\ head' = head + 1
  /\ UNCHANGED <<pose_cnt, scan_id, broadcast_scan, announced, flightVars,
                 travelled, poseQueue, newScanQueue, locked, uwbTask>>

AddToScanBuffer ==
  /\ mpc = "buffer" /\ mpc' = "scan"
  /\ \/ locked /\ UNCHANGED bufferVars
     \/ /\ ~locked
        /\ history' = [history EXCEPT ![head] = get_last_pose_id]
        /\ head' = (head + 1) % SCAN_LEN
  /\ UNCHANGED <<pose_cnt, scan_id, broadcast_scan, announced, flightVars,
                 travelled, poseQueue, newScanQueue, locked, uwbTask>>

GetScanId ==
  /\ mpc = "scan" /\ mpc' = "lock"
  /\ \/ /\ newScanQueue # <<>>
        /\ scan_id' = Head(newScanQueue)
        /\ newScanQueue' = <<>>
        /\ announced' = Append(announced, scan_id')
        /\ broadcast_scan' = TRUE
        /\ travelled' = FALSE
     \/ /\ newScanQueue = <<>>
        /\ UNCHANGED <<scan_id, newScanQueue, announced, broadcast_scan, travelled>>
  /\ UNCHANGED <<pose_cnt, flightVars, poseQueue, bufferVars, locked, uwbTask>>

(* Mutant: one pose too many is waited for.                                *)
ScanCompleteLate == broadcast_scan /\ get_last_pose_id - scan_id >= SCAN_LEN

(* The scan is complete: SCAN_LEN poses since its first.                   *)
ScanComplete == broadcast_scan /\ get_last_pose_id - scan_id >= SCAN_LEN - 1

(* Mutant: the scan stays pending after it was locked.                     *)
LockAgain ==
  /\ mpc = "lock" /\ mpc' = "frame"
  /\ locked' = (locked \/ ScanComplete)
  /\ UNCHANGED <<pose_cnt, scan_id, broadcast_scan, announced, flightVars,
                 travelled, poseQueue, newScanQueue, bufferVars, uwbTask>>

LockScan ==
  /\ mpc = "lock" /\ mpc' = "frame"
  /\ locked' = (locked \/ ScanComplete)
  /\ broadcast_scan' = (broadcast_scan /\ ~ScanComplete)
  /\ UNCHANGED <<pose_cnt, scan_id, announced, flightVars, travelled,
                 poseQueue, newScanQueue, bufferVars, uwbTask>>

Mission ==
  \/ AcquirePose \/ SendToQueue \/ ResetQueue \/ AddToScanBuffer
  \/ GetScanId \/ LockScan

----------------------------------------------------------------------------
(* Flight task: the states of explore() that matter to a scan. *)

(* The drone has stopped at an obstacle and starts to spin; it proposes a  *)
(* scan only where a wall is near (scan_token).  The last pose is None if  *)
(* the mission task has skipped every frame so far.                        *)
StartSpin ==
  /\ ~spinning /\ spinning' = TRUE
  /\ \A k \in DOMAIN (announced \o newScanQueue) :
       get_last_pose_id >= (announced \o newScanQueue)[k] + SpinGap
  /\ scan_pose_id' = get_last_pose_id
  /\ scan_token' \in BOOLEAN
  /\ UNCHANGED <<missionVars, travelled, poseQueue, newScanQueue, bufferVars,
                 locked, uwbTask>>

(* The scan is valid: proposed at most once, and not near the last one.    *)
(* When the drone has spun for 2 s and no other drone is near is left open.*)
IsScanValid == travelled /\ scan_token

ValidateScan ==
  /\ spinning /\ IsScanValid
  /\ get_last_pose_id - scan_pose_id <= ValidateBy
  /\ newScanQueue' = <<scan_pose_id>>
  /\ scan_token' = FALSE
  /\ UNCHANGED <<missionVars, spinning, scan_pose_id, travelled, poseQueue,
                 bufferVars, locked, uwbTask>>

StopSpin ==
  /\ spinning /\ spinning' = FALSE
  /\ UNCHANGED <<missionVars, scan_pose_id, scan_token, travelled, poseQueue,
                 newScanQueue, bufferVars, locked, uwbTask>>

Flight == StartSpin \/ ValidateScan \/ StopSpin

----------------------------------------------------------------------------
(* UWB task: one turn with the token, and the GAP9 that serves it. *)

(* The token arrives; a TOKENOPT also asks to optimise in this turn.       *)
TakeToken ==
  /\ upc = "wait" /\ upc' = "drain"
  /\ \/ optimize' = optimize
     \/ NODE_ID # 0 /\ optimize' = TRUE
  /\ UNCHANGED <<otherTasks, poseQueue, locked, sent, scan_poses, opt_cnt,
                 unopt, gapVars>>

DrainPose ==
  /\ upc = "drain" /\ poseQueue # <<>>
  /\ p_cloud' = Append(p_cloud, Head(poseQueue))
  /\ poseQueue' = Tail(poseQueue)
  /\ UNCHANGED <<otherTasks, locked, upc, scanVars, int_scan_pose_ids>>

(* Nothing is left to send: range with the other drones.                   *)
DrainDone ==
  /\ upc = "drain" /\ poseQueue = <<>> /\ upc' = "range"
  /\ UNCHANGED <<otherTasks, poseQueue, locked, scanVars, gapVars>>

(* Mutant: a scan that the list of scans has no room for is skipped.       *)
CheckRoom ==
  /\ upc = "range"
  /\ upc' = IF locked /\ scan_poses = <<>> THEN "send" ELSE "optimize"
  /\ UNCHANGED <<otherTasks, poseQueue, locked, scanVars, gapVars>>

CheckNewScan ==
  /\ upc = "range"
  /\ upc' = IF locked THEN "send" ELSE "optimize"
  /\ UNCHANGED <<otherTasks, poseQueue, locked, scanVars, gapVars>>

(* The scan goes to every higher drone, a pose in a packet.                *)
SendPacket ==
  /\ upc = "send" /\ Len(sent) < Dests * SCAN_LEN
  /\ sent' = Append(sent, get_pose_from_scan_buffer(Len(sent) % SCAN_LEN))
  /\ UNCHANGED <<otherTasks, poseQueue, locked, upc, scan_poses, opt_cnt,
                 optimize, unopt, gapVars>>

SendDone ==
  /\ upc = "send" /\ Len(sent) = Dests * SCAN_LEN /\ upc' = "notify"
  /\ UNCHANGED <<otherTasks, poseQueue, locked, scanVars, gapVars>>

(* Mutant: the lock is released before the scan has been stored.           *)
NotifyUnlocked ==
  /\ upc = "notify" /\ upc' = "decide" /\ locked' = FALSE
  /\ int_scan_pose_ids' =
       Append(int_scan_pose_ids, get_pose_from_scan_buffer(0))
  /\ UNCHANGED <<otherTasks, poseQueue, scanVars, p_cloud>>

(* SCAN_CMD: the GAP9 matches the scan with the earlier ones, stores it.   *)
NotifyGap9 ==
  /\ upc = "notify" /\ upc' = "decide"
  /\ int_scan_pose_ids' =
       Append(int_scan_pose_ids, get_pose_from_scan_buffer(0))
  /\ UNCHANGED <<otherTasks, poseQueue, locked, scanVars, p_cloud>>

(* Mutant: the scan at hand is taken to be stored already.                 *)
OptimizationDueLate ==
  Len(scan_poses) = SCANS_PER_OPT * opt_cnt /\ NODE_ID = 0

OptimizationDue ==
  Len(scan_poses) = SCANS_PER_OPT * opt_cnt - 1 /\ NODE_ID = 0

(* Drone 0 optimises with every fourth scan; the next scan may be locked.  *)
Decide ==
  /\ upc = "decide" /\ upc' = "optimize"
  /\ optimize' = (optimize \/ OptimizationDue)
  /\ opt_cnt' = IF OptimizationDue THEN opt_cnt + 1 ELSE opt_cnt
  /\ scan_poses' = Append(scan_poses, get_pose_from_scan_buffer(0))
  /\ locked' = FALSE /\ sent' = <<>>
  /\ UNCHANGED <<otherTasks, poseQueue, unopt, gapVars>>

(* The last pose is read, and the GAP9 optimises.                          *)
Optimize ==
  /\ upc = "optimize" /\ optimize /\ upc' = "correct"
  /\ unopt' = get_last_pose_id
  /\ UNCHANGED <<otherTasks, poseQueue, locked, sent, scan_poses, opt_cnt,
                 optimize, gapVars>>

(* The state estimate is moved by what the optimisation did to that pose.  *)
Correct ==
  /\ upc = "correct" /\ upc' = "wait"
  /\ unopt' = None /\ optimize' = FALSE
  /\ UNCHANGED <<otherTasks, poseQueue, locked, sent, scan_poses, opt_cnt,
                 gapVars>>

PassOn ==
  /\ upc = "optimize" /\ ~optimize /\ upc' = "wait"
  /\ UNCHANGED <<otherTasks, poseQueue, locked, scanVars, gapVars>>

Uwb ==
  \/ TakeToken \/ DrainPose \/ DrainDone \/ CheckNewScan \/ SendPacket
  \/ SendDone \/ NotifyGap9 \/ Decide \/ Optimize \/ Correct \/ PassOn

Next == Mission \/ Flight \/ Uwb

Spec == Init /\ [][Next]_vars

(* The UWB task keeps running, and the token comes back (the ring's        *)
(* EveryDroneGetsToken); the other tasks may stop at any point.            *)
FairSpec == Spec /\ WF_vars(Uwb)

----------------------------------------------------------------------------
(* Correctness *)

Increasing(s) == \A k \in 1 .. Len(s) - 1 : s[k] < s[k + 1]

(* A slot of the history that no pose was written to is zero.              *)
Stored(pose) == IF pose = None THEN 0 ELSE pose

(* Every higher drone is sent the same SCAN_LEN poses, in the order they   *)
(* were acquired, although the mission task keeps acquiring meanwhile      *)
(* (the lock of scan_manager.c:99-111, uwb_ranging.c:292-305); but for the *)
(* first of them once a scan was announced that begins before the first    *)
(* pose: nothing may have been written to its slot.                        *)
ScanIntact ==
  upc \in {"send", "notify"} =>
    /\ LET scan == [k \in 1 .. SCAN_LEN |-> get_pose_from_scan_buffer(k - 1)]
       IN  Increasing(IF None \in ToSet(announced) THEN Tail(scan) ELSE scan)
    /\ \A k \in 1 .. Len(sent) :
         sent[k] = get_pose_from_scan_buffer((k - 1) % SCAN_LEN)

(* The STM32 (scan_poses) and the GAP9 (int_scan_pose_ids) have the same   *)
(* scans: the id is read again after the GAP9's answer                     *)
(* (uwb_ranging.c:415-427).                                                *)
TablesAgree ==
  int_scan_pose_ids =
    IF upc = "decide" THEN Append(scan_poses, get_pose_from_scan_buffer(0))
                      ELSE scan_poses

(* No pose is duplicated or overtaken on its way to the GAP9, whatever the *)
(* queue drops when it is full (uwb_ranging.c:55-68, 388-392).             *)
PosesInOrder ==
  Increasing(p_cloud \o poseQueue \o
             IF mpc \in {"queue", "reset"} THEN <<get_last_pose_id>> ELSE <<>>)

(* Drone 0 optimises with every fourth scan and with no other one: the     *)
(* counters it compares (uwb_ranging.c:420) never miss each other.         *)
OptEveryFourth ==
  NODE_ID = 0 => /\ opt_cnt = 1 + Len(scan_poses) \div SCANS_PER_OPT
                 /\ optimize => Len(scan_poses) % SCANS_PER_OPT = 0

(* A scan that is locked is sent and the acquisition enabled again         *)
(* (uwb_ranging.c:408-431).                                                *)
ScanUnlocked == locked ~> ~locked

(* The scans of the swarm are those that were announced to the PC, but for *)
(* the one that is still on its way (app_main.c:160-170 against            *)
(* uwb_ranging.c:415-427); a scan that begins before the first pose is     *)
(* announced as -1 and shared as 0.                                        *)
EveryScanShared ==
  /\ IsPrefix(int_scan_pose_ids, [k \in DOMAIN announced |-> Stored(announced[k])])
  /\ Len(announced) <= Len(int_scan_pose_ids) + 1

(* A scan that is sent holds the poses from its validated start, without a *)
(* gap: the history was not held back while one of them was acquired.  One *)
(* that begins before the first pose is a pose short (app_main.c:167).     *)
ScanFromItsStart ==
  upc \in {"send", "notify"} =>
    \A k \in Slot : get_pose_from_scan_buffer(k) = Stored(scan_id + k)

(* The GAP9 finds a pose in its table at the index that is its id, which   *)
(* is how it looks up every pose ("from_id Start extracting from this      *)
(* id", point_cloud.h:83).                                                 *)
IndexIsId == \A k \in 1 .. Len(p_cloud) : p_cloud[k] = k - 1
----------------------------------------------------------------------------
(* Why it is correct: what every step preserves, whatever the pace. *)

(* The poses that the queue and the history have been offered.             *)
Queued == IF mpc \in {"queue", "reset"} THEN pose_cnt - 1 ELSE pose_cnt
Offered == IF mpc \in {"queue", "reset", "buffer"} THEN pose_cnt - 1 ELSE pose_cnt

(* The mission task has acquired a pose before it does anything with one.  *)
Counted == mpc # "frame" => pose_cnt > 0

(* Poses enter the queue in the order of their ids.                        *)
OnTheWay == p_cloud \o poseQueue

QueueInv ==
  /\ Increasing(OnTheWay)
  /\ \A k \in 1 .. Len(OnTheWay) : OnTheWay[k] < Queued

(* The history fills up once and is in order from then on.  It is locked   *)
(* before only for a scan that begins before the first pose: then the last *)
(* slot is left, for as long as every pose comes while it is locked.       *)
HistoryFull ==
  /\ \A i, k \in Slot :
       i < k => get_pose_from_scan_buffer(i) < get_pose_from_scan_buffer(k)
  /\ \A k \in Slot : get_pose_from_scan_buffer(k) < Offered

HistoryFills ==
  /\ ~locked /\ Offered < SCAN_LEN /\ head = Offered
  /\ \A k \in Slot : history[k] = IF k < Offered THEN k ELSE 0

HistoryShort ==
  /\ None \in ToSet(announced)
  /\ Offered >= SCAN_LEN - 1 /\ head = SCAN_LEN - 1
  /\ \A k \in Slot : history[k] = IF k < SCAN_LEN - 1 THEN k ELSE 0

HistoryInv ==
  /\ broadcast_scan => scan_id \in ToSet(announced)
  /\ HistoryFull \/ HistoryFills \/ HistoryShort

(* The lock is held from before the scan is sent until it is stored.       *)
SendInv ==
  /\ upc \in {"send", "notify", "decide"} => locked
  /\ upc \notin {"send", "notify", "decide"} => sent = <<>>
  /\ \A k \in 1 .. Len(sent) :
       sent[k] = get_pose_from_scan_buffer((k - 1) % SCAN_LEN)

(* Drone 0 has stored the scans between two optimisations, less than       *)
(* SCANS_PER_OPT, since the last one it was due to make.                   *)
OptInv ==
  NODE_ID = 0 =>
    /\ SCANS_PER_OPT * (opt_cnt - 1) <= Len(scan_poses)
    /\ Len(scan_poses) < SCANS_PER_OPT * opt_cnt
    /\ optimize => /\ upc \in {"optimize", "correct"}
                   /\ Len(scan_poses) = SCANS_PER_OPT * (opt_cnt - 1)

Inv ==
  TypeOK /\ Counted /\ QueueInv /\ HistoryInv /\ SendInv /\ TablesAgree /\ OptInv

----------------------------------------------------------------------------
(* ... and what every step preserves at the pace of a mission. *)

(* The token is back before the queue is full.                             *)
TokenInTime == TokenBy <= QUEUE_SIZE

(* A scan is validated while it is acquired, and the next one begins after *)
(* the poses that its transmission may hold back.                          *)
ScansApart ==
  /\ ValidateBy <= SCAN_LEN - 2
  /\ SpinGap >= SCAN_LEN + MaxLocked

(* Every pose that was queued is in the table or waits.                    *)
NoPoseDropped ==
  /\ Len(OnTheWay) = Queued
  /\ \A k \in 1 .. Len(OnTheWay) : OnTheWay[k] = k - 1
  /\ mpc # "reset" /\ (mpc = "queue" => ~QueueFull)

(* The history holds the last poses that it was offered, as far as they    *)
(* come after first: there is no gap between them.                         *)
Contiguous(first) ==
  \A k \in Slot :
    first <= Offered - SCAN_LEN + k =>
      get_pose_from_scan_buffer(k) = Stored(Offered - SCAN_LEN + k)

(* All scans that were announced begin so long before pose.                *)
FarFromAnnounced(pose) ==
  \A k \in 1 .. Len(announced) : announced[k] + SpinGap <= pose

(* A scan may begin at first.                                              *)
MayBegin(first) ==
  /\ ~locked /\ first <= get_last_pose_id
  /\ FarFromAnnounced(first) /\ Contiguous(first)

(* One scan after the other is proposed, announced, acquired, sent.        *)
ScanIsLastAnnounced ==
  announced # <<>> => scan_id = announced[Len(announced)]

Proposed ==
  spinning /\ scan_token => newScanQueue = <<>> /\ MayBegin(scan_pose_id)

Validated ==
  newScanQueue # <<>> =>
    /\ MayBegin(newScanQueue[1])
    /\ get_last_pose_id - newScanQueue[1] <=
         IF mpc \in {"lock", "frame"} THEN ValidateBy ELSE ValidateBy + 1

Acquired ==
  broadcast_scan =>
    /\ announced # <<>> /\ ~locked
    /\ scan_id <= get_last_pose_id /\ Contiguous(scan_id)
    /\ get_last_pose_id - scan_id <=
         IF mpc = "frame" THEN SCAN_LEN - 2 ELSE SCAN_LEN - 1

HeldBack ==
  locked =>
    /\ announced # <<>>
    /\ \A k \in Slot : get_pose_from_scan_buffer(k) = Stored(scan_id + k)
    /\ get_last_pose_id - (scan_id + SCAN_LEN - 1) <= MaxLocked

UpToDate ==
  /\ mpc \notin {"queue", "reset", "buffer"} /\ pose_cnt > 0
  /\ FarFromAnnounced(get_last_pose_id)
  => Newest = get_last_pose_id

ScanInv ==
  ScanIsLastAnnounced /\ Proposed /\ Validated /\ Acquired /\ HeldBack /\ UpToDate

(* The scan that is announced and not yet stored is being acquired or sent.*)
SharedInv ==
  /\ Len(announced) = Len(int_scan_pose_ids) +
       IF broadcast_scan \/ (locked /\ upc # "decide") THEN 1 ELSE 0
  /\ \A k \in 1 .. Len(int_scan_pose_ids) :
       int_scan_pose_ids[k] = Stored(announced[k])
=============================================================================
