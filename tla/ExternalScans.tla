--------------------------- MODULE ExternalScans ---------------------------
(***************************************************************************)
(* The scans of other drones: from the drone that acquired them, over UWB, *)
(* to the buffers of a higher drone ME, which forwards them to its GAP9 in *)
(* its own turn; the GAP9 cuts the stream into scans, matches them with    *)
(* the drone's own ones, and keeps the constraints that result up to date. *)
(* (uwb_ranging.c, scan_manager.c:119-149, external_point_cloud.c)         *)
(*                                                                         *)
(* The token goes round from 0 to ME (TokenRing); drones above ME send     *)
(* nothing to it.  A pose of a scan is its drone, the scan's number on     *)
(* that drone (which stands for the id of its first pose) and its place.   *)
(* The value of a pose is its VERSION: how often its drone has optimised.  *)
(***************************************************************************)
EXTENDS Integers, FiniteSets, Sequences, SequencesExt, FiniteSetsExt

CONSTANTS
  ME,           \* the drone that receives
  SCAN_LEN,     \* poses of a scan (20)
  MAX_SCANS,    \* places of the table of external scans (20)
  BUF_SIZE,     \* places for external poses on the STM32 (100)
  ATTEMPTS,     \* how often a packet is sent until it is acknowledged (3)
  MaxScans, MaxOptimized,     \* bounds: scans, optimisations of any drone, ...
  ScansOf, OptimizationsOf,   \* ... and of each one
  MaxFaulty,    \* packets of scans that arrive never, or more than once
  MaxUpdLost,   \* packets of updates whose attempts all fail
  MaxSkipped    \* turns of ME that the ring skips

ASSUME ExternalAssumption ==
  /\ {ME, SCAN_LEN, MAX_SCANS, BUF_SIZE, ATTEMPTS} \subseteq Nat \ {0}
  /\ {MaxScans, MaxOptimized, MaxFaulty, MaxUpdLost, MaxSkipped} \subseteq Nat
  /\ ScansOf \in [0 .. ME -> 0 .. MaxScans]
  /\ OptimizationsOf \in [0 .. ME - 1 -> 0 .. MaxOptimized]

VARIABLES
  turn, phase,        \* the drone that has the token, and what it does
  scans,              \* scans each drone has acquired
  version,            \* optimisations each sender has made
  left,               \* packets of the scan being sent that are left
  faults,             \* history: faulty packets, turns skipped
  gap9_ext_aug_pose_buf, gap9_pose_buf,   \* the buffers on the STM32
  ext_scan_table, ext_scan_table_idx, ext_aug_pose_idx,
  ext_pose_upd_table, ext_const_table,    \* on the GAP9
  latest              \* history: newest version of a scan the GAP9 was told

ringVars  == <<turn, phase, scans, version, left, faults>>
stmVars   == <<gap9_ext_aug_pose_buf, gap9_pose_buf>>
tableVars == <<ext_scan_table, ext_scan_table_idx, ext_aug_pose_idx>>
gapVars   == <<tableVars, ext_pose_upd_table, ext_const_table, latest>>
vars == <<ringVars, stmVars, gapVars>>

Sender == 0 .. ME - 1
Drone == 0 .. ME
Scan == 1 .. MaxScans
Slot == 0 .. MAX_SCANS - 1
ExtPose == [drone_id : Sender, scan : Scan, place : 0 .. SCAN_LEN - 1]
PoseUpdate == [drone_id : Sender, scan : Scan, version : 0 .. MaxOptimized]
NoPose == [drone_id |-> ME, scan |-> 0, place |-> 0]
ExtScan == [taken : BOOLEAN, from_drone : Sender, pose_id : {0} \cup Scan,
            poses : [0 .. SCAN_LEN - 1 -> ExtPose \cup {NoPose}]]
ExtConstraint == [from_drone : Sender, ref : {0} \cup Scan, cur : Scan,
                  version : 0 .. MaxOptimized]

TypeOK ==
  /\ turn \in Drone
  /\ phase \in {"scan", "send", "update", "flush", "optimize"}
  /\ scans \in [Drone -> 0 .. MaxScans]
  /\ version \in [Sender -> 0 .. MaxOptimized]
  /\ left \in 0 .. SCAN_LEN
  /\ faults \in [faulty : 0 .. MaxFaulty, updLost : 0 .. MaxUpdLost,
                 skipped : 0 .. MaxSkipped]
  /\ gap9_ext_aug_pose_buf \in Seq(ExtPose)
  /\ gap9_pose_buf \in Seq(PoseUpdate)
  /\ ext_scan_table \in [Slot -> ExtScan]
  /\ ext_scan_table_idx \in Slot /\ ext_aug_pose_idx \in 0 .. SCAN_LEN - 1
  /\ ext_pose_upd_table \in Seq(PoseUpdate)
  /\ ext_const_table \in Seq(ExtConstraint)
  /\ latest \in [Sender \X Scan -> 0 .. MaxOptimized]

Init ==
  /\ turn = 0 /\ phase = "scan"
  /\ scans = [d \in Drone |-> 0] /\ version = [s \in Sender |-> 0]
  /\ left = 0
  /\ faults = [faulty |-> 0, updLost |-> 0, skipped |-> 0]
  /\ gap9_ext_aug_pose_buf = <<>> /\ gap9_pose_buf = <<>>
  /\ ext_scan_table =
       [i \in Slot |-> [taken |-> FALSE, from_drone |-> 0, pose_id |-> 0,
                        poses |-> [k \in 0 .. SCAN_LEN - 1 |-> NoPose]]]
  /\ ext_scan_table_idx = 0 /\ ext_aug_pose_idx = 0
  /\ ext_pose_upd_table = <<>> /\ ext_const_table = <<>>
  /\ latest = [p \in Sender \X Scan |-> 0]

----------------------------------------------------------------------------
(* The turn of a lower drone, as ME sees it *)

(* It has a new scan for ME, or none.                                      *)
StartTurn ==
  /\ turn # ME /\ phase = "scan"
  /\ \/ /\ scans[turn] < ScansOf[turn]
        /\ scans' = [scans EXCEPT ![turn] = @ + 1]
        /\ left' = SCAN_LEN /\ phase' = "send"
     \/ phase' = "update" /\ UNCHANGED <<scans, left>>
  /\ UNCHANGED <<turn, version, faults, stmVars, gapVars>>

Packet == [drone_id |-> turn, scan |-> scans[turn], place |-> SCAN_LEN - left]

Sending == turn # ME /\ phase = "send" /\ left > 0

(* Mutant: a packet is sent again although it was acknowledged.            *)
SentTwice ==
  /\ Sending /\ left' = left - 1
  /\ gap9_ext_aug_pose_buf' = gap9_ext_aug_pose_buf \o <<Packet, Packet>>
  /\ UNCHANGED <<turn, phase, scans, version, faults, gap9_pose_buf, gapVars>>

Fault == /\ faults.faulty < MaxFaulty
         /\ faults' = [faults EXCEPT !.faulty = @ + 1]

Copies(n) == gap9_ext_aug_pose_buf \o [k \in 1 .. n |-> Packet]

(* A packet of the scan arrives; it is sent again, and arrives again, when *)
(* its acknowledgement is lost, up to the last attempt.                    *)
PacketArrives ==
  /\ Sending /\ left' = left - 1
  /\ \/ gap9_ext_aug_pose_buf' = Copies(1) /\ UNCHANGED faults
     \/ Fault /\ \E n \in 2 .. ATTEMPTS : gap9_ext_aug_pose_buf' = Copies(n)
  /\ UNCHANGED <<turn, phase, scans, version, gap9_pose_buf, gapVars>>

(* All attempts fail, which is only logged.                                *)
PacketLost ==
  /\ Sending /\ left' = left - 1
  /\ Fault
  /\ UNCHANGED <<turn, phase, scans, version, stmVars, gapVars>>

(* Mutant: the loop over the scan ends one pose too early.                 *)
ScanCut ==
  /\ turn # ME /\ phase = "send" /\ left <= 1
  /\ phase' = "update"
  /\ UNCHANGED <<turn, scans, version, left, faults, stmVars, gapVars>>

ScanSent ==
  /\ turn # ME /\ phase = "send" /\ left = 0
  /\ phase' = "update"
  /\ UNCHANGED <<turn, scans, version, left, faults, stmVars, gapVars>>

Updates(s, v, n) ==
  [k \in 1 .. n |-> [drone_id |-> s, scan |-> k, version |-> v]]

(* After an optimisation it sends the new values of all its scan poses, in *)
(* the order of the scans; it gives up after a packet that is lost.  (One  *)
(* packet has up to eight updates; here a packet may end after each.  One  *)
(* that arrives twice changes nothing.)                                    *)
SendUpdates ==
  /\ turn # ME /\ phase = "update" /\ version[turn] < OptimizationsOf[turn]
  /\ version' = [version EXCEPT ![turn] = @ + 1]
  /\ \E n \in 0 .. scans[turn] :
       /\ gap9_pose_buf' = gap9_pose_buf \o Updates(turn, version'[turn], n)
       /\ \/ n = scans[turn] /\ UNCHANGED faults
          \/ /\ n < scans[turn] /\ faults.updLost < MaxUpdLost
             /\ faults' = [faults EXCEPT !.updLost = @ + 1]
  /\ turn' = turn + 1 /\ phase' = "scan"
  /\ UNCHANGED <<scans, left, gap9_ext_aug_pose_buf, gapVars>>

NoUpdates ==
  /\ turn # ME /\ phase = "update"
  /\ turn' = turn + 1 /\ phase' = "scan"
  /\ UNCHANGED <<scans, version, left, faults, stmVars, gapVars>>

----------------------------------------------------------------------------
(* The turn of ME *)

(* ME did not acknowledge the token in time: the ring goes on without it.  *)
Skipped ==
  /\ turn = ME /\ phase = "scan" /\ faults.skipped < MaxSkipped
  /\ faults' = [faults EXCEPT !.skipped = @ + 1]
  /\ turn' = 0
  /\ UNCHANGED <<phase, scans, version, left, stmVars, gapVars>>

(* ME has a new scan of its own, or none.                                  *)
StartOwnTurn ==
  /\ turn = ME /\ phase = "scan" /\ phase' = "flush"
  /\ \/ scans[ME] < ScansOf[ME] /\ scans' = [scans EXCEPT ![ME] = @ + 1]
     \/ UNCHANGED scans
  /\ UNCHANGED <<turn, version, left, faults, stmVars, gapVars>>

FreeSlots == {i \in Slot : ~ext_scan_table[i].taken}

FirstFree == Min(FreeSlots)

(* Mutant: a batch ends one pose too early. *)
FullEarly == ext_aug_pose_idx + 1 = SCAN_LEN - 1

Full == ext_aug_pose_idx + 1 = SCAN_LEN

(* The first pose of a batch opens the first entry that is not taken.  If  *)
(* all are, the batch goes into the entry used last, whose header stays.   *)
add_ext_aug_pose_to_buf(ext_pose) ==
  LET opens == ext_aug_pose_idx = 0 /\ FreeSlots # {}
      idx == IF opens THEN FirstFree ELSE ext_scan_table_idx
  IN  /\ ext_scan_table_idx' = idx
      /\ ext_scan_table' =
           [ext_scan_table EXCEPT ![idx] =
             [taken |-> @.taken \/ Full,
              from_drone |-> IF opens THEN ext_pose.drone_id ELSE @.from_drone,
              pose_id |-> IF opens THEN ext_pose.scan ELSE @.pose_id,
              poses |-> [@.poses EXCEPT ![ext_aug_pose_idx] = ext_pose]]]
      /\ ext_aug_pose_idx' = IF Full THEN 0 ELSE ext_aug_pose_idx + 1

(* send_ext_aug_poses_to_gap9: first the poses, ...                        *)
ForwardPose ==
  /\ turn = ME /\ phase = "flush" /\ gap9_ext_aug_pose_buf # <<>>
  /\ add_ext_aug_pose_to_buf(Head(gap9_ext_aug_pose_buf))
  /\ gap9_ext_aug_pose_buf' = Tail(gap9_ext_aug_pose_buf)
  /\ UNCHANGED <<ringVars, gap9_pose_buf, ext_pose_upd_table, ext_const_table,
                 latest>>

(* ... then the updates.                                                   *)
ForwardUpdate ==
  /\ turn = ME /\ phase = "flush"
  /\ gap9_ext_aug_pose_buf = <<>> /\ gap9_pose_buf # <<>>
  /\ LET u == Head(gap9_pose_buf) IN
       /\ ext_pose_upd_table' = Append(ext_pose_upd_table, u)
       /\ latest' = [latest EXCEPT ![<<u.drone_id, u.scan>>] = u.version]
  /\ gap9_pose_buf' = Tail(gap9_pose_buf)
  /\ UNCHANGED <<ringVars, gap9_ext_aug_pose_buf, tableVars, ext_const_table>>

(* ME optimises in this turn, or passes the token on.                      *)
Forwarded ==
  /\ turn = ME /\ phase = "flush"
  /\ gap9_ext_aug_pose_buf = <<>> /\ gap9_pose_buf = <<>>
  /\ \/ phase' = "optimize" /\ turn' = turn
     \/ phase' = "scan" /\ turn' = 0
  /\ UNCHANGED <<scans, version, left, faults, stmVars, gapVars>>

----------------------------------------------------------------------------
(* OPTIMIZE_CMD on the GAP9 *)

TakenSlots == {i \in Slot : ext_scan_table[i].taken}
Unmatched ==
  (1 .. scans[ME]) \ {ext_const_table[k].cur : k \in DOMAIN ext_const_table}

(* The n entries that match, in the order of the table.                    *)
Matches(n) == {slots \in [1 .. n -> TakenSlots] :
                 \A k, l \in 1 .. n : k < l => slots[k] < slots[l]}

(* Mutant: the entry stays taken after it was matched.                     *)
KeepTaken(slots) == ext_scan_table

Freed(slots) ==
  [i \in Slot |->
     [ext_scan_table[i] EXCEPT
       !.taken = @ /\ \A k \in DOMAIN slots : slots[k] # i]]

(* The constraints that the matches with the scans own add.  They refer to *)
(* the value of the pose that came with the scan.                          *)
NewConstraints(slots, own) ==
  [k \in DOMAIN slots |->
     [from_drone |-> ext_scan_table[slots[k]].from_drone,
      ref |-> ext_scan_table[slots[k]].pose_id,
      cur |-> own[k], version |-> 0]]

Concerns(u, c) == c.ref = u.scan /\ c.from_drone = u.drone_id

(* Mutant: the updates are applied from the last to the first.             *)
UpdateBackwards(constraints) ==
  [k \in DOMAIN constraints |->
     LET mine == {i \in DOMAIN ext_pose_upd_table :
                    Concerns(ext_pose_upd_table[i], constraints[k])}
     IN  IF mine = {} THEN constraints[k]
         ELSE [constraints[k] EXCEPT
                 !.version = ext_pose_upd_table[Min(mine)].version]]

(* Each update, in order, changes the first constraint it concerns.        *)
update_external_constraints(constraints) ==
  [k \in DOMAIN constraints |->
     LET mine == {i \in DOMAIN ext_pose_upd_table :
                    /\ Concerns(ext_pose_upd_table[i], constraints[k])
                    /\ \A m \in 1 .. k - 1 :
                         ~Concerns(ext_pose_upd_table[i], constraints[m])}
     IN  IF mine = {} THEN constraints[k]
         ELSE [constraints[k] EXCEPT
                 !.version = ext_pose_upd_table[Max(mine)].version]]

Optimize ==
  /\ turn = ME /\ phase = "optimize"
  /\ \E n \in 0 .. MAX_SCANS :
       \E slots \in Matches(n), own \in Injection(1 .. n, Unmatched) :
         /\ ext_const_table' = update_external_constraints(
                                 ext_const_table \o NewConstraints(slots, own))
         /\ ext_scan_table' = Freed(slots)
  /\ ext_pose_upd_table' = <<>>
  /\ turn' = 0 /\ phase' = "scan"
  /\ UNCHANGED <<scans, version, left, faults, stmVars, ext_scan_table_idx,
                 ext_aug_pose_idx, latest>>

Next ==
  \/ StartTurn \/ PacketArrives \/ PacketLost \/ ScanSent \/ SendUpdates
  \/ NoUpdates \/ Skipped \/ StartOwnTurn \/ ForwardPose \/ ForwardUpdate
  \/ Forwarded \/ Optimize

Spec == Init /\ [][Next]_vars

----------------------------------------------------------------------------
(* Correctness *)

(* An entry of the table that may be matched holds one scan of one drone,  *)
(* whole and in order, under the name it came with ("external augmented    *)
(* poses come in batches of 20. Once all 20 were received, the external    *)
(* scan can be computed", external_point_cloud.h:48-49).                   *)
BatchIsScan ==
  \A i \in TakenSlots, k \in 0 .. SCAN_LEN - 1 :
    LET e == ext_scan_table[i] IN
      e.poses[k] = [drone_id |-> e.from_drone, scan |-> e.pose_id, place |-> k]

FaultFree == faults.faulty = 0

(* So it is as long as every packet has arrived once, with room for every  *)
(* scan, also when turns of ME were skipped and the scans of several       *)
(* drones wait; and no index leaves its table whatever arrives.            *)
IntactBatch == TypeOK /\ (FaultFree => BatchIsScan)

(* A scan of this drone gives at most one constraint with other drones,    *)
(* whatever arrives (is_matched_with_external, external_point_cloud.c:148);*)
(* nor does a scan of another drone give more than one: its entry is freed *)
(* (line 195), and it does not come twice.                                 *)
MatchedOnce ==
  \A k, m \in DOMAIN ext_const_table : k # m =>
    /\ ext_const_table[k].cur # ext_const_table[m].cur
    /\ FaultFree =>
         <<ext_const_table[k].from_drone, ext_const_table[k].ref>> #
           <<ext_const_table[m].from_drone, ext_const_table[m].ref>>

(* The poses that arrive between two turns fit the buffer, which nobody    *)
(* checks (scan_manager.c:119-122).                                        *)
BufferFits == Len(gap9_ext_aug_pose_buf) <= BUF_SIZE

(* An optimisation of ME gives a constraint it already had the newest of   *)
(* the values that arrived for it, although only one constraint is changed *)
(* for each of them (external_point_cloud.c:203-232).                      *)
UpdatesApplied ==
  [][FaultFree /\ phase = "optimize" /\ phase' = "scan" =>
       \A k \in DOMAIN ext_const_table :
         LET c == ext_const_table[k] IN
           (\E i \in DOMAIN ext_pose_upd_table :
              Concerns(ext_pose_upd_table[i], c))
             => ext_const_table'[k].version = latest[<<c.from_drone, c.ref>>]]_vars
----------------------------------------------------------------------------
(* Why it is correct: the invariant every step preserves.                  *)

(* The poses that wait: those of the turns since ME had its last one, of   *)
(* the turn under way, and those that came twice.                          *)
TurnsTaken == ME * faults.skipped + turn

SentInTurn ==
  CASE phase = "send" -> SCAN_LEN - left
    [] phase = "update" -> SCAN_LEN
    [] OTHER -> 0

PhaseOfTurn ==
  /\ phase \in {"send", "update"} => turn # ME
  /\ phase = "send" => scans[turn] > 0
  /\ phase \in {"flush", "optimize"} => turn = ME
  /\ phase = "optimize" => gap9_ext_aug_pose_buf = <<>>

WaitingBounded ==
  Len(gap9_ext_aug_pose_buf) <=
    SCAN_LEN * TurnsTaken + SentInTurn + (ATTEMPTS - 1) * faults.faulty

(* As many poses as may wait, and as many scans as may be in the table.    *)
RoomForPoses ==
  SCAN_LEN * (ME * (1 + MaxSkipped)) + (ATTEMPTS - 1) * MaxFaulty <= BUF_SIZE
RoomForScans == ME * MaxScans <= MAX_SCANS

(* The stream of poses has neither a gap nor a copy: the scans follow each *)
(* other whole, up to the one that is being sent, and the GAP9 has read    *)
(* the first ext_aug_pose_idx poses of the first one.                      *)
Follows(p, q) == IF p.place = SCAN_LEN - 1 THEN q.place = 0
                 ELSE q = [p EXCEPT !.place = @ + 1]

StreamWhole ==
  LET B == gap9_ext_aug_pose_buf IN
    /\ \A k \in 1 .. Len(B) - 1 : Follows(B[k], B[k + 1])
    /\ B # <<>> => B[1].place = ext_aug_pose_idx
    /\ IF phase = "send" /\ left < SCAN_LEN
         THEN B # <<>> /\ B[Len(B)] = [Packet EXCEPT !.place = @ - 1]
         ELSE IF B = <<>> THEN ext_aug_pose_idx = 0
              ELSE B[Len(B)].place = SCAN_LEN - 1

(* The entry that is being filled is not taken, and has the poses read.    *)
EntryOpen ==
  ext_aug_pose_idx > 0 =>
    LET e == ext_scan_table[ext_scan_table_idx]
        pose(k) == [drone_id |-> e.from_drone, scan |-> e.pose_id, place |-> k]
    IN  /\ phase = "flush" /\ ~e.taken
        /\ gap9_ext_aug_pose_buf # <<>>
        /\ gap9_ext_aug_pose_buf[1] = pose(ext_aug_pose_idx)
        /\ \A k \in 0 .. ext_aug_pose_idx - 1 : e.poses[k] = pose(k)

(* A scan is known to the GAP9 as an entry or as a constraint, or is yet   *)
(* to come, and known only once.                                           *)
EntryName(i) == <<ext_scan_table[i].from_drone, ext_scan_table[i].pose_id>>
RefName(k) == <<ext_const_table[k].from_drone, ext_const_table[k].ref>>
Names == {EntryName(i) : i \in TakenSlots}
           \cup {RefName(k) : k \in DOMAIN ext_const_table}

NamesDiffer ==
  /\ \A i, j \in TakenSlots : i # j => EntryName(i) # EntryName(j)
  /\ \A k, m \in DOMAIN ext_const_table : k # m => RefName(k) # RefName(m)
  /\ \A i \in TakenSlots, k \in DOMAIN ext_const_table :
       EntryName(i) # RefName(k)

ScanName(pose) == <<pose.drone_id, pose.scan>>

YetToCome ==
  LET B == gap9_ext_aug_pose_buf IN
    /\ \A k, m \in DOMAIN B :
         k < m /\ ScanName(B[k]) = ScanName(B[m]) => B[k].place < B[m].place
    /\ \A k \in DOMAIN B : /\ ScanName(B[k]) \notin Names
                           /\ B[k].scan <= scans[B[k].drone_id]
    /\ \A name \in Names : name[2] <= scans[name[1]]
    /\ phase = "send" =>
         /\ ScanName(Packet) \notin Names
         /\ \A k \in DOMAIN B :
              ScanName(B[k]) = ScanName(Packet) => B[k].place < Packet.place

OwnScansDiffer ==
  /\ \A k, m \in DOMAIN ext_const_table :
       k # m => ext_const_table[k].cur # ext_const_table[m].cur
  /\ \A k \in DOMAIN ext_const_table : ext_const_table[k].cur <= scans[ME]

(* The last of the updates of a scan that wait on the GAP9 is the newest.  *)
LastIsLatest ==
  LET U == ext_pose_upd_table IN
    \A i \in DOMAIN U :
      (\A j \in i + 1 .. Len(U) :
         U[j].drone_id # U[i].drone_id \/ U[j].scan # U[i].scan)
        => U[i].version = latest[<<U[i].drone_id, U[i].scan>>]

ScansWhole ==
  BatchIsScan /\ StreamWhole /\ EntryOpen /\ NamesDiffer /\ YetToCome

Inv ==
  /\ TypeOK /\ PhaseOfTurn /\ WaitingBounded /\ OwnScansDiffer /\ LastIsLatest
  /\ FaultFree => ScansWhole
=============================================================================
