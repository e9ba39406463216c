----------------------------- MODULE PoseGraph -----------------------------
(***************************************************************************)
(* The pose graph on the GAP9 (point_cloud.c): the pose table, the scans   *)
(* of the drone, the constraints found between them (loop closures), and   *)
(* the hierarchical optimisation.  An optimisation takes a few KEY poses,  *)
(* the ends of the constraints among them, solves the graph of these, and  *)
(* then each SUBGRAPH between two key poses.                               *)
(*                                                                         *)
(* A pose is its index in the table, which is its id (ScanManager).  Where *)
(* it is, and so which scans match and which poses lie far apart, is left  *)
(* open.  The GAP9 executes one command after the other.                   *)
(***************************************************************************)
EXTENDS Integers, FiniteSets, Sequences, SequencesExt, FiniteSetsExt

CONSTANTS
  MaxPoses,          \* bound: poses in the table
  MaxClosures,       \* bound: constraints found between scans of the drone
  MaxExternal,       \* bound: constraints found with scans of other drones
  MaxOptimizations   \* bound: optimisations of the mission

ASSUME PoseGraphAssumption ==
  {MaxPoses, MaxClosures, MaxExternal, MaxOptimizations} \subseteq Nat

VARIABLES
  pose_counter,       \* poses in the table
  int_scan_pose_ids,  \* first poses of the scans, in order of arrival
  constraints,        \* internal constraints, as they are stored
  ext_const_table,    \* cur_pose_id of the external constraints
  found,              \* history: the internal constraints, as found
  job,                \* the graph of the last optimisation
  optimizations       \* how many there were

vars == <<pose_counter, int_scan_pose_ids, constraints, ext_const_table, found,
          job, optimizations>>

Pose == 0 .. MaxPoses - 1
PoseTable == 0 .. pose_counter - 1
Constraint == [fromIdx : Pose, toIdx : Pose]

(* A graph: the poses it was made of, its key poses, how many scan poses   *)
(* were counted, the constraints as the solver gets them (by key pose),    *)
(* and those they should be (by pose).                                     *)
Graph == [poses : 0 .. MaxPoses, keys : SUBSET Pose, scan_pose_nr : Nat,
          edges : Seq(Constraint), closures : Seq(Constraint)]
NoGraph == [poses |-> 0, keys |-> {}, scan_pose_nr |-> 0,
            edges |-> <<>>, closures |-> <<>>]

TypeOK ==
  /\ pose_counter \in 0 .. MaxPoses
  /\ int_scan_pose_ids \in Seq(Pose)
  /\ constraints \in Seq(Constraint) /\ found \in Seq(Constraint)
  /\ Len(found) = Len(constraints)
  /\ ext_const_table \in Seq(Pose)
  /\ job \in Graph
  /\ optimizations \in 0 .. MaxOptimizations

Init ==
  /\ pose_counter = 0 /\ int_scan_pose_ids = <<>>
  /\ constraints = <<>> /\ ext_const_table = <<>> /\ found = <<>>
  /\ job = NoGraph /\ optimizations = 0

----------------------------------------------------------------------------
(* POSE_CMD *)
pcl_add_augmented_pose ==
  /\ pose_counter < MaxPoses
  /\ pose_counter' = pose_counter + 1
  /\ UNCHANGED <<int_scan_pose_ids, constraints, ext_const_table, found, job,
                 optimizations>>

----------------------------------------------------------------------------
(* SCAN_CMD *)

(* The STM32 sends the poses of a scan before it announces the scan, and   *)
(* its scans in order (ScanManager).  A scan may begin with the first pose *)
(* of the table.                                                           *)
ScanArrives(id) ==
  /\ id \in PoseTable
  /\ \A k \in DOMAIN int_scan_pose_ids : int_scan_pose_ids[k] < id

pcl_add_constraint(from_node, to_node) ==
  LET c == [fromIdx |-> from_node, toIdx |-> to_node]
  IN  constraints' = Append(constraints, c) /\ found' = Append(found, c)

(* The new scan matches the first earlier one that is near and similar, or *)
(* none of them.                                                           *)
check_internal_constraints(cur_pose_id) ==
  \/ /\ Len(found) < MaxClosures
     /\ \E k \in DOMAIN int_scan_pose_ids :
          pcl_add_constraint(cur_pose_id, int_scan_pose_ids[k])
  \/ UNCHANGED <<constraints, found>>

(* Mutant: the new scan is stored before it is compared with the others.   *)
StoreFirst(pose_id) ==
  /\ ScanArrives(pose_id)
  /\ \/ /\ Len(found) < MaxClosures
        /\ \E ref \in ToSet(int_scan_pose_ids) \cup {pose_id} :
             pcl_add_constraint(pose_id, ref)
     \/ UNCHANGED <<constraints, found>>
  /\ int_scan_pose_ids' = Append(int_scan_pose_ids, pose_id)
  /\ UNCHANGED <<pose_counter, ext_const_table, job, optimizations>>

add_scan_pose_id(pose_id) ==
  /\ ScanArrives(pose_id)
  /\ check_internal_constraints(pose_id)
  /\ int_scan_pose_ids' = Append(int_scan_pose_ids, pose_id)
  /\ UNCHANGED <<pose_counter, ext_const_table, job, optimizations>>

----------------------------------------------------------------------------
(* OPTIMIZE_CMD *)

(* The scans that may be matched with a scan of another drone: each once.  *)
(* (The other drones' scans are in ExternalScans.)                         *)
Unmatched == ToSet(int_scan_pose_ids) \ ToSet(ext_const_table)

(* An external constraint ties a scan to the first pose of the table, be   *)
(* it the scan that begins there.                                          *)
get_ext_constraint(cur_pose_id) == [fromIdx |-> cur_pose_id, toIdx |-> 0]

ExternalConstraints(table) ==
  [k \in DOMAIN table |-> get_ext_constraint(table[k])]

ScanPoses(cs) ==
  {cs[k].fromIdx : k \in DOMAIN cs} \cup {cs[k].toIdx : k \in DOMAIN cs}

(* The place of p in an increasing list of the elements of S, from 0.      *)
PlaceIn(S, p) == Cardinality({q \in S : q < p})

(* Mutant: the list is sorted, but duplicates stay in it.                  *)
SortOnly(cs) ==
  SortSeq([k \in DOMAIN cs |-> cs[k].toIdx] \o
            [k \in DOMAIN cs |-> cs[k].fromIdx], <)

delete_duplicates_and_sort(cs) ==
  LET S == ScanPoses(cs)
  IN  [k \in 1 .. Cardinality(S) |-> CHOOSE p \in S : PlaceIn(S, p) = k - 1]

(* The scan poses that pcl_reduce meets while it goes through the table    *)
(* with one index into their list: it stops at one that does not come      *)
(* after its predecessor.                                                  *)
Met(scan_poses) ==
  {scan_poses[k] :
     k \in {i \in DOMAIN scan_poses :
             \A m \in 1 .. i - 1 : scan_poses[m] < scan_poses[m + 1]}}

(* The key poses: the first one, the scan poses, and those that are far    *)
(* from the key pose before them.                                          *)
pcl_reduce(scan_poses, far) ==
  {0} \cup ((Met(scan_poses) \cup far) \cap PoseTable)

(* The search through the key poses stops at fromIdx, so it meets toIdx    *)
(* only if that is not a later pose.                                       *)
Remapped(keys, c) ==
  LET place(p) == IF p \in keys THEN PlaceIn(keys, p) ELSE p
  IN  [fromIdx |-> place(c.fromIdx),
       toIdx |-> IF c.fromIdx \in keys /\ c.fromIdx < c.toIdx
                   THEN c.toIdx ELSE place(c.toIdx)]

(* As many constraints are remapped as there are scan poses.  If the scan  *)
(* poses are fewer, the last constraints keep their poses; if they are     *)
(* more, entries behind the last constraint are remapped, which are        *)
(* written before they are read.                                           *)
RemappedFirst(keys, cs, scan_pose_nr) ==
  [k \in DOMAIN cs |->
     IF k <= scan_pose_nr THEN Remapped(keys, cs[k]) ELSE cs[k]]

(* The graphs that pcl_optimize may build of these constraints.            *)
Graphs(external) ==
  LET all == constraints \o external
      scan_poses == delete_duplicates_and_sort(all)
  IN  {[poses |-> pose_counter, keys |-> keys,
        scan_pose_nr |-> Len(scan_poses),
        edges |-> RemappedFirst(keys, all, Len(scan_poses)),
        closures |-> found \o external] :
         keys \in {pcl_reduce(scan_poses, far) : far \in SUBSET PoseTable}}

(* The counter of constraints is reset to the internal ones, which stay as *)
(* they are by then.                                                       *)
KeepInternal(edges) == SubSeq(edges, 1, Len(constraints))

(* pcl_optimize puts the external constraints behind the internal ones,    *)
(* and solves the graph; without any constraint it returns at once.        *)
pcl_optimize(external) ==
  IF constraints \o external = <<>>
    THEN job' = NoGraph /\ UNCHANGED constraints
    ELSE \E g \in Graphs(external) :
           job' = g /\ constraints' = KeepInternal(g.edges)

(* What check_for_external_constraints may leave of the table.             *)
ExternalMatches ==
  {ext_const_table \o new :
     new \in {q \in UNION {[1 .. n -> Unmatched] :
                            n \in 0 .. MaxExternal - Len(ext_const_table)} :
               IsInjective(q)}}

Optimize ==
  /\ optimizations < MaxOptimizations
  /\ optimizations' = optimizations + 1
  /\ \E table \in ExternalMatches :
       /\ ext_const_table' = table
       /\ pcl_optimize(ExternalConstraints(table))
  /\ UNCHANGED <<pose_counter, int_scan_pose_ids, found>>

NextKey(g, key) == Min({q \in g.keys : q > key})

(* Mutant: a subgraph is written back with the key pose that ends it.      *)
WrittenWhole(g, key) ==
  IF key = Max(g.keys) THEN key .. g.poses - 1 ELSE key .. NextKey(g, key)

(* The poses that the subgraph from a key pose writes back: from the last  *)
(* one, all that follow; else those before the next key pose, whether the  *)
(* subgraph is solved or, if it has two poses, its first one is copied.    *)
Written(g, key) ==
  LET subgraph_size == NextKey(g, key) - key + 1
  IN  IF key = Max(g.keys) THEN key .. g.poses - 1
      ELSE IF subgraph_size = 2 THEN {key} ELSE key .. key + subgraph_size - 2

----------------------------------------------------------------------------
Next ==
  \/ pcl_add_augmented_pose
  \/ \E id \in Pose : add_scan_pose_id(id)
  \/ Optimize

Spec == Init /\ [][Next]_vars

----------------------------------------------------------------------------
(* Correctness *)

(* The graph that is solved has the constraints that were found, between   *)
(* the poses they were found for ("from_node The constrained is from the   *)
(* node with this id", point_cloud.h:63).                                  *)
SolvesItsGraph ==
  /\ ScanPoses(job.closures) \subseteq job.keys
  /\ job.edges = [k \in DOMAIN job.closures |->
                    [fromIdx |-> PlaceIn(job.keys, job.closures[k].fromIdx),
                     toIdx |-> PlaceIn(job.keys, job.closures[k].toIdx)]]

(* The loop over the scan poses has reached all constraints                *)
(* (point_cloud.c:305).                                                    *)
AllReached == Len(job.edges) <= job.scan_pose_nr

(* If the loop over the scan poses reaches all constraints, the first      *)
(* optimisation solves its graph, and so does any later one as long as the *)
(* scans are matched with other drones only: those constraints are built   *)
(* anew each time, and the internal ones are overwritten (lines 281-315).  *)
FirstGraphSolved ==
  (optimizations <= 1 \/ found = <<>>) /\ AllReached => SolvesItsGraph

(* The constraints that were reached, whatever happened to them before,    *)
(* are edges between two different key poses, the later one first: the     *)
(* solver indexes its arrays with them and writes one triangle of its      *)
(* matrix (graph-based-slam.c:177-217).  An external constraint of a scan  *)
(* that begins with the first pose of the table ties this to itself.       *)
ReachedInGraph ==
  \A k \in DOMAIN job.edges :
    k <= job.scan_pose_nr =>
      /\ job.edges[k].fromIdx < Cardinality(job.keys)
      /\ \/ job.edges[k].toIdx < job.edges[k].fromIdx
         \/ job.closures[k] = get_ext_constraint(0) /\ job.edges[k] = job.closures[k]

(* The internal constraints are reached however many external ones there   *)
(* are, and all are while at most two scans are matched with other drones  *)
(* and no scan begins with the first pose of the table.                    *)
ReachedEnough ==
  /\ Len(job.edges) - Len(ext_const_table) <= job.scan_pose_nr
  /\ Len(ext_const_table) <= 2 /\ 0 \notin ToSet(int_scan_pose_ids) => AllReached

(* Every constraint the loop over the scan poses reaches is an edge of the *)
(* graph that is solved, and it reaches them all while they are few.       *)
EdgesInGraph == TypeOK /\ ReachedInGraph /\ ReachedEnough

(* An external constraint leads from the scan it was found for             *)
(* ("cur_scan_id ID of the internal pose to match with",                   *)
(* external_point_cloud.h:78), and so in the graph that is solved, as long *)
(* as no scan begins with the first pose of the table.                     *)
LaterScansSolved == 0 \notin ToSet(int_scan_pose_ids) => SolvesItsGraph

(* An optimisation moves every pose of the table exactly once: the         *)
(* subgraphs do not overlap and leave no gap (point_cloud.c:320-366).      *)
EveryPoseMovedOnce ==
  job.keys # {} =>
    \A p \in 0 .. job.poses - 1 :
      Cardinality({key \in job.keys : p \in Written(job, key)}) = 1
----------------------------------------------------------------------------
(* Why it is correct: the invariant every step preserves. *)

(* The scans begin with poses of the table.                                *)
ScansInTable == ToSet(int_scan_pose_ids) \subseteq PoseTable

(* A constraint starts at a scan.                                          *)
ClosuresOfScans == constraints # <<>> => int_scan_pose_ids # <<>>

(* Whether its ends are poses or places among the key poses of some graph, *)
(* a stored constraint leads to an earlier one, which is the first one     *)
(* only if a scan begins there, and each starts behind those before it; a  *)
(* new scan is behind all of them.                                         *)
ClosuresInOrder ==
  /\ \A k \in DOMAIN constraints :
       /\ constraints[k].toIdx < constraints[k].fromIdx
       /\ 0 \notin ToSet(int_scan_pose_ids) => 0 < constraints[k].toIdx
       /\ \E m \in DOMAIN int_scan_pose_ids :
            constraints[k].fromIdx <= int_scan_pose_ids[m]
  /\ \A k, m \in DOMAIN constraints :
       k < m => constraints[k].fromIdx < constraints[m].fromIdx

(* A scan is matched with other drones once.                               *)
MatchedScans ==
  /\ Len(ext_const_table) <= MaxExternal
  /\ \A k \in DOMAIN ext_const_table : ext_const_table[k] \in ToSet(int_scan_pose_ids)
  /\ \A k, m \in DOMAIN ext_const_table :
       k # m => ext_const_table[k] # ext_const_table[m]

(* The key poses are poses of the graph, the first one among them.         *)
KeysOfGraph ==
  job.keys # {} => 0 \in job.keys /\ job.keys \subseteq 0 .. job.poses - 1

(* No optimisation has renumbered the constraints yet.                     *)
NotRenumbered == optimizations = 0 => constraints = found /\ job = NoGraph

Shaped ==
  TypeOK /\ ScansInTable /\ ClosuresOfScans /\ MatchedScans /\ KeysOfGraph

Inv ==
  Shaped /\ ClosuresInOrder /\ NotRenumbered /\ EdgesInGraph /\ FirstGraphSolved
=============================================================================
