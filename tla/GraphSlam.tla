----------------------------- MODULE GraphSlam -----------------------------
(***************************************************************************)
(* The equations of a pose graph (graph-based-slam.c): every odometry      *)
(* edge and every constraint adds its blocks to the sparse matrix H.       *)
(*                                                                         *)
(* A pose has the coordinates 0, 1 (position) and 2 (yaw).  Numbers are    *)
(* abstracted to where they come from: edge e contributes 4^e, so that a   *)
(* sum tells the edges it is made of.  What may be zero are the elements   *)
(* between yaw and position: dist[e] is the set of the coordinates in      *)
(* which the poses of edge e differ.                                       *)
(***************************************************************************)
EXTENDS Csr

(* Three rows for each pose of the graph.                                  *)
ASSUME GraphAssumption == N % 3 = 0

NrOfPoses == N \div 3

Pose == 0 .. NrOfPoses - 1

(* A pose of a constraint with a larger id than the other is its from.     *)
Constraint == {c \in [from : Pose, to : Pose] : c.from > c.to}

(* Edge 0 is the prior on pose 0, then come the odometry edges, then the   *)
(* constraints.                                                            *)
TwoTo(n) == FoldLeft(LAMBDA x, k : 2 * x, 1, Upwards(1, n))

Weight(e) == TwoTo(2 * e)

----------------------------------------------------------------------------
(* What build_H_and_b does to H, in its order *)

Ins(i, j, v) == [do |-> "insert", row |-> i, col |-> j, value |-> v]

Add(i, j, v) == [do |-> "add", row |-> i, col |-> j, value |-> v]

Yaw(e, dist, d) == IF d \in dist THEN Weight(e) ELSE 0

PriorOps ==
  << Ins(0, 0, Weight(0)), Ins(1, 1, Weight(0)), Ins(2, 0, 0), Ins(2, 1, 0),
     Ins(2, 2, Weight(0)) >>

(* Mutant: the last element of a pose replaces what the edge before it     *)
(* left there.                                                             *)
OdometryOpsInsert(i, dist) ==
  LET f == 3 * (i - 1)  t == 3 * i  w == Weight(i) IN
    << Ins(f, f, w), Ins(f + 1, f + 1, w), Ins(f + 2, f, Yaw(i, dist, 0)),
       Ins(f + 2, f + 1, Yaw(i, dist, 1)), Ins(f + 2, f + 2, w),
       Ins(t, f, w), Ins(t, t, w), Ins(t + 1, f + 1, w), Ins(t + 1, t + 1, w),
       Ins(t, f + 2, Yaw(i, dist, 0)), Ins(t + 1, f + 2, Yaw(i, dist, 1)),
       Ins(t + 2, f + 2, w), Ins(t + 2, t + 2, w) >>

(* From pose i - 1 to pose i.                                              *)
OdometryOps(i, dist) ==
  LET f == 3 * (i - 1)  t == 3 * i  w == Weight(i) IN
    << Add(f, f, w), Add(f + 1, f + 1, w), Ins(f + 2, f, Yaw(i, dist, 0)),
       Ins(f + 2, f + 1, Yaw(i, dist, 1)), Add(f + 2, f + 2, w),
       Ins(t, f, w), Ins(t, t, w), Ins(t + 1, f + 1, w), Ins(t + 1, t + 1, w),
       Ins(t, f + 2, Yaw(i, dist, 0)), Ins(t + 1, f + 2, Yaw(i, dist, 1)),
       Ins(t + 2, f + 2, w), Ins(t + 2, t + 2, w) >>

ConstraintOps(e, c, dist) ==
  LET f == 3 * c.from  t == 3 * c.to  w == Weight(e) IN
    << Add(f, f, w), Add(t, t, w), Ins(f, t, w),
       Add(f + 1, f + 1, w), Add(t + 1, t + 1, w), Ins(f + 1, t + 1, w),
       Add(f + 2, f + 2, w), Add(t + 2, t + 2, w), Ins(f + 2, t + 2, w),
       Add(f + 2, f, Yaw(e, dist, 0)), Add(f + 2, f + 1, Yaw(e, dist, 1)),
       Ins(f + 2, t, Yaw(e, dist, 0)), Ins(f + 2, t + 1, Yaw(e, dist, 1)) >>

Done(H, op) ==
  IF op.do = "add" THEN add_to_element(H, op.row, op.col, op.value)
                   ELSE insert_element(H, op.row, op.col, op.value)

AllDone(H, ops) == FoldLeft(Done, H, ops)

build_H_and_b(H, constraints, dist) ==
  LET Odometry(m, i) == AllDone(m, OdometryOps(i, dist[i]))
      Loop(m, k) == AllDone(m, ConstraintOps(NrOfPoses - 1 + k, constraints[k],
                                             dist[NrOfPoses - 1 + k]))
      chain == FoldLeft(Odometry, AllDone(H, PriorOps),
                        Upwards(1, NrOfPoses - 1))
  IN  FoldLeft(Loop, chain, Upwards(1, Len(constraints)))

----------------------------------------------------------------------------
(* The same matrix, element by element *)

(* The edges of the graph, with the ends as linearize_pose_pose_constraint *)
(* is given them.                                                          *)
Edges(constraints) ==
  [e \in 1 .. NrOfPoses - 1 + Len(constraints) |->
     IF e < NrOfPoses THEN [from |-> e - 1, to |-> e]
                      ELSE constraints[e - NrOfPoses + 1]]

(* An edge couples the coordinates of its pose from with each other, those *)
(* of its pose to only with themselves.                                    *)
InBlock(edge, p, a, b, dist) ==
  \/ p \in {edge.from, edge.to} /\ a = b
  \/ p = edge.from /\ a # b /\ 2 \in {a, b} /\ {a, b} \ {2} \subseteq dist

(* Between two poses an edge couples the same coordinates, and the yaw of  *)
(* its pose from with the position of the other.                           *)
Between(edge, p, a, q, b, dist) ==
  \/ p = edge.from /\ q = edge.to /\ (a = b \/ (a = 2 /\ b \in dist))
  \/ p = edge.to /\ q = edge.from /\ (a = b \/ (b = 2 /\ a \in dist))

(* The sum of the edges upon what the prior gives, up to edge n.           *)
EdgeAdded(edges, sum, e) == IF e \in edges THEN sum + Weight(e) ELSE sum

EdgeSum(edges, prior, n) ==
  FoldLeft(LAMBDA sum, e : EdgeAdded(edges, sum, e), prior, Upwards(1, n))

(* What all edges contribute to an element.                                *)
Cumulative(constraints, dist, i, j) ==
  LET p == i \div 3  a == i % 3  q == j \div 3  b == j % 3
      edges == Edges(constraints)
      contribute == {e \in DOMAIN edges :
                       IF p = q THEN InBlock(edges[e], p, a, b, dist[e])
                       ELSE Between(edges[e], p, a, q, b, dist[e])}
      prior == IF i = j /\ p = 0 THEN Weight(0) ELSE 0
  IN  EdgeSum(contribute, prior, NrOfPoses - 1 + Len(constraints))

(* At most one edge leads from one pose to the other, or back.             *)
JoinedOnce(constraints, p, q) ==
  LET edges == Edges(constraints)
      joins == {e \in DOMAIN edges : {edges[e].from, edges[e].to} = {p, q}}
  IN  \A e, f \in joins : e = f
=============================================================================
