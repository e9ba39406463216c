------------------------------- MODULE LsSlam -------------------------------
(***************************************************************************)
(* Graph optimisation on the GAP9 (ls_slam in graph-based-slam.c): in each *)
(* iteration H and b are built, ordered, H decomposed by the cluster, the  *)
(* two triangular systems solved, and the solution put back in the order   *)
(* of the poses.                                                           *)
(*                                                                         *)
(* The place of a number in b stands for it: b[v] is the unknown it was    *)
(* computed for and the unknowns whose solution was put into its equation, *)
(* in the forward and in the backward substitution.                        *)
(***************************************************************************)
EXTENDS CholeskyTeam

CONSTANTS
  Iterations,      \* 3
  MaxConstraints,  \* bound on the constraints of the graph
  Differences      \* bound: the dist an edge may have

ASSUME LsSlamAssumption ==
  /\ Iterations \in Nat \ {0}
  /\ MaxConstraints \in Nat
  /\ Differences \subseteq SUBSET {0, 1}

VARIABLES
  phase,          \* what ls_slam does next
  iteration,
  constraints,    \* the graph
  dist,           \* of each of its edges
  b

slamVars == <<phase, iteration, constraints, dist, b>>

vars == <<rcmVars, choleskyVars, slamVars>>

Graph == UNION {[1 .. n -> Constraint] : n \in 0 .. MaxConstraints}

Phase == {"build", "rcm", "order", "cholesky", "team", "forward", "backward",
          "unpermute", "done"}

NoCore == [pc |-> "idle", sum |-> 0, rows |-> {}, new |-> <<>>]

NewB == [v \in Unknown |-> [of |-> v, forward |-> {}, backward |-> {}]]

Init ==
  /\ constraints \in Graph
  /\ dist \in [1 .. NrOfPoses - 1 + Len(constraints) -> Differences]
  /\ phase = "build" /\ iteration = 1 /\ b = NewB
  /\ sp_mat0 = EmptyCsr /\ sp_mat1 = EmptyCsr
  /\ nodes = [i \in Unknown |-> [neighbors |-> 0, visited |-> FALSE]]
  /\ q = init_queue
  /\ perm = [i \in 0 .. MAX_SIZE - 1 |-> 0] /\ perm_index = 0
  /\ H_L1 = EmptyCsr /\ L_L1 = EmptyCsr /\ j = 0 /\ sum_global = 0
  /\ core = [c \in Core |-> NoCore]

Goto(now, next) ==
  /\ phase = now
  /\ phase' = next

----------------------------------------------------------------------------
Build ==
  /\ Goto("build", "rcm")
  /\ sp_mat0' = build_H_and_b(init_sp_mat(sp_mat0), constraints, dist)
  /\ b' = NewB
  /\ UNCHANGED <<iteration, constraints, dist, choleskyVars>>
  /\ UNCHANGED <<sp_mat1, nodes, q, perm, perm_index>>

StartOrder ==
  /\ Goto("rcm", "order")
  /\ rcm_start
  /\ UNCHANGED <<iteration, constraints, dist, b, choleskyVars>>

Order ==
  /\ phase = "order"
  /\ rcm_root \/ rcm_pop
  /\ UNCHANGED <<slamVars, choleskyVars>>

EndOrder ==
  /\ Goto("order", "cholesky")
  /\ rcm_reverse
  /\ UNCHANGED <<iteration, constraints, dist, b, choleskyVars>>

(* cholesky_sparse_parallel: the master's task on the cluster.             *)
SendTask ==
  /\ Goto("cholesky", "team")
  /\ BeginCholesky
  /\ UNCHANGED <<iteration, constraints, dist, b, rcmVars>>

Decompose ==
  /\ phase = "team"
  /\ TeamStep \/ \E c \in Core : CoreStep(c)
  /\ UNCHANGED <<slamVars, rcmVars>>

TaskEnds ==
  /\ Goto("team", "forward")
  /\ EndCholesky
  /\ sp_mat0' = L_L1
  /\ UNCHANGED <<iteration, constraints, dist, b>>
  /\ UNCHANGED <<sp_mat1, nodes, q, perm, perm_index>>

(* Mutant: the right side is not brought into the order of the unknowns.   *)
NotPermuted(array) == array

Permuted(array) == permute_array(array, perm)

Columns(i) == {sp_mat0.col_idx[k] : k \in Row(sp_mat0, i)}

forward_substitution ==
  /\ Goto("forward", "backward")
  /\ b' = [i \in Unknown |->
             [Permuted(b)[i] EXCEPT !.forward = {k \in Columns(i) : k < i}]]
  /\ UNCHANGED <<iteration, constraints, dist, rcmVars, choleskyVars>>

(* The factor is transposed first, with sp_mat1 as the place for it.       *)
backward_substitution ==
  /\ Goto("backward", "unpermute")
  /\ sp_mat0' = transpose_lower_triangular_in_place(sp_mat0)
  /\ sp_mat1' = sp_mat0'
  /\ b' = [i \in Unknown |->
             [b[i] EXCEPT !.backward =
                {k \in {sp_mat0'.col_idx[p] : p \in Row(sp_mat0', i)} :
                   i < k}]]
  /\ UNCHANGED <<iteration, constraints, dist, choleskyVars>>
  /\ UNCHANGED <<nodes, q, perm, perm_index>>

(* The solution is added to the poses.                                     *)
Update ==
  /\ phase = "unpermute"
  /\ b' = permute_array(b, permutation_inverse(perm))
  /\ IF iteration < Iterations
       THEN phase' = "build" /\ iteration' = iteration + 1
       ELSE phase' = "done" /\ UNCHANGED iteration
  /\ UNCHANGED <<constraints, dist, rcmVars, choleskyVars>>

(* The optimisation is over; a team that waits at different barriers, or   *)
(* for ever, is a deadlock.                                                *)
Finished == phase = "done" /\ UNCHANGED vars

Next ==
  \/ Build \/ StartOrder \/ Order \/ EndOrder \/ SendTask \/ Decompose
  \/ TaskEnds \/ forward_substitution \/ backward_substitution \/ Update \/ Finished

Spec == Init /\ [][Next]_vars

----------------------------------------------------------------------------
TypeOK ==
  /\ \A mat \in {sp_mat0, sp_mat1, H_L1, L_L1} : mat \in CsrMatrix
  /\ phase \in Phase
  /\ iteration \in 1 .. Iterations
  /\ constraints \in Graph
  /\ DOMAIN b = Unknown
  /\ perm_index \in 0 .. N
  /\ perm \in [0 .. MAX_SIZE - 1 -> 0 .. N - 1]
  /\ {q.head, q.tail} \subseteq 0 .. MAX_SIZE - 1
  /\ q.size \in 0 .. MAX_SIZE
  /\ j \in Unknown
  /\ \A c \in Core : Len(core[c].new) <= MAX_SIZE \div NUM_CORES + 2

(* H, when it is built, has "the cumulative contribution of the jacobians" *)
(* (graph-based-slam.h:48): in its blocks on the diagonal, and between two *)
(* poses that one edge joins.  Where several edges do, the code does not   *)
(* do what it says: insert_element replaces what an earlier one left       *)
(* (graph-based-slam.c:200, 208-211).                                      *)
HAssembled ==
  phase = "rcm" =>
    \A i \in Unknown : \A k \in 0 .. i :
      JoinedOnce(constraints, i \div 3, k \div 3) =>
        get_element(sp_mat0, i, k) = Cumulative(constraints, dist, i, k)

(* The neighbours of an unknown fit in nodes_line (100 places) as long as  *)
(* the graph has at most 31 constraints: three places for each, and six    *)
(* for the edges of the odometry.                                          *)
NeighborsBounded ==
  phase = "order" /\ ~is_empty(q) =>
    Len(nodes_line(First(q))) <= 6 + 3 * Len(constraints)

(* No index of the solver leaves its array; perm, before it is reversed,   *)
(* is a Cuthill-McKee ordering of all unknowns (rcm_fast).                 *)
InCuthillMcKeeOrder ==
  /\ TypeOK
  /\ NeighborsBounded
  /\ phase = "cholesky" => CuthillMcKee([p \in Unknown |-> perm[N - 1 - p]])

(* The cores compute the factor: each element from the element of H that   *)
(* the ordering puts there and from all the columns in which both rows     *)
(* have an element (cholesky.c).                                           *)
FactorIsCholesky ==
  phase = "forward" => \A k \in Unknown : ColumnDone(sp_mat0, H_L1, perm, k)

(* What is computed in place i of b.                                       *)
Solution(i) ==
  [of |-> perm[i],
   forward |-> {k \in 0 .. i - 1 : get_element(L_L1, i, k) # 0},
   backward |-> {k \in i + 1 .. N - 1 : get_element(L_L1, k, i) # 0}]

(* At the end of an iteration every unknown has its own solution, computed *)
(* with all the elements of its row and its column of the factor           *)
(* (solve_for_x).                                                          *)
SolutionInPlace ==
  phase \in {"build", "done"} /\ H_L1.max_line > 0 =>
    \A i \in Unknown : b[perm[i]] = Solution(i)

----------------------------------------------------------------------------
(* Why the factor and the solution are correct: the invariant that every   *)
(* step preserves as long as the matrices have room for their elements.    *)

(* No insertion finds a matrix full.                                       *)
HasRoom == ~sp_mat0.overrun /\ Count(L_L1) < MAX_SIZE_SP_MAT

(* There is room for a matrix that is full below its diagonal.             *)
RoomForFactor == N * (N + 1) < 2 * MAX_SIZE_SP_MAT

(* H has something on every place of the diagonal.                         *)
Decomposable(mat) ==
  Sorted(mat) /\ \A i \in Index : get_element(mat, i, i) > 0

Permutation(p) == \A i, k \in Index : p[i] = p[k] => i = k

Factored ==
  Factor(L_L1) /\ \A k \in Index : ColumnDone(L_L1, H_L1, perm, k)

SolverInv ==
  /\ phase \in Phase
  /\ constraints \in Graph
  /\ dist \in [1 .. NrOfPoses - 1 + Len(constraints) -> SUBSET {0, 1}]
  /\ perm \in [0 .. MAX_SIZE - 1 -> Index]
  /\ core \in [Core -> CoreState]
  /\ phase \in {"rcm", "order", "cholesky"} => Decomposable(sp_mat0)
  /\ phase \in {"rcm", "order", "cholesky", "team", "forward"} => b = NewB
  /\ phase = "order" => Sorted(sp_mat1) /\ OrderInv
  /\ phase \in {"cholesky", "team", "forward", "backward", "unpermute"} =>
       Permutation(perm)
  /\ phase = "team" => Decomposable(H_L1) /\ TeamInv
  /\ phase \in {"forward", "backward"} => sp_mat0 = L_L1 /\ Factored
  /\ phase = "backward" =>
       b = [i \in Index |-> [Solution(i) EXCEPT !.backward = {}]]
  /\ phase = "unpermute" => b = [i \in Index |-> Solution(i)]
  /\ SolutionInPlace
=============================================================================
