-------------------------------- MODULE Rcm --------------------------------
(***************************************************************************)
(* The reverse Cuthill-McKee ordering of the unknowns (rcm-sparse-matrix.c)*)
(* with its queue (circular-queue.c) and its sort (heapsort.c).            *)
(*                                                                         *)
(* Two unknowns are neighbours when the matrix has an element for them.    *)
(***************************************************************************)
EXTENDS GraphSlam

VARIABLES
  sp_mat0,      \* H, symmetric: its lower triangle
  sp_mat1,      \* mat_tr, its transpose
  nodes,        \* neighbors and visited of each unknown
  q,            \* the circular queue
  perm,         \* the ordering
  perm_index    \* places of perm that are filled

rcmVars == <<sp_mat0, sp_mat1, nodes, q, perm, perm_index>>

Unknown == Index

----------------------------------------------------------------------------
(* circular-queue.c *)

init_queue ==
  [nodes |-> [k \in 0 .. MAX_SIZE - 1 |-> 0],
   head |-> 0, tail |-> 0, size |-> 0]

is_full(queue) == queue.size = MAX_SIZE

is_empty(queue) == queue.size = 0

push_to_queue(queue, element) ==
  IF is_full(queue) THEN queue
  ELSE [queue EXCEPT !.nodes[queue.tail] = element,
                     !.tail = (@ + 1) % MAX_SIZE,
                     !.size = @ + 1]

First(queue) == queue.nodes[queue.head]

Popped(queue) ==
  [queue EXCEPT !.head = (@ + 1) % MAX_SIZE, !.size = @ - 1]

----------------------------------------------------------------------------
(* heapsort.c: s is a sequence of unknowns with their number of neighbors *)

(* The children of place i (places start at 1) within the first n.         *)
Largest(s, n, i) ==
  LET left == 2 * i
      larger == IF left <= n /\ s[left].neighbors > s[i].neighbors
                  THEN left ELSE i
  IN  IF left + 1 <= n /\ s[left + 1].neighbors > s[larger].neighbors
        THEN left + 1 ELSE larger

Downwards(n) == [i \in 1 .. n |-> n + 1 - i]

Swapped(s, i, k) == [s EXCEPT ![i] = s[k], ![k] = s[i]]

(* Place i sinks below its largest child; the recursion of the code ends   *)
(* where it is the largest itself, from where on nothing changes here.     *)
heapify(s, n, i) ==
  LET Sink(heap, step) ==
        LET k == Largest(heap.s, n, heap.at)
        IN  [s |-> Swapped(heap.s, heap.at, k), at |-> k]
  IN  FoldLeft(Sink, [s |-> s, at |-> i], Upwards(1, n)).s

(* Mutant: the heap is not built first.                                    *)
heapsort_unbuilt(s) ==
  FoldLeft(LAMBDA h, n : heapify(Swapped(h, 1, n), n - 1, 1),
           s, Downwards(Len(s)))

heapsort_nodes(s) ==
  LET heap == FoldLeft(LAMBDA h, i : heapify(h, Len(s), i),
                       s, Downwards(Len(s) \div 2))
  IN  FoldLeft(LAMBDA h, n : heapify(Swapped(h, 1, n), n - 1, 1),
               heap, Downwards(Len(s)))

----------------------------------------------------------------------------
(* rcm_fast *)

Counted(mat, i) ==
  Cardinality({k \in Elements(mat) :
                 mat.col_idx[k] < RowOf(mat, k)
                   /\ i \in {mat.col_idx[k], RowOf(mat, k)}})

count_all_neighbors(mat) ==
  [i \in Unknown |-> [neighbors |-> Counted(mat, i), visited |-> FALSE]]

(* An element of the diagonal is passed over.                              *)
InLine(mat, C) ==
  LET Joins(line, k) ==
        IF mat.col_idx[k] = C THEN line
        ELSE Append(line, [index |-> mat.col_idx[k],
                           neighbors |-> nodes[mat.col_idx[k]].neighbors])
  IN  FoldLeft(Joins, <<>>, Upwards(mat.row_ptr[C], mat.row_ptr[C + 1] - 1))

nodes_line(C) == InLine(sp_mat0, C) \o InLine(sp_mat1, C)

Unvisited == {i \in Unknown : ~nodes[i].visited}

(* The first of the unknowns with the fewest neighbours.                   *)
get_min_order_unvisited ==
  Min({i \in Unvisited :
         \A k \in Unvisited : nodes[i].neighbors <= nodes[k].neighbors})

rcm_start ==
  /\ sp_mat1' = transpose_lower_triangular(sp_mat0, init_sp_mat(sp_mat1))
  /\ nodes' = count_all_neighbors(sp_mat0)
  /\ q' = init_queue
  /\ perm_index' = 0
  /\ UNCHANGED <<sp_mat0, perm>>

rcm_root ==
  /\ is_empty(q)
  /\ perm_index < N
  /\ LET root == get_min_order_unvisited IN
       /\ q' = push_to_queue(q, root)
       /\ nodes' = [nodes EXCEPT ![root].visited = TRUE]
  /\ UNCHANGED <<sp_mat0, sp_mat1, perm, perm_index>>

(* A neighbour that was not visited yet joins the queue.                   *)
Visit(list, entry) ==
  IF list.nodes[entry.index].visited THEN list
  ELSE [queue |-> push_to_queue(list.queue, entry.index),
        nodes |-> [list.nodes EXCEPT ![entry.index].visited = TRUE]]

rcm_pop ==
  /\ ~is_empty(q)
  /\ perm' = [perm EXCEPT ![perm_index] = First(q)]
  /\ LET list == FoldLeft(Visit, [queue |-> Popped(q), nodes |-> nodes],
                          heapsort_nodes(nodes_line(First(q))))
     IN  q' = list.queue /\ nodes' = list.nodes
  /\ perm_index' = perm_index + 1
  /\ UNCHANGED <<sp_mat0, sp_mat1>>

(* The checksum of the code holds of every permutation.                    *)
rcm_reverse ==
  /\ is_empty(q)
  /\ perm_index = N
  /\ perm' = [i \in DOMAIN perm |->
                IF i < N THEN perm[N - 1 - i] ELSE perm[i]]
  /\ UNCHANGED <<sp_mat0, sp_mat1, nodes, q, perm_index>>

permutation_inverse(p) == [i \in Unknown |-> CHOOSE k \in Unknown : p[k] = i]

permute_array(array, p) == [i \in Unknown |-> array[p[i]]]

----------------------------------------------------------------------------
(* Why every unknown gets a place: the queue never wraps around, and holds *)
(* behind its head what comes into perm, before it what is there; marks    *)
(* are the visited nodes, out is the number of those that have left it.    *)
Queue ==
  [nodes : [0 .. MAX_SIZE - 1 -> Index], head : 0 .. MAX_SIZE - 1,
   tail : 0 .. MAX_SIZE - 1, size : 0 .. MAX_SIZE]

QueueInv(queue, marks, out) ==
  LET joined == out + queue.size IN
    /\ queue \in Queue /\ joined <= N
    /\ queue.head = out % MAX_SIZE /\ queue.tail = joined % MAX_SIZE
    /\ marks \in [Index -> [neighbors : Nat, visited : BOOLEAN]]
    /\ \A k, m \in 0 .. joined - 1 : queue.nodes[k] = queue.nodes[m] => k = m
    /\ \A i \in Index :
         marks[i].visited <=> \E k \in 0 .. joined - 1 : queue.nodes[k] = i

OrderInv ==
  /\ perm_index \in Nat
  /\ QueueInv(q, nodes, perm_index)
  /\ \A k \in 0 .. perm_index - 1 : perm[k] = q.nodes[k]

----------------------------------------------------------------------------
(* The ordering, defined without a queue *)

Neighbour(i, k) == i # k /\ get_element_sym(sp_mat0, i, k) # 0

Degree(i) == Cardinality({k \in Unknown : Neighbour(i, k)})

(* o is a Cuthill-McKee ordering: the unknowns come in the order of their  *)
(* parents, the first neighbour before them, children of the same parent   *)
(* by their degree; one without a neighbour before it, a root, has the     *)
(* smallest degree of all that are left.                                   *)
CuthillMcKee(o) ==
  LET Before(p) == {r \in 0 .. p - 1 : Neighbour(o[r], o[p])}
      IsRoot(p) == Before(p) = {}
      parent == [p \in Unknown |-> IF IsRoot(p) THEN p ELSE Min(Before(p))]
  IN  /\ {o[p] : p \in Unknown} = Unknown
      /\ \A p \in Unknown \ {0} :
           /\ parent[p - 1] <= parent[p]
           /\ parent[p - 1] = parent[p] /\ ~IsRoot(p - 1) =>
                Degree(o[p - 1]) <= Degree(o[p])
      /\ \A p \in Unknown : IsRoot(p) =>
           \A r \in p .. N - 1 : Degree(o[p]) <= Degree(o[r])
=============================================================================
