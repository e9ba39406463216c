-------------------------------- MODULE Csr --------------------------------
(***************************************************************************)
(* The sparse matrices of the GAP9 (sparse-matrix.c): the elements row by  *)
(* row in two arrays, data and col_idx, and where each row starts.         *)
(*                                                                         *)
(* Values are integers; 0 stands for one below NZ_THRESHOLD.  Places of    *)
(* the arrays behind the last element are 0: nothing reads them.           *)
(***************************************************************************)
EXTENDS Integers, Sequences, SequencesExt, FiniteSetsExt

CONSTANTS
  MAX_SIZE,          \* rows a matrix may have (780)
  MAX_SIZE_SP_MAT,   \* elements a matrix has room for (7020)
  N                  \* rows and columns of the matrices

ASSUME CsrAssumption ==
  /\ {MAX_SIZE, MAX_SIZE_SP_MAT} \subseteq Nat \ {0}
  /\ N \in 1 .. MAX_SIZE

Index == 0 .. N - 1

Place == 0 .. MAX_SIZE_SP_MAT - 1

(* What a matrix may hold; the mapping of its counters to numbers is that *)
(* of the code: nz_cnt is the number of elements less one.                 *)
CsrMatrix ==
  [data : [Place -> Int], col_idx : [Place -> 0 .. MAX_SIZE - 1],
   row_ptr : [0 .. MAX_SIZE -> 0 .. MAX_SIZE_SP_MAT],
   max_line : 0 .. MAX_SIZE, nz_cnt : Place, max_order : Int,
   overrun : BOOLEAN]

(* Mutant: the row pointers of the matrix before stay.                     *)
init_keep_rows(mat) ==
  [mat EXCEPT !.nz_cnt = 0, !.max_line = 0, !.max_order = 0]

EmptyCsr ==
  [data |-> [k \in Place |-> 0], col_idx |-> [k \in Place |-> 0],
   row_ptr |-> [l \in 0 .. MAX_SIZE |-> 0], max_line |-> 0, nz_cnt |-> 0,
   max_order |-> 0, overrun |-> FALSE]

init_sp_mat(mat) == EmptyCsr

Row(mat, i) == mat.row_ptr[i] .. mat.row_ptr[i + 1] - 1

(* The search along row i for column j ends at the first element that is   *)
(* not before it, or behind the row.                                       *)
Search(mat, i, j) ==
  Min({k \in Row(mat, i) : mat.col_idx[k] >= j} \cup {mat.row_ptr[i + 1]})

Holds(mat, i, j) ==
  LET k == Search(mat, i, j) IN k \in Row(mat, i) /\ mat.col_idx[k] = j

already_added(mat, i, j) == Holds(mat, i, j)

get_element(mat, i, j) ==
  IF Holds(mat, i, j) THEN mat.data[Search(mat, i, j)] ELSE 0

get_element_sym(mat, i, j) ==
  IF i < j THEN get_element(mat, j, i) ELSE get_element(mat, i, j)

----------------------------------------------------------------------------
(* Insertion: first the two arrays, then the row pointers and counters. *)

(* The counters of a matrix that has no element yet.                       *)
Started(mat) ==
  IF mat.max_line = 0 THEN [mat EXCEPT !.max_order = -1, !.nz_cnt = -1]
                      ELSE mat

(* Array a, the last place used is last, with value put in at a place.     *)
Shifted(a, at, last, value) ==
  [k \in DOMAIN a |-> IF k = at THEN value
                      ELSE IF at < k /\ k <= last + 1 THEN a[k - 1] ELSE a[k]]

(* A new element goes to its place in its row, or behind all others.       *)
PlaceOf(mat, i, j) ==
  IF i * N + j <= mat.max_order THEN Search(mat, i, j) ELSE mat.nz_cnt + 1

ArraysWritten(mat, i, j, value) ==
  LET at == PlaceOf(mat, i, j)
  IN  [mat EXCEPT !.data = Shifted(@, at, mat.nz_cnt, value),
                  !.col_idx = Shifted(@, at, mat.nz_cnt, j)]

(* Mutant: the row that the element is in does not grow.                   *)
LinkedBefore(mat, i) ==
  [mat EXCEPT
    !.row_ptr = [l \in DOMAIN @ |->
                   IF i + 1 < l /\ l <= mat.max_line THEN @[l] + 1 ELSE @[l]],
    !.nz_cnt = @ + 1]

LinkedInside(mat, i) ==
  [mat EXCEPT
    !.row_ptr = [l \in DOMAIN @ |->
                   IF i < l /\ l <= mat.max_line THEN @[l] + 1 ELSE @[l]],
    !.nz_cnt = @ + 1]

(* The rows between the last one so far and row i are empty.               *)
LinkedLast(mat, i, j) ==
  LET skipped == [l \in DOMAIN mat.row_ptr |->
                    IF mat.max_line < l /\ l <= i + 1
                      THEN mat.row_ptr[mat.max_line] ELSE mat.row_ptr[l]]
  IN  [mat EXCEPT !.row_ptr = [skipped EXCEPT ![i + 1] = @ + 1],
                  !.nz_cnt = @ + 1,
                  !.max_line = i + 1,
                  !.max_order = i * N + j]

Linked(mat, i, j) ==
  IF i * N + j <= mat.max_order THEN LinkedInside(mat, i)
                                ELSE LinkedLast(mat, i, j)

(* The assertion compares nz_cnt + 1, the number of elements, with the     *)
(* size, so it admits one more element than there are places: that write   *)
(* overruns the arrays, and nothing is said about the matrix then.         *)
insert_element(mat, i, j, value) ==
  LET m == Started(mat) IN
    IF value = 0 \/ mat.overrun THEN mat
    ELSE IF i * N + j <= m.max_order /\ Holds(m, i, j)
      THEN [m EXCEPT !.data[Search(m, i, j)] = value]
    ELSE IF m.nz_cnt + 1 = MAX_SIZE_SP_MAT THEN [mat EXCEPT !.overrun = TRUE]
    ELSE Linked(ArraysWritten(m, i, j, value), i, j)

add_to_element(mat, i, j, value) ==
  IF ~mat.overrun /\ Holds(mat, i, j)
    THEN [mat EXCEPT !.data[Search(mat, i, j)] = @ + value]
    ELSE insert_element(mat, i, j, value)

----------------------------------------------------------------------------
(* Transposition *)

Elements(mat) == 0 .. mat.row_ptr[mat.max_line] - 1

Upwards(first, last) == [n \in 1 .. last - first + 1 |-> first + n - 1]

RowOf(mat, k) == CHOOSE i \in 0 .. mat.max_line - 1 : k \in Row(mat, i)

(* The elements of mat, row by row, are inserted in mat_tr.                *)
transpose_lower_triangular(mat, mat_tr) ==
  FoldLeft(LAMBDA tr, k : insert_element(tr, mat.col_idx[k], RowOf(mat, k),
                                         mat.data[k]),
           mat_tr, Upwards(0, mat.row_ptr[mat.max_line] - 1))

transpose_lower_triangular_in_place(mat) ==
  transpose_lower_triangular(mat, init_sp_mat(mat))

----------------------------------------------------------------------------
(* A matrix in order *)

Count(m) == IF m.max_line = 0 THEN 0 ELSE m.nz_cnt + 1

(* The rows in order as in RowsInOrder; those that no insertion has reached *)
(* are empty whatever is before them.                                      *)
Sorted(m) ==
  /\ m \in CsrMatrix /\ m.max_line <= N
  /\ m.row_ptr[0] = 0 /\ m.row_ptr[m.max_line] = Count(m)
  /\ \A l, r \in 0 .. m.max_line : l <= r => m.row_ptr[l] <= m.row_ptr[r]
  /\ \A l \in m.max_line + 1 .. MAX_SIZE : m.row_ptr[l] = 0
  /\ \A i \in 0 .. m.max_line - 1 : \A k, q \in Row(m, i) :
       k < q => m.col_idx[k] < m.col_idx[q]
  /\ \A k \in 0 .. Count(m) - 1 : m.col_idx[k] \in Index

(* max_order is that of the last element, which is in the last row.        *)
LastIsLast(m) ==
  m.max_line > 0 =>
    /\ m.row_ptr[m.max_line - 1] <= m.nz_cnt
    /\ m.max_order = (m.max_line - 1) * N + m.col_idx[m.nz_cnt]
=============================================================================
