---------------------------- MODULE SparseMatrix ----------------------------
(***************************************************************************)
(* A sparse matrix under any sequence of the calls that its users make     *)
(* (graph-based-slam.c, cholesky.c, rcm-sparse-matrix.c): elements come in *)
(* any order, before, behind and on top of others.  Beside it, the matrix  *)
(* that the calls speak of ("the equivalent dense matrix").                *)
(***************************************************************************)
EXTENDS Csr

CONSTANT MaxValue    \* bound: the numbers inserted and their sums

ASSUME SparseAssumption == MaxValue \in Nat

VARIABLES
  mat,     \* the sparse matrix
  dense    \* history: the equivalent dense matrix

matrixVars == <<mat, dense>>

Value == -MaxValue .. MaxValue

MatrixTypeOK == mat \in CsrMatrix /\ dense \in [Index \X Index -> Value]

MatrixInit == mat = init_sp_mat(EmptyCsr) /\ dense = [e \in Index \X Index |-> 0]

(* A negligible number is not inserted, not even in the place of another.  *)
Insert(i, j, value) ==
  /\ mat' = insert_element(mat, i, j, value)
  /\ dense' = IF value = 0 THEN dense ELSE [dense EXCEPT ![<<i, j>>] = value]

AddTo(i, j, value) ==
  /\ dense[<<i, j>>] + value \in Value
  /\ mat' = add_to_element(mat, i, j, value)
  /\ dense' = [dense EXCEPT ![<<i, j>>] = @ + value]

Transpose ==
  /\ mat' = transpose_lower_triangular_in_place(mat)
  /\ dense' = [e \in Index \X Index |-> dense[<<e[2], e[1]>>]]

Empty == mat' = init_sp_mat(mat) /\ dense' = [e \in Index \X Index |-> 0]

MatrixNext ==
  /\ ~mat.overrun
  /\ \/ \E i, j \in Index, value \in Value :
          Insert(i, j, value) \/ AddTo(i, j, value)
     \/ Transpose
     \/ Empty

MatrixSpec == MatrixInit /\ [][MatrixNext]_matrixVars

----------------------------------------------------------------------------
(* Correctness *)

(* No index leaves its array; the rows follow each other without gap or    *)
(* overlap, up to the last element, and the columns of a row increase:     *)
(* every search stops at the first column that is not smaller              *)
(* (sparse-matrix.c:104-139, cholesky.c:50-65).                            *)
RowsInOrder ==
  /\ MatrixTypeOK
  /\ mat.row_ptr[0] = 0
  /\ \A i \in 0 .. mat.max_line - 1 : mat.row_ptr[i] <= mat.row_ptr[i + 1]
  /\ mat.row_ptr[mat.max_line] =
       IF mat.max_line = 0 THEN 0 ELSE mat.nz_cnt + 1
  /\ \A i \in 0 .. mat.max_line - 1 : \A k, m \in Row(mat, i) :
       k < m => mat.col_idx[k] < mat.col_idx[m]

(* Read element by element, it is the equivalent dense matrix, also in the *)
(* rows that no insertion has reached yet (sparse-matrix.h:36-76), unless  *)
(* its arrays were overrun.                                                *)
ReadsDense ==
  ~mat.overrun =>
    \A i, j \in Index : get_element(mat, i, j) = dense[<<i, j>>]

----------------------------------------------------------------------------
(* Why it is correct: the invariant every call preserves.                  *)
MatrixInv == MatrixTypeOK /\ Sorted(mat) /\ LastIsLast(mat) /\ ReadsDense
=============================================================================
