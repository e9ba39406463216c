---------------------------- MODULE CholeskyTeam ----------------------------
(***************************************************************************)
(* The Cholesky decomposition on the cores of the cluster (cholesky.c).    *)
(* For each column j the master forks the team twice: the cores add up the *)
(* squares of row j, and, after the master has inserted the element of the *)
(* diagonal, compute the elements below it, each core some of the rows,    *)
(* and then, one core at a time, insert them.                              *)
(*                                                                         *)
(* An element of L is the element of H it is computed from and the columns *)
(* over which products are summed, as one number (Element).                *)
(***************************************************************************)
EXTENDS Rcm

CONSTANT NUM_CORES    \* 8

ASSUME CoresAssumption == NUM_CORES \in Nat \ {0}

VARIABLES
  H_L1,          \* the copy of H the cluster reads
  L_L1,          \* the factor
  j,             \* the column
  sum_global,    \* the columns over which row j is squared
  core           \* per core: where it is, its sum, its row, its new elements

choleskyVars == <<H_L1, L_L1, j, sum_global, core>>

Core == 0 .. NUM_CORES - 1

(* A sum of products as a number: column k is bit k.                       *)
Bit(k) == TwoTo(k)

BitIn(columns, k) == IF k \in columns THEN Bit(k) ELSE 0

SumOf(columns) ==
  FoldLeft(LAMBDA s, k : s + BitIn(columns, k), 0, Upwards(0, N - 1))

Element(h, sum) == h * Bit(N) + sum

----------------------------------------------------------------------------
(* Reading *)

(* The columns that rows i and r both have up to max_col.  start runs      *)
(* along row i, up to the first element that is not before that of row r.  *)
sparse_dot_product(mat, i, r, max_col) ==
  LET Scan(acc, k) ==
        LET c == mat.col_idx[k]
            stops == {o \in acc.start .. mat.row_ptr[i + 1] - 1 :
                        mat.col_idx[o] >= c}
        IN  IF c > max_col \/ stops = {} THEN acc
            ELSE [start |-> Min(stops),
                  columns |-> IF mat.col_idx[Min(stops)] = c
                                THEN acc.columns \cup {c} ELSE acc.columns]
  IN  FoldLeft(Scan, [start |-> mat.row_ptr[i], columns |-> {}],
               Upwards(mat.row_ptr[r], mat.row_ptr[r + 1] - 1)).columns

(* What core c does of n iterations.                                       *)
Share(c, n) ==
  ((c * n) \div NUM_CORES) .. (((c + 1) * n) \div NUM_CORES) - 1

At(pc) == {c \in Core : core[c].pc = pc}

----------------------------------------------------------------------------
(* cluster_cholesky_sum *)

(* The data of the job come from L2.                                       *)
BeginCholesky ==
  /\ H_L1' = sp_mat0
  /\ L_L1' = init_sp_mat(L_L1)
  /\ j' = 0
  /\ sum_global' = 0
  /\ core' = [c \in Core |-> [core[c] EXCEPT !.pc = "sum"]]

SumShare(c) ==
  /\ core[c].pc = "sum"
  /\ core' = [core EXCEPT
       ![c].pc = "enter_sum",
       ![c].sum = SumOf({k \in Share(c, j) : get_element(L_L1, j, k) # 0})]
  /\ UNCHANGED <<H_L1, L_L1, j, sum_global>>

(* In the critical section sum_global is read ...                          *)
EnterSum(c) ==
  /\ At("add") = {}
  /\ core[c].pc = "enter_sum"
  /\ core' = [core EXCEPT ![c].pc = "add", ![c].sum = @ + sum_global]
  /\ UNCHANGED <<H_L1, L_L1, j, sum_global>>

(* ... and written.                                                        *)
AddSum(c) ==
  /\ core[c].pc = "add"
  /\ core' = [core EXCEPT ![c].pc = "summed"]
  /\ sum_global' = core[c].sum
  /\ UNCHANGED <<H_L1, L_L1, j>>

----------------------------------------------------------------------------
(* cluster_cholesky_inner_loop *)

RowsOf(c) == {j + 1 + k : k \in Share(c, N - j - 1)}

(* Mutant: a core does not wait for the others before it inserts.          *)
GoesOnToInsert(rows) == IF rows = {} THEN "enter" ELSE "rows"

(* A core that has computed its rows waits at the first barrier.           *)
RowsOrBarrier(rows) == IF rows = {} THEN "computed" ELSE "rows"

(* A core at the start of its inner loop.                                  *)
Forked(c) ==
  [pc |-> RowsOrBarrier(RowsOf(c)), sum |-> 0, rows |-> RowsOf(c),
   new |-> <<>>]

(* The team has joined; the master inserts the element of the diagonal and *)
(* forks the team again.                                                   *)
InsertDiagonal ==
  /\ At("summed") = Core
  /\ L_L1' = insert_element(L_L1, j, j,
               Element(get_element_sym(H_L1, perm[j], perm[j]), sum_global))
  /\ core' = [c \in Core |-> Forked(c)]
  /\ UNCHANGED <<H_L1, j, sum_global>>

(* The first of the rows that are left; an element that is 0 is left out.  *)
ComputeRow(c) ==
  /\ core[c].pc = "rows"
  /\ LET i == Min(core[c].rows)
         rows == core[c].rows \ {i}
         element == Element(get_element_sym(H_L1, perm[i], perm[j]),
                            SumOf(sparse_dot_product(L_L1, j, i, j - 1)))
     IN  core' = [core EXCEPT
           ![c].pc = RowsOrBarrier(rows),
           ![c].rows = rows,
           ![c].new = IF element = 0 THEN @ ELSE Append(@, <<i, element>>)]
  /\ UNCHANGED <<H_L1, L_L1, j, sum_global>>

(* The barrier opens when all cores have reached it.                       *)
Barrier ==
  /\ At("computed") = Core
  /\ core' = [c \in Core |-> [core[c] EXCEPT !.pc = "enter"]]
  /\ UNCHANGED <<H_L1, L_L1, j, sum_global>>

NobodyInserts == At("insert") \cup At("link") = {}

EnterInsert(c) ==
  /\ core[c].pc = "enter"
  /\ NobodyInserts
  /\ core' = [core EXCEPT
       ![c].pc = IF core[c].new = <<>> THEN "inserted" ELSE "insert"]
  /\ UNCHANGED <<H_L1, L_L1, j, sum_global>>

(* insert_element in two steps: the arrays ...                             *)
InsertArrays(c) ==
  /\ core[c].pc = "insert"
  /\ LET row == core[c].new[1][1]  element == core[c].new[1][2] IN
       L_L1' = ArraysWritten(L_L1, row, j, element)
  /\ core' = [core EXCEPT ![c].pc = "link"]
  /\ UNCHANGED <<H_L1, j, sum_global>>

(* ... and the row pointers.  After its last element the core leaves the   *)
(* critical section.                                                       *)
InsertPointers(c) ==
  /\ core[c].pc = "link"
  /\ L_L1' = Linked(L_L1, core[c].new[1][1], j)
  /\ core' = [core EXCEPT
       ![c].new = Tail(@),
       ![c].pc = IF Len(core[c].new) = 1 THEN "inserted" ELSE "insert"]
  /\ UNCHANGED <<H_L1, j, sum_global>>

(* The team has joined.                                                    *)
NextColumn ==
  /\ At("inserted") = Core
  /\ j + 1 < N
  /\ j' = j + 1
  /\ sum_global' = 0
  /\ core' = [c \in Core |-> [core[c] EXCEPT !.pc = "sum"]]
  /\ UNCHANGED <<H_L1, L_L1>>

(* The factor goes back to L2, in the place of H.                          *)
EndCholesky ==
  /\ At("inserted") = Core
  /\ j + 1 = N
  /\ core' = [c \in Core |-> [core[c] EXCEPT !.pc = "idle"]]
  /\ UNCHANGED <<H_L1, L_L1, j, sum_global>>

CoreStep(c) ==
  \/ SumShare(c) \/ EnterSum(c) \/ AddSum(c) \/ ComputeRow(c)
  \/ EnterInsert(c) \/ InsertArrays(c) \/ InsertPointers(c)

TeamStep == InsertDiagonal \/ Barrier \/ NextColumn

----------------------------------------------------------------------------
(* The factor, defined without a team *)

(* The element of row i and column k: that of the ordered matrix h and the *)
(* columns in which the factor m has an element in both rows.              *)
CholeskyElement(m, h, p, i, k) ==
  Element(get_element_sym(h, p[i], p[k]),
          SumOf({c \in 0 .. k - 1 :
                   get_element(m, i, c) # 0 /\ get_element(m, k, c) # 0}))

ColumnDone(m, h, p, k) ==
  \A i \in k .. N - 1 : get_element(m, i, k) = CholeskyElement(m, h, p, i, k)

----------------------------------------------------------------------------
(* Why the team computes it *)

NewElements == Seq(Index \X Int)

CoreState ==
  [pc : {"idle", "sum", "enter_sum", "add", "summed", "rows", "computed",
         "enter", "insert", "link", "inserted"},
   sum : Nat, rows : SUBSET Index, new : NewElements]

(* The matrix that L_L1 is when the core at "link" has linked its element. *)
Complete ==
  IF At("link") = {} THEN L_L1
  ELSE Linked(L_L1, core[CHOOSE c \in Core : core[c].pc = "link"].new[1][1], j)

(* A lower triangular matrix with no element that is zero.                 *)
Factor(m) ==
  /\ Sorted(m) /\ LastIsLast(m) /\ ~m.overrun
  /\ \A a \in Index : \A k \in Row(m, a) : m.data[k] # 0 /\ m.col_idx[k] <= a

(* The columns before k are computed, and those behind it empty.           *)
FactorUpTo(m, h, p, k) ==
  /\ Factor(m)
  /\ k > 0 => m.max_line > 0
  /\ \A c \in 0 .. k - 1 : ColumnDone(m, h, p, c)
  /\ \A c \in k + 1 .. N - 1 : \A i \in Index : get_element(m, i, c) = 0

AllAt(pcs) == \A c \in Core : core[c].pc \in pcs

AtMostOne(pcs) ==
  \A c, d \in Core : core[c].pc \in pcs /\ core[d].pc \in pcs => c = d

(* The columns of row k that are in the share of core c.                   *)
Squared(m, c, k) == {i \in Share(c, k) : get_element(m, k, i) # 0}

(* The cores add up; what they have contributed is sum_global.             *)
SumInv ==
  /\ AllAt({"sum", "enter_sum", "add", "summed"})
  /\ AtMostOne({"add"})
  /\ \A i \in Index : get_element(L_L1, i, j) = 0
  /\ sum_global = SumOf(UNION {Squared(L_L1, c, j) : c \in At("summed")})
  /\ \A c \in Core :
       /\ core[c].pc = "enter_sum" => core[c].sum = SumOf(Squared(L_L1, c, j))
       /\ core[c].pc = "add" =>
            core[c].sum = sum_global + SumOf(Squared(L_L1, c, j))

(* Column k, and what it is to be.                                         *)
Present(m, k) == [i \in Index |-> get_element(m, i, k)]
Wanted(m, h, p, k) == [i \in Index |-> CholeskyElement(m, h, p, i, k)]

(* Of the rows that are its own, those the core in this state has still to *)
(* compute are empty; those it has computed, but for the zero ones, are in *)
(* new in their order, and those of them that are pending are empty as     *)
(* yet; all others are done.                                               *)
RowsInv(own, state, present, wanted) ==
  LET new == state.new
      pending == (IF state.pc = "link" THEN 2 ELSE 1) .. Len(new)
  IN  /\ state.rows \subseteq own
      /\ \A i \in state.rows : present[i] = 0
      /\ \A x \in DOMAIN new :
           /\ new[x][1] \in own \ state.rows
           /\ new[x][2] # 0 /\ new[x][2] = wanted[new[x][1]]
      /\ \A x, y \in DOMAIN new : new[x][1] = new[y][1] => x = y
      /\ \A x \in pending : present[new[x][1]] = 0
      /\ \A i \in own : \/ i \in state.rows
                        \/ \E x \in pending : new[x][1] = i
                        \/ present[i] = wanted[i]

(* Nobody inserts while one computes; one at a time inserts.               *)
ColumnInv ==
  /\ AllAt({"rows", "computed"}) \/ AllAt({"enter", "insert", "link", "inserted"})
  /\ AtMostOne({"insert", "link"})
  /\ Complete.max_line > 0
  /\ Present(Complete, j)[j] = Wanted(Complete, H_L1, perm, j)[j]
  /\ \A c \in Core :
       /\ RowsInv(RowsOf(c), core[c], Present(Complete, j),
                  Wanted(Complete, H_L1, perm, j))
       /\ core[c].pc = "rows" <=> core[c].rows # {}
       /\ core[c].pc \in {"insert", "link"} => core[c].new # <<>>
       /\ core[c].pc = "inserted" => core[c].new = <<>>

TeamInv ==
  /\ j \in Index
  /\ FactorUpTo(Complete, H_L1, perm, j)
  /\ SumInv \/ ColumnInv
=============================================================================
