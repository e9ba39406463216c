---------------------------- MODULE SolverProofs ----------------------------
(***************************************************************************)
(* Proofs about the sparse matrices and the solver that uses them.         *)
(*                                                                         *)
(* Under any sequence of calls the rows of a matrix stay in order and it   *)
(* reads as the dense one, whatever its size (SparseMatrix).  In every     *)
(* iteration of ls_slam the matrix that is built has what its edges put    *)
(* there and something on its whole diagonal, the ordering is a            *)
(* permutation, the cores compute the Cholesky factor in any order of      *)
(* their steps, and the solution is put back in its place (LsSlam), for    *)
(* any number of poses and cores.                                          *)
(*                                                                         *)
(* Parts: folds; the search along a row, an insertion, the transposition;  *)
(* sums of columns and the shares of the cores; the equations; the sort,   *)
(* the queue and the ordering; the factor, the rows of a core, the steps   *)
(* of cores and team; the steps of ls_slam; the elements of H.             *)
(***************************************************************************)
EXTENDS SparseMatrix, LsSlam, WellFoundedInduction, FiniteSetTheorems, TLAPS

----------------------------------------------------------------------------
(* Least elements and folds *)

LEMMA HasLeast ==
  ASSUME NEW S \in SUBSET Nat, S # {}
  PROVE  Min(S) \in S /\ \A x \in S : Min(S) <= x
<1>1. PICK x \in S : \A y \in S : ~(<<y, x>> \in OpToRel(<, Nat))
  BY NatLessThanWellFounded, WFMin
<1>2. \A y \in S : x <= y
  <2> TAKE y \in S
  <2>1. x \in Nat /\ y \in Nat
    OBVIOUS
  <2>2. ~(y < x)
    BY <1>1, <2>1 DEF OpToRel
  <2>3. QED BY <2>1, <2>2
<1>3. QED BY <1>2 DEF Min

LEMMA HasGreatest ==
  ASSUME NEW n \in Nat, NEW S \in SUBSET (0 .. n), S # {}
  PROVE  Max(S) \in S /\ \A x \in S : x <= Max(S)
<1> DEFINE T == {n - x : x \in S}
<1>1. \A x \in S : x \in Nat /\ n - x \in Nat
  OBVIOUS
<1>2. T \in SUBSET Nat /\ T # {}
  BY <1>1
<1>3. Min(T) \in T /\ \A y \in T : Min(T) <= y
  BY <1>2, HasLeast
<1>4. PICK x \in S : Min(T) = n - x
  BY <1>3
<1>5. \A y \in S : y <= x
  <2> TAKE y \in S
  <2>1. n - y \in T
    OBVIOUS
  <2>2. n - x <= n - y
    BY <1>3, <1>4, <2>1
  <2>3. QED BY <1>1, <2>2
<1>6. QED BY <1>5 DEF Max

(* What holds of 0 and of each number after one of which it holds.         *)
LEMMA UpTo ==
  ASSUME NEW n \in Nat, NEW T, 0 \in T, \A k \in 1 .. n : k - 1 \in T => k \in T
  PROVE  \A k \in 0 .. n : k \in T
<1> DEFINE S == {k \in 0 .. n : k \notin T}
<1>1. SUFFICES ASSUME S # {} PROVE FALSE
  OBVIOUS
<1>2. S \in SUBSET Nat
  OBVIOUS
<1>3. PICK k \in S : \A l \in S : k <= l
  BY <1>1, <1>2, HasLeast
<1>4. k \in 0 .. n /\ k \notin T /\ k # 0
  BY <1>3
<1>5. k \in 1 .. n /\ k - 1 \in 0 .. n /\ ~(k <= k - 1)
  BY <1>4
<1>6. k - 1 \in T
  BY <1>3, <1>5
<1>7. QED BY <1>4, <1>5, <1>6

LEMMA GreatestOfFirst ==
  ASSUME NEW k \in Nat, NEW s \in SUBSET (1 .. k), k \in s
  PROVE  Max(s) = k
<1>1. \A x \in s : k >= x
  OBVIOUS
<1>2. Max(s) \in s /\ \A y \in s : Max(s) >= y
  BY <1>1 DEF Max
<1>3. k >= Max(s) /\ Max(s) >= k /\ Max(s) \in 1 .. k
  BY <1>1, <1>2
<1>4. \A x \in 1 .. k : k >= x /\ x >= k => x = k
  OBVIOUS
<1>5. QED BY <1>3, <1>4

(* g folds f over the sets of the first n places.                          *)
FoldOf(f, base, n, g) ==
  \A s \in SUBSET (1 .. n) :
    g[s] = IF s = {} THEN base ELSE f[<<g[s \ {Max(s)}], Max(s)>>]

LEMMA FoldExists ==
  ASSUME NEW n \in Nat, NEW A, NEW base \in A, NEW f \in [A \X (1 .. n) -> A]
  PROVE  \E g \in [SUBSET (1 .. n) -> A] : FoldOf(f, base, n, g)
<1> DEFINE T == {k \in 0 .. n : \E g \in [SUBSET (1 .. k) -> A] : FoldOf(f, base, k, g)}
<1>1. 0 \in T
  <2> DEFINE g == [s \in SUBSET (1 .. 0) |-> base]
  <2>1. \A s \in SUBSET (1 .. 0) : s = {}
    OBVIOUS
  <2>2. FoldOf(f, base, 0, g)
    BY <2>1 DEF FoldOf
  <2>3. QED BY <2>2
<1>2. ASSUME NEW k \in 1 .. n, k - 1 \in T
      PROVE  k \in T
  <2>1. k \in Nat /\ k - 1 \in Nat
    OBVIOUS
  <2>2. PICK h \in [SUBSET (1 .. k - 1) -> A] : FoldOf(f, base, k - 1, h)
    BY <1>2
  <2> DEFINE F(s) == IF k \in s THEN f[<<h[s \ {k}], k>>] ELSE h[s]
             g == [s \in SUBSET (1 .. k) |-> F(s)]
  <2>3. \A s \in SUBSET (1 .. k) : s \ {k} \in SUBSET (1 .. k - 1)
    BY <2>1
  <2>4. ASSUME NEW s \in SUBSET (1 .. k)
        PROVE  F(s) \in A /\ F(s) = IF s = {} THEN base ELSE f[<<g[s \ {Max(s)}], Max(s)>>]
    <3>1. CASE k \in s
      <4>1. Max(s) = k
        BY <2>1, <3>1, GreatestOfFirst
      <4>2. s \ {k} \in SUBSET (1 .. k) /\ ~(k \in s \ {k}) /\ s # {}
        BY <3>1
      <4>3. g[s \ {k}] = h[s \ {k}] /\ h[s \ {k}] \in A
        BY <2>2, <2>3, <4>2
      <4>4. F(s) = f[<<h[s \ {k}], k>>]
        BY <3>1
      <4> HIDE DEF g, F
      <4>5. <<h[s \ {k}], k>> \in A \X (1 .. n)
        BY <4>3
      <4>6. QED BY <4>1, <4>2, <4>3, <4>4, <4>5
    <3>2. CASE k \notin s
      <4>1. s \in SUBSET (1 .. k - 1)
        BY <2>3, <3>2
      <4>2. h[s] \in A /\ h[s] = IF s = {} THEN base ELSE f[<<h[s \ {Max(s)}], Max(s)>>]
        BY <2>2, <4>1 DEF FoldOf
      <4>3. s \ {Max(s)} \in SUBSET (1 .. k) /\ k \notin s \ {Max(s)}
        BY <3>2
      <4>4. g[s \ {Max(s)}] = h[s \ {Max(s)}]
        BY <4>3
      <4>5. F(s) = h[s]
        BY <3>2
      <4> HIDE DEF g, F
      <4>6. QED BY <4>2, <4>4, <4>5
    <3>3. QED BY <3>1, <3>2
  <2> HIDE DEF F
  <2>5. g \in [SUBSET (1 .. k) -> A] /\ \A s \in SUBSET (1 .. k) : g[s] = F(s)
    BY <2>4
  <2> HIDE DEF g
  <2>6. FoldOf(f, base, k, g)
    BY <2>4, <2>5 DEF FoldOf
  <2>7. k \in 0 .. n
    OBVIOUS
  <2>8. QED BY <2>5, <2>6, <2>7
<1> HIDE DEF T
<1>3. n \in T
  BY <1>1, <1>2, UpTo
<1>4. QED BY <1>3 DEF T

(* The first k places, and none.                                           *)
LEMMA FirstPlaces ==
  \A n \in Nat : \A k \in 1 .. n :
    Max(1 .. k) = k /\ (1 .. k) \ {k} = 1 .. k - 1 /\ 1 .. k # {}
    /\ 1 .. k \in SUBSET (1 .. n)
<1> TAKE n \in Nat
<1> TAKE k \in 1 .. n
<1>1. k \in Nat /\ k \in 1 .. k /\ 1 .. k \in SUBSET (1 .. k)
  OBVIOUS
<1>2. Max(1 .. k) = k
  BY <1>1, GreatestOfFirst
<1>3. (1 .. k) \ {k} = 1 .. k - 1 /\ 1 .. k # {} /\ 1 .. k \in SUBSET (1 .. n)
  BY <1>1
<1>4. QED BY <1>2, <1>3

LEMMA Nothing == 1 .. 0 = {}
OBVIOUS

LEMMA GreatestIn ==
  ASSUME NEW n \in Nat, NEW s \in SUBSET (1 .. n), s # {}
  PROVE  Max(s) \in s
<1>1. s \in SUBSET (0 .. n)
  OBVIOUS
<1>2. QED BY <1>1, HasGreatest

(* The results for the first k places, one after the other.                *)
HasSteps(h, f, A, n) ==
  \A k \in 1 .. n : h[1 .. k - 1] \in A => h[1 .. k] = f[<<h[1 .. k - 1], k>>]

Chain(c, f, base, n, last) ==
  c[0] = base /\ c[n] = last /\ \A k \in 1 .. n : c[k] = f[<<c[k - 1], k>>]

LEMMA ChainOf ==
  ASSUME NEW n \in Nat, NEW A, NEW base \in A, NEW f \in [A \X (1 .. n) -> A],
         NEW h, h[1 .. 0] = base, HasSteps(h, f, A, n)
  PROVE  \E c \in [0 .. n -> A] : Chain(c, f, base, n, h[1 .. n])
<1> DEFINE c == [k \in 0 .. n |-> h[1 .. k]]
           T == {k \in 0 .. n : h[1 .. k] \in A}
<1>1. 0 \in T
  OBVIOUS
<1>2. \A k \in 1 .. n : k \in 0 .. n /\ k - 1 \in 0 .. n
  OBVIOUS
<1>3. \A k \in 1 .. n : k - 1 \in T => k \in T
  BY <1>2 DEF HasSteps
<1> HIDE DEF T
<1>4. \A k \in 0 .. n : k \in T
  BY <1>1, <1>3, UpTo
<1>5. \A k \in 0 .. n : h[1 .. k] \in A
  BY <1>4 DEF T
<1>6. c \in [0 .. n -> A]
  BY <1>5
<1>7. c[0] = base /\ c[n] = h[1 .. n]
  OBVIOUS
<1>8. \A k \in 1 .. n : c[k] = f[<<c[k - 1], k>>]
  <2> TAKE k \in 1 .. n
  <2>1. c[k] = h[1 .. k] /\ c[k - 1] = h[1 .. k - 1] /\ h[1 .. k - 1] \in A
    BY <1>2, <1>5
  <2> HIDE DEF c
  <2>2. QED BY <2>1 DEF HasSteps
<1> HIDE DEF c
<1>9. QED BY <1>6, <1>7, <1>8 DEF Chain

----------------------------------------------------------------------------
(* Numbers. *)

LEMMA Product ==
  ASSUME NEW a \in Nat, NEW col \in Nat, NEW n \in Nat, a < col
  PROVE  a * n + n <= col * n /\ a * n \in Nat /\ col * n \in Nat
<1>1. PICK c \in Nat : col = a + 1 + c
  <2>1. col - a - 1 \in Nat /\ col = a + 1 + (col - a - 1)
    OBVIOUS
  <2>2. QED BY <2>1
<1>2. col * n = a * n + n + c * n
  BY <1>1
<1>3. \A x, y \in Nat : x * y \in Nat
  OBVIOUS
<1>4. a * n \in Nat /\ col * n \in Nat /\ c * n \in Nat
  BY <1>3
<1>5. QED BY <1>2, <1>4

----------------------------------------------------------------------------
(* A matrix in order. *)

LEMMA Sizes ==
  /\ MAX_SIZE \in Nat /\ MAX_SIZE_SP_MAT \in Nat /\ 0 < MAX_SIZE_SP_MAT
  /\ N \in Nat /\ 0 < N /\ N <= MAX_SIZE
  /\ \A i \in Index : i \in Nat /\ i < N /\ i + 1 \in 0 .. MAX_SIZE /\ i \in 0 .. MAX_SIZE
BY CsrAssumption, SparseAssumption DEF Index

LEMMA FieldTypes ==
  ASSUME NEW m, Sorted(m)
  PROVE  /\ m.max_line \in Nat /\ m.max_line <= N
         /\ m.data \in [Place -> Int] /\ m.col_idx \in [Place -> 0 .. MAX_SIZE - 1]
         /\ m.row_ptr \in [0 .. MAX_SIZE -> 0 .. MAX_SIZE_SP_MAT]
         /\ m.nz_cnt \in Nat /\ m.nz_cnt < MAX_SIZE_SP_MAT /\ m.max_order \in Int
         /\ m.overrun \in BOOLEAN
<1>1. m \in CsrMatrix
  BY DEF Sorted
<1>2. /\ m.data \in [Place -> Int] /\ m.col_idx \in [Place -> 0 .. MAX_SIZE - 1]
      /\ m.row_ptr \in [0 .. MAX_SIZE -> 0 .. MAX_SIZE_SP_MAT]
      /\ m.max_line \in 0 .. MAX_SIZE /\ m.nz_cnt \in Place /\ m.max_order \in Int
      /\ m.overrun \in BOOLEAN
  BY <1>1 DEF CsrMatrix
<1>3. m.max_line <= N
  BY DEF Sorted
<1>4. m.max_line \in Nat /\ m.nz_cnt \in Nat /\ m.nz_cnt < MAX_SIZE_SP_MAT
  BY <1>2, Sizes DEF Place
<1>5. QED BY <1>2, <1>3, <1>4

LEMMA Entries ==
  ASSUME NEW m, Sorted(m)
  PROVE  /\ \A l \in 0 .. MAX_SIZE : m.row_ptr[l] \in Nat /\ m.row_ptr[l] <= MAX_SIZE_SP_MAT
         /\ \A k \in Place : m.col_idx[k] \in Nat /\ m.data[k] \in Int
         /\ Count(m) \in Nat /\ Count(m) <= MAX_SIZE_SP_MAT
         /\ \A k \in 0 .. Count(m) - 1 : k \in Place /\ m.col_idx[k] \in Index
<1>1. \A l \in 0 .. MAX_SIZE : m.row_ptr[l] \in Nat /\ m.row_ptr[l] <= MAX_SIZE_SP_MAT
  BY FieldTypes, Sizes
<1>2. \A k \in Place : m.col_idx[k] \in Nat /\ m.data[k] \in Int
  BY FieldTypes, Sizes
<1>3. Count(m) \in Nat /\ Count(m) <= MAX_SIZE_SP_MAT
  BY FieldTypes, Sizes DEF Count
<1>4. \A k \in 0 .. Count(m) - 1 : k \in Place
  BY <1>3, Sizes DEF Place
<1>5. \A k \in 0 .. Count(m) - 1 : m.col_idx[k] \in Index
  BY DEF Sorted
<1>6. QED BY <1>1, <1>2, <1>3, <1>4, <1>5

(* Where row l begins once there is something behind it.                   *)
Start(m, l) == IF l <= m.max_line THEN m.row_ptr[l] ELSE Count(m)

LEMMA StartGrows ==
  ASSUME NEW m, Sorted(m), NEW a \in 0 .. N, NEW col \in 0 .. N, a <= col
  PROVE  /\ Start(m, a) \in Nat /\ Start(m, col) \in Nat
         /\ Start(m, a) <= Start(m, col) /\ Start(m, col) <= Count(m)
<1>1. m.max_line \in 0 .. N /\ N \in Nat /\ N <= MAX_SIZE /\ MAX_SIZE \in Nat
  BY FieldTypes, Sizes
<1>2. Count(m) \in Nat /\ m.row_ptr[m.max_line] = Count(m)
  BY Entries DEF Sorted
<1>3. \A l \in 0 .. m.max_line : m.row_ptr[l] \in Nat /\ m.row_ptr[l] <= Count(m)
  <2> TAKE l \in 0 .. m.max_line
  <2>1. l \in 0 .. MAX_SIZE /\ m.max_line \in 0 .. m.max_line /\ l <= m.max_line
    BY <1>1
  <2>2. m.row_ptr[l] \in Nat
    BY <2>1, Entries
  <2>3. m.row_ptr[l] <= m.row_ptr[m.max_line]
    BY <2>1 DEF Sorted
  <2>4. QED BY <1>2, <2>2, <2>3
<1>4. \A l \in 0 .. N : Start(m, l) \in Nat /\ Start(m, l) <= Count(m)
  BY <1>1, <1>2, <1>3 DEF Start
<1>5. CASE col <= m.max_line
  <2>1. a \in 0 .. m.max_line /\ col \in 0 .. m.max_line /\ a <= m.max_line
    BY <1>1, <1>5
  <2>2. m.row_ptr[a] <= m.row_ptr[col]
    BY <2>1 DEF Sorted
  <2>3. QED BY <1>4, <1>5, <2>1, <2>2 DEF Start
<1>6. CASE ~(col <= m.max_line)
  <2>1. Start(m, col) = Count(m)
    BY <1>6 DEF Start
  <2>2. QED BY <1>2, <1>4, <2>1
<1>7. QED BY <1>5, <1>6

(* A row lies between its start and that of the next one; so does one that *)
(* no insertion has reached, which is empty.                               *)
LEMMA RowIs ==
  ASSUME NEW m, Sorted(m), NEW i \in Index
  PROVE  /\ Row(m, i) = Start(m, i) .. Start(m, i + 1) - 1
         /\ Row(m, i) \in SUBSET (0 .. Count(m) - 1)
         /\ Row(m, i) # {} => i < m.max_line
<1>1. /\ i \in Nat /\ i + 1 \in 0 .. N /\ i \in 0 .. N /\ i <= i + 1
      /\ i \in 0 .. MAX_SIZE /\ i + 1 \in 0 .. MAX_SIZE /\ m.max_line \in Nat
  BY Sizes, FieldTypes
<1>2. /\ Start(m, i) \in Nat /\ Start(m, i + 1) \in Nat
      /\ Start(m, i + 1) <= Count(m) /\ Count(m) \in Nat
  BY <1>1, StartGrows, Entries
<1>3. CASE i < m.max_line
  <2>1. Start(m, i) = m.row_ptr[i] /\ Start(m, i + 1) = m.row_ptr[i + 1]
    BY <1>1, <1>3 DEF Start
  <2>2. Row(m, i) = Start(m, i) .. Start(m, i + 1) - 1
    BY <2>1 DEF Row
  <2>3. QED BY <1>2, <1>3, <2>2
<1>4. CASE ~(i < m.max_line)
  <2>1. Start(m, i) = Count(m) /\ Start(m, i + 1) = Count(m)
    BY <1>1, <1>4 DEF Start, Sorted
  <2>2. m.row_ptr[i + 1] = 0
    <3>1. i + 1 \in m.max_line + 1 .. MAX_SIZE
      BY <1>1, <1>4
    <3>2. QED BY <3>1 DEF Sorted
  <2>3. m.row_ptr[i] \in Nat
    BY <1>1, Entries
  <2>4. Row(m, i) = {}
    BY <2>2, <2>3 DEF Row
  <2>5. Count(m) .. Count(m) - 1 = {}
    BY <1>2
  <2>6. QED BY <2>1, <2>4, <2>5
<1>5. QED BY <1>3, <1>4

(* The columns of a row increase, also in a row that is empty.             *)
LEMMA ColumnsIncrease ==
  ASSUME NEW m, Sorted(m), NEW i \in Index, NEW k \in Row(m, i), NEW h \in Row(m, i)
  PROVE  /\ k \in Nat /\ h \in Nat /\ k \in Place /\ h \in Place
         /\ m.col_idx[k] \in Nat /\ m.col_idx[h] \in Nat
         /\ k < h => m.col_idx[k] < m.col_idx[h]
<1>1. k \in 0 .. Count(m) - 1 /\ h \in 0 .. Count(m) - 1 /\ i < m.max_line
  BY RowIs
<1>2. k \in Place /\ h \in Place
  BY <1>1, Entries
<1>3. m.col_idx[k] \in Nat /\ m.col_idx[h] \in Nat
  BY <1>2, Entries
<1>4. i \in 0 .. m.max_line - 1
  BY <1>1, Sizes, FieldTypes
<1>5. k < h => m.col_idx[k] < m.col_idx[h]
  BY <1>4 DEF Sorted
<1>6. QED BY <1>1, <1>2, <1>3, <1>5

(* The search finds the place of column u in row i.                        *)
LEMMA SearchFinds ==
  ASSUME NEW m, Sorted(m), NEW i \in Index, NEW u \in Index, i < m.max_line
  PROVE  LET s == Search(m, i, u)
         IN  /\ s \in Start(m, i) .. Start(m, i + 1)
             /\ \A k \in Start(m, i) .. s - 1 : m.col_idx[k] < u
             /\ \A k \in s .. Start(m, i + 1) - 1 : u <= m.col_idx[k]
<1> DEFINE a == Start(m, i)
           col == Start(m, i + 1)
           Behind == {k \in Row(m, i) : m.col_idx[k] >= u}
           T == Behind \cup {col}
           s == Search(m, i, u)
<1>1. i \in Nat /\ u \in Nat /\ i + 1 \in 0 .. N /\ i \in 0 .. N /\ i <= i + 1
      /\ m.max_line \in Nat
  BY Sizes, FieldTypes
<1>2. a \in Nat /\ col \in Nat /\ a <= col
  BY <1>1, StartGrows
<1>3. Row(m, i) = a .. col - 1
  BY RowIs
<1>4. col = m.row_ptr[i + 1]
  BY <1>1 DEF Start
<1>5. s = Min(T)
  BY <1>4 DEF Search
<1>6. T \in SUBSET Nat /\ T # {}
  BY <1>2, <1>3
<1>7. s \in T /\ \A x \in T : s <= x
  BY <1>5, <1>6, HasLeast
<1> HIDE DEF s
<1>8. s \in a .. col
  <2>1. CASE s = col
    BY <1>2, <2>1
  <2>2. CASE s \in Behind
    BY <1>2, <1>3, <2>2
  <2>3. QED BY <1>7, <2>1, <2>2
<1>9. \A k \in a .. s - 1 : m.col_idx[k] < u
  <2> TAKE k \in a .. s - 1
  <2>1. k \in Row(m, i) /\ k < s
    BY <1>2, <1>3, <1>8
  <2>2. m.col_idx[k] \in Nat /\ k \in Nat
    BY <2>1, ColumnsIncrease
  <2>3. k \notin T
    BY <1>2, <1>7, <1>8, <2>1, <2>2
  <2>4. ~(m.col_idx[k] >= u)
    BY <2>1, <2>3
  <2>5. QED BY <1>1, <2>2, <2>4
<1>10. \A k \in s .. col - 1 : u <= m.col_idx[k]
  <2> TAKE k \in s .. col - 1
  <2>1. k \in Row(m, i) /\ s \in Row(m, i)
    BY <1>2, <1>3, <1>8
  <2>2. m.col_idx[s] >= u
    BY <1>2, <1>7, <1>8, <2>1
  <2>3. m.col_idx[k] \in Nat /\ m.col_idx[s] \in Nat /\ (s < k => m.col_idx[s] < m.col_idx[k])
    BY <2>1, ColumnsIncrease
  <2>4. s = k \/ s < k
    BY <1>2, <1>8
  <2>5. QED BY <1>1, <2>2, <2>3, <2>4
<1>11. QED BY <1>8, <1>9, <1>10 DEF s

(* An element is in its row at most once, and read where it is.            *)
LEMMA HoldsIs ==
  ASSUME NEW m, Sorted(m), NEW i \in Index, NEW u \in Index
  PROVE  /\ \A p \in Row(m, i) : m.col_idx[p] = u =>
              Holds(m, i, u) /\ Search(m, i, u) = p
         /\ Holds(m, i, u) => Search(m, i, u) \in Row(m, i)
                              /\ m.col_idx[Search(m, i, u)] = u
<1> DEFINE s == Search(m, i, u)
<1>1. ASSUME NEW p \in Row(m, i), m.col_idx[p] = u
      PROVE  s = p
  <2>1. i < m.max_line /\ Row(m, i) = Start(m, i) .. Start(m, i + 1) - 1
    BY <1>1, RowIs
  <2>2. /\ s \in Start(m, i) .. Start(m, i + 1)
        /\ \A k \in Start(m, i) .. s - 1 : m.col_idx[k] < u
        /\ \A k \in s .. Start(m, i + 1) - 1 : u <= m.col_idx[k]
    BY <2>1, SearchFinds
  <2>3. i \in 0 .. N /\ i + 1 \in 0 .. N /\ i <= i + 1 /\ u \in Nat
    BY Sizes
  <2>4. Start(m, i) \in Nat /\ Start(m, i + 1) \in Nat
    BY <2>3, StartGrows
  <2> HIDE DEF s
  <2>5. ~(p < s)
    <3> SUFFICES ASSUME p < s PROVE FALSE
      OBVIOUS
    <3>1. p \in Start(m, i) .. s - 1
      BY <2>1, <2>2, <2>4
    <3>2. m.col_idx[p] < u
      BY <2>2, <3>1
    <3>3. QED BY <1>1, <2>3, <3>2
  <2>6. ~(s < p)
    <3> SUFFICES ASSUME s < p PROVE FALSE
      OBVIOUS
    <3>1. s \in Row(m, i) /\ s \in s .. Start(m, i + 1) - 1
      BY <2>1, <2>2, <2>4
    <3>2. m.col_idx[s] \in Nat /\ m.col_idx[s] < m.col_idx[p]
      BY <3>1, ColumnsIncrease
    <3>3. u <= m.col_idx[s]
      BY <2>2, <3>1
    <3>4. QED BY <1>1, <2>3, <3>2, <3>3
  <2>7. QED BY <2>1, <2>2, <2>4, <2>5, <2>6
<1>2. QED BY <1>1 DEF Holds

LEMMA ReadIs ==
  ASSUME NEW m, Sorted(m), NEW i \in Index, NEW u \in Index
  PROVE  /\ \A p \in Row(m, i) : m.col_idx[p] = u => get_element(m, i, u) = m.data[p]
         /\ (\A p \in Row(m, i) : m.col_idx[p] # u) => get_element(m, i, u) = 0
<1>1. ASSUME NEW p \in Row(m, i), m.col_idx[p] = u
      PROVE  get_element(m, i, u) = m.data[p]
  <2>1. Holds(m, i, u) /\ Search(m, i, u) = p
    BY <1>1, HoldsIs
  <2>2. QED BY <2>1 DEF get_element
<1>2. ASSUME \A p \in Row(m, i) : m.col_idx[p] # u
      PROVE  get_element(m, i, u) = 0
  <2>1. ~Holds(m, i, u)
    BY <1>2, HoldsIs
  <2>2. QED BY <2>1 DEF get_element
<1>3. QED BY <1>1, <1>2

(* An element is compared with the last one by i * N + u.                  *)
LEMMA InOrder ==
  ASSUME NEW m, Sorted(m), LastIsLast(m), m.max_line > 0, NEW i \in Index, NEW u \in Index
  PROVE  /\ i * N + u <= m.max_order <=>
              \/ i < m.max_line - 1
              \/ i = m.max_line - 1 /\ u <= m.col_idx[m.nz_cnt]
         /\ m.col_idx[m.nz_cnt] \in Nat /\ m.nz_cnt \in Nat
<1> DEFINE L == m.max_line - 1
           c == m.col_idx[m.nz_cnt]
<1>1. m.max_line \in Nat /\ m.nz_cnt \in Nat /\ L \in Nat /\ Count(m) = m.nz_cnt + 1
  BY FieldTypes DEF Count
<1>2. m.nz_cnt \in 0 .. Count(m) - 1
  BY <1>1
<1>3. c \in Index
  BY <1>2, Entries
<1>4. c \in Nat /\ c < N /\ i \in Nat /\ u \in Nat /\ u < N /\ N \in Nat
  BY <1>3, Sizes
<1>5. m.max_order = L * N + c
  BY DEF LastIsLast
<1> HIDE DEF L, c
<1> DEFINE x == i * N
           y == L * N
<1>6. x \in Nat /\ y \in Nat
  <2>1. \A p, h \in Nat : p * h \in Nat
    OBVIOUS
  <2>2. QED BY <1>1, <1>4, <2>1
<1>7. (i < L => x + N <= y) /\ (L < i => y + N <= x) /\ (i = L => x = y)
  BY <1>1, <1>4, Product
<1> HIDE DEF x, y
<1>8. x + u <= y + c <=> i < L \/ (i = L /\ u <= c)
  <2>1. CASE i < L
    <3>1. x + u <= y + c
      BY <1>4, <1>6, <1>7, <2>1
    <3>2. QED BY <2>1, <3>1
  <2>2. CASE L < i
    BY <1>1, <1>4, <1>6, <1>7, <2>2
  <2>3. CASE i = L
    BY <1>4, <1>6, <1>7, <2>3
  <2>4. QED BY <1>1, <1>4, <2>1, <2>2, <2>3
<1>9. i * N + u <= m.max_order <=> i < L \/ (i = L /\ u <= c)
  BY <1>5, <1>8 DEF x, y
<1>10. i * N + u <= m.max_order <=>
          i < m.max_line - 1 \/ (i = m.max_line - 1 /\ u <= m.col_idx[m.nz_cnt])
  BY <1>9, Zenon DEF L, c
<1>11. m.col_idx[m.nz_cnt] \in Nat
  BY <1>4 DEF c
<1>12. QED BY <1>1, <1>10, <1>11, Zenon

----------------------------------------------------------------------------
(* An insertion *)

(* r is m with a new element put in at a place, where it is after those of *)
(* its row before it, and before those behind it; it is inside or becomes  *)
(* the last one.                                                           *)
Inserted(m, r, i, u, value, at) ==
  /\ at \in Start(m, i) .. Start(m, i + 1)
  /\ \A k \in Start(m, i) .. at - 1 : m.col_idx[k] < u
  /\ \A k \in at .. Start(m, i + 1) - 1 : u < m.col_idx[k]
  /\ r.data = Shifted(m.data, at, Count(m) - 1, value)
  /\ r.col_idx = Shifted(m.col_idx, at, Count(m) - 1, u)
  /\ r.row_ptr = [l \in 0 .. MAX_SIZE |->
                    IF l <= r.max_line THEN Start(m, l) + (IF i < l THEN 1 ELSE 0)
                    ELSE 0]
  /\ r.nz_cnt = Count(m) /\ r.overrun = m.overrun
  /\ r = [data |-> r.data, col_idx |-> r.col_idx, row_ptr |-> r.row_ptr,
          max_line |-> r.max_line, nz_cnt |-> r.nz_cnt, max_order |-> r.max_order,
          overrun |-> r.overrun]
  /\ \/ /\ i < m.max_line /\ at < Count(m)
        /\ r.max_line = m.max_line /\ r.max_order = m.max_order
     \/ /\ m.max_line <= i + 1 /\ at = Count(m)
        /\ r.max_line = i + 1 /\ r.max_order = i * N + u

LEMMA InsertInside ==
  ASSUME NEW m, Sorted(m), LastIsLast(m), NEW i \in Index, NEW u \in Index,
         NEW value \in Int, m.max_line > 0, i * N + u <= m.max_order,
         ~Holds(m, i, u)
  PROVE  \E at \in Nat :
           Inserted(m, Linked(ArraysWritten(m, i, u, value), i, u), i, u, value, at)
<1> DEFINE at == Search(m, i, u)
           w == ArraysWritten(m, i, u, value)
           r == LinkedInside(w, i)
<1>1. /\ m.max_line \in Nat /\ m.nz_cnt \in Nat /\ Count(m) = m.nz_cnt + 1
      /\ m.row_ptr \in [0 .. MAX_SIZE -> 0 .. MAX_SIZE_SP_MAT]
      /\ Count(m) - 1 = m.nz_cnt
  BY FieldTypes DEF Count
<1>2. m = [data |-> m.data, col_idx |-> m.col_idx, row_ptr |-> m.row_ptr,
           max_line |-> m.max_line, nz_cnt |-> m.nz_cnt, max_order |-> m.max_order,
           overrun |-> m.overrun]
  BY DEF Sorted, CsrMatrix
<1>3. \/ i < m.max_line - 1
      \/ i = m.max_line - 1 /\ u <= m.col_idx[m.nz_cnt]
  BY InOrder
<1>4. i \in Nat /\ u \in Nat /\ i < m.max_line /\ i + 1 <= m.max_line
  <2>1. i \in Nat /\ u \in Nat
    BY Sizes
  <2>2. i <= m.max_line - 1
    BY <1>1, <1>3, <2>1
  <2>3. QED BY <1>1, <2>1, <2>2
<1>5. /\ at \in Start(m, i) .. Start(m, i + 1)
      /\ \A k \in Start(m, i) .. at - 1 : m.col_idx[k] < u
      /\ \A k \in at .. Start(m, i + 1) - 1 : u <= m.col_idx[k]
  BY <1>4, SearchFinds
<1>6. /\ Start(m, i) \in Nat /\ Start(m, i + 1) \in Nat
      /\ Start(m, i) <= Start(m, i + 1) /\ Start(m, i + 1) <= Count(m)
  <2>1. i \in 0 .. N /\ i + 1 \in 0 .. N /\ i <= i + 1
    BY Sizes
  <2>2. QED BY <2>1, StartGrows
<1>7. at \in Nat
  BY <1>5, <1>6
<1> HIDE DEF at
<1>8. \A k \in at .. Start(m, i + 1) - 1 : u < m.col_idx[k]
  <2> TAKE k \in at .. Start(m, i + 1) - 1
  <2>1. k \in Row(m, i)
    <3>1. Row(m, i) = Start(m, i) .. Start(m, i + 1) - 1
      BY RowIs
    <3>2. QED BY <1>5, <1>6, <1>7, <3>1
  <2>2. m.col_idx[k] # u
    BY <2>1, HoldsIs
  <2>3. m.col_idx[k] \in Nat
    BY <2>1, ColumnsIncrease
  <2>4. u <= m.col_idx[k]
    BY <1>5
  <2>5. QED BY <1>4, <2>2, <2>3, <2>4
<1>9. at < Count(m)
  <2>1. CASE i < m.max_line - 1
    <3>1. Start(m, i + 1) <= Start(m, m.max_line - 1)
      <4>1. i + 1 \in 0 .. N /\ m.max_line - 1 \in 0 .. N /\ i + 1 <= m.max_line - 1
        <5>1. m.max_line <= N /\ N \in Nat
          BY Sizes, FieldTypes
        <5>2. QED BY <1>1, <1>4, <2>1, <5>1
      <4>2. QED BY <4>1, StartGrows
    <3>2. Start(m, m.max_line - 1) = m.row_ptr[m.max_line - 1]
      BY <1>1 DEF Start
    <3>3. m.row_ptr[m.max_line - 1] <= m.nz_cnt /\ m.row_ptr[m.max_line - 1] \in Nat
      <4>1. m.max_line - 1 \in 0 .. MAX_SIZE
        <5>1. m.max_line <= N /\ N \in Nat /\ N <= MAX_SIZE /\ MAX_SIZE \in Nat
          BY Sizes, FieldTypes
        <5>2. QED BY <1>1, <1>4, <5>1
      <4>2. QED BY <4>1, Entries DEF LastIsLast
    <3>4. QED BY <1>1, <1>5, <1>6, <1>7, <3>1, <3>2, <3>3
  <2>2. CASE i = m.max_line - 1 /\ u <= m.col_idx[m.nz_cnt]
    <3> SUFFICES ASSUME at >= Count(m) PROVE FALSE
      BY <1>1, <1>7
    <3>1. Start(m, i) = m.row_ptr[m.max_line - 1]
      BY <1>1, <1>4, <2>2 DEF Start
    <3>2. Start(m, i) <= m.nz_cnt
      BY <3>1 DEF LastIsLast
    <3>3. m.nz_cnt \in Start(m, i) .. at - 1
      BY <1>1, <1>6, <1>7, <3>2
    <3>4. m.col_idx[m.nz_cnt] < u /\ m.col_idx[m.nz_cnt] \in Nat
      BY <1>5, <3>3, InOrder
    <3>5. QED BY <1>4, <2>2, <3>4
  <2>3. QED BY <1>3, <2>1, <2>2
<1>10. Linked(w, i, u) = r /\ PlaceOf(m, i, u) = at
  BY DEF Linked, ArraysWritten, PlaceOf, at
<1>11. w = [data |-> Shifted(m.data, at, m.nz_cnt, value),
            col_idx |-> Shifted(m.col_idx, at, m.nz_cnt, u), row_ptr |-> m.row_ptr,
            max_line |-> m.max_line, nz_cnt |-> m.nz_cnt, max_order |-> m.max_order,
            overrun |-> m.overrun]
  <2>1. w = [m EXCEPT !.data = Shifted(m.data, at, m.nz_cnt, value),
                      !.col_idx = Shifted(m.col_idx, at, m.nz_cnt, u)]
    BY <1>2, <1>10 DEF ArraysWritten
  <2> HIDE DEF w
  <2>2. QED BY <1>2, <2>1
<1> HIDE DEF w
<1> DEFINE rows == [l \in 0 .. MAX_SIZE |->
                      IF i < l /\ l <= m.max_line THEN m.row_ptr[l] + 1
                      ELSE m.row_ptr[l]]
<1>12. r = [data |-> Shifted(m.data, at, m.nz_cnt, value),
            col_idx |-> Shifted(m.col_idx, at, m.nz_cnt, u), row_ptr |-> rows,
            max_line |-> m.max_line, nz_cnt |-> m.nz_cnt + 1,
            max_order |-> m.max_order, overrun |-> m.overrun]
  <2>1. DOMAIN m.row_ptr = 0 .. MAX_SIZE
    BY <1>1
  <2>2. w.row_ptr = m.row_ptr /\ w.max_line = m.max_line /\ w.nz_cnt = m.nz_cnt
    BY <1>11
  <2>3. r = [w EXCEPT !.row_ptr = rows, !.nz_cnt = m.nz_cnt + 1]
    BY <1>11, <2>1, <2>2 DEF LinkedInside
  <2> HIDE DEF r, rows
  <2>4. QED BY <1>11, <2>3
<1>13. rows = [l \in 0 .. MAX_SIZE |->
                 IF l <= m.max_line THEN Start(m, l) + (IF i < l THEN 1 ELSE 0) ELSE 0]
  <2> SUFFICES ASSUME NEW l \in 0 .. MAX_SIZE
               PROVE  rows[l] = IF l <= m.max_line
                                  THEN Start(m, l) + (IF i < l THEN 1 ELSE 0) ELSE 0
    OBVIOUS
  <2>1. m.row_ptr[l] \in Nat
    BY Entries
  <2>2. CASE l <= m.max_line
    BY <2>1, <2>2 DEF Start
  <2>3. CASE ~(l <= m.max_line)
    <3>1. l \in m.max_line + 1 .. MAX_SIZE
      BY <1>1, <2>3
    <3>2. m.row_ptr[l] = 0
      BY <3>1 DEF Sorted
    <3>3. QED BY <2>3, <3>2
  <2>4. QED BY <2>2, <2>3
<1> HIDE DEF rows, r
<1>14. /\ r.data = Shifted(m.data, at, Count(m) - 1, value)
       /\ r.col_idx = Shifted(m.col_idx, at, Count(m) - 1, u)
       /\ r.row_ptr = rows /\ r.max_line = m.max_line /\ r.nz_cnt = Count(m)
       /\ r.max_order = m.max_order /\ r.overrun = m.overrun
  BY <1>1, <1>12
<1>15. r = [data |-> r.data, col_idx |-> r.col_idx, row_ptr |-> r.row_ptr,
            max_line |-> r.max_line, nz_cnt |-> r.nz_cnt, max_order |-> r.max_order,
            overrun |-> r.overrun]
  BY <1>12
<1>16. Inserted(m, r, i, u, value, at)
  BY <1>4, <1>5, <1>8, <1>9, <1>13, <1>14, <1>15 DEF Inserted
<1>17. QED BY <1>7, <1>10, <1>16 DEF w

LEMMA StartedIs ==
  ASSUME NEW m, Sorted(m), LastIsLast(m), NEW i \in Index, NEW u \in Index
  PROVE  /\ Started(m) = [data |-> m.data, col_idx |-> m.col_idx, row_ptr |-> m.row_ptr,
                          max_line |-> m.max_line, nz_cnt |-> Count(m) - 1,
                          max_order |-> Started(m).max_order, overrun |-> m.overrun]
         /\ m.max_line > 0 => Started(m) = m
         /\ m.max_line = 0 => ~(i * N + u <= Started(m).max_order)
<1>1. m.max_line \in Nat /\ m.nz_cnt \in Nat
  BY FieldTypes
<1>2. m = [data |-> m.data, col_idx |-> m.col_idx, row_ptr |-> m.row_ptr,
           max_line |-> m.max_line, nz_cnt |-> m.nz_cnt, max_order |-> m.max_order,
           overrun |-> m.overrun]
  BY DEF Sorted, CsrMatrix
<1>3. CASE m.max_line > 0
  <2>1. Started(m) = m /\ Count(m) = m.nz_cnt + 1
    BY <1>1, <1>3 DEF Started, Count
  <2>2. Count(m) - 1 = m.nz_cnt
    BY <1>1, <2>1
  <2>3. ~(m.max_line = 0)
    BY <1>1, <1>3
  <2>4. QED BY <1>2, <2>1, <2>2, <2>3
<1>4. CASE m.max_line = 0
  <2>1. Started(m) = [m EXCEPT !.max_order = -1, !.nz_cnt = -1] /\ Count(m) = 0
    BY <1>4 DEF Started, Count
  <2>2. Started(m) = [data |-> m.data, col_idx |-> m.col_idx, row_ptr |-> m.row_ptr,
                      max_line |-> m.max_line, nz_cnt |-> -1,
                      max_order |-> -1, overrun |-> m.overrun]
    BY <1>2, <2>1
  <2>3. Count(m) - 1 = -1 /\ Started(m).max_order = -1
    BY <2>1, <2>2
  <2>4. ~(i * N + u <= -1)
    <3>1. i \in Nat /\ u \in Nat /\ N \in Nat
      BY Sizes
    <3>2. \A p, h \in Nat : p * h \in Nat
      OBVIOUS
    <3>3. i * N \in Nat
      BY <3>1, <3>2
    <3> DEFINE x == i * N
    <3> HIDE DEF x
    <3>4. x \in Nat
      BY <3>3 DEF x
    <3>5. ~(x + u <= -1)
      BY <3>1, <3>4
    <3>6. QED BY <3>5 DEF x
  <2>5. ~(m.max_line > 0)
    BY <1>4
  <2>6. QED BY <2>2, <2>3, <2>4, <2>5
<1>5. QED BY <1>1, <1>3, <1>4

LEMMA InsertLast ==
  ASSUME NEW m, Sorted(m), LastIsLast(m), NEW i \in Index, NEW u \in Index,
         NEW value \in Int, ~(i * N + u <= Started(m).max_order)
  PROVE  Inserted(m, Linked(ArraysWritten(Started(m), i, u, value), i, u),
                  i, u, value, Count(m))
<1> DEFINE n == Count(m)
           st == Started(m)
           w == ArraysWritten(st, i, u, value)
           r == LinkedLast(w, i, u)
<1>1. /\ m.max_line \in Nat /\ m.nz_cnt \in Nat /\ n \in Nat
      /\ m.row_ptr \in [0 .. MAX_SIZE -> 0 .. MAX_SIZE_SP_MAT]
      /\ MAX_SIZE \in Nat
  BY FieldTypes, Entries, Sizes
<1>2. st = [data |-> m.data, col_idx |-> m.col_idx, row_ptr |-> m.row_ptr,
            max_line |-> m.max_line, nz_cnt |-> n - 1,
            max_order |-> st.max_order, overrun |-> m.overrun]
  BY StartedIs
<1>3. m.max_line > 0 => /\ ~(i < m.max_line - 1)
                        /\ i = m.max_line - 1 => ~(u <= m.col_idx[m.nz_cnt])
  <2> SUFFICES ASSUME m.max_line > 0
               PROVE  /\ ~(i < m.max_line - 1)
                      /\ i = m.max_line - 1 => ~(u <= m.col_idx[m.nz_cnt])
    OBVIOUS
  <2>1. Started(m) = m
    BY StartedIs
  <2>2. ~(i * N + u <= m.max_order)
    BY <2>1
  <2>3. QED BY <2>2, InOrder, Zenon
<1>4. i \in Nat /\ u \in Nat /\ m.max_line <= i + 1 /\ i + 1 \in 0 .. MAX_SIZE
      /\ i + 1 \in 0 .. N /\ i \in 0 .. N /\ i <= i + 1
  <2>1. i \in Nat /\ u \in Nat /\ i + 1 \in 0 .. MAX_SIZE /\ i + 1 \in 0 .. N
          /\ i \in 0 .. N /\ i <= i + 1
    BY Sizes
  <2>2. QED BY <1>1, <1>3, <2>1
<1>5. Start(m, m.max_line) = n /\ m.row_ptr[m.max_line] = n
  BY <1>1 DEF Start, Sorted
<1>6. Start(m, i + 1) = n /\ Start(m, i) \in Nat /\ Start(m, i) <= n
  <2>1. Start(m, i + 1) = n
    BY <1>1, <1>4, <1>5 DEF Start
  <2>2. QED BY <1>4, <2>1, StartGrows
<1>7. \A k \in Start(m, i) .. n - 1 : m.col_idx[k] < u
  <2> TAKE k \in Start(m, i) .. n - 1
  <2>1. Row(m, i) = Start(m, i) .. n - 1
    BY <1>6, RowIs
  <2>2. i < m.max_line /\ k \in Row(m, i)
    BY <2>1, RowIs
  <2>3. i = m.max_line - 1 /\ m.max_line > 0 /\ n = m.nz_cnt + 1
    <3>1. i = m.max_line - 1 /\ m.max_line > 0
      <4>1. i < m.max_line /\ m.max_line <= i + 1 /\ i \in Nat /\ m.max_line \in Nat
        BY <1>1, <1>4, <2>2
      <4>2. QED BY <4>1
    <3>2. n = m.nz_cnt + 1
      BY <3>1 DEF Count
    <3>3. QED BY <3>1, <3>2
  <2>4. ~(u <= m.col_idx[m.nz_cnt])
    BY <1>3, <2>3
  <2>5. m.nz_cnt \in Row(m, i)
    BY <1>1, <1>6, <2>1, <2>3
  <2>6. /\ m.col_idx[k] \in Nat /\ m.col_idx[m.nz_cnt] \in Nat /\ k \in Nat
        /\ k < m.nz_cnt => m.col_idx[k] < m.col_idx[m.nz_cnt]
    BY <2>2, <2>5, ColumnsIncrease
  <2>7. k = m.nz_cnt \/ k < m.nz_cnt
    BY <1>1, <1>6, <2>3
  <2>8. QED BY <1>4, <2>4, <2>6, <2>7
<1> DEFINE o == i * N + u
<1>8. ~(o <= st.max_order) /\ st.max_order = w.max_order
  BY <1>2 DEF ArraysWritten
<1>9. Linked(w, i, u) = r /\ PlaceOf(st, i, u) = n - 1 + 1
  BY <1>2, <1>8 DEF Linked, PlaceOf
<1>10. n - 1 + 1 = n
  BY <1>1
<1>11. w = [data |-> Shifted(m.data, n, n - 1, value),
            col_idx |-> Shifted(m.col_idx, n, n - 1, u), row_ptr |-> m.row_ptr,
            max_line |-> m.max_line, nz_cnt |-> n - 1, max_order |-> st.max_order,
            overrun |-> m.overrun]
  <2>1. /\ st.data = m.data /\ st.col_idx = m.col_idx /\ st.nz_cnt = n - 1
        /\ st.row_ptr = m.row_ptr /\ st.max_line = m.max_line /\ st.overrun = m.overrun
    BY <1>2
  <2>2. PlaceOf(st, i, u) = n
    BY <1>9, <1>10
  <2>3. w = [st EXCEPT !.data = Shifted(m.data, n, n - 1, value),
                       !.col_idx = Shifted(m.col_idx, n, n - 1, u)]
    BY <1>2, <2>1, <2>2 DEF ArraysWritten
  <2> DEFINE d == Shifted(m.data, n, n - 1, value)
             c == Shifted(m.col_idx, n, n - 1, u)
  <2>4. w = [st EXCEPT !.data = d, !.col_idx = c]
    BY <2>3
  <2> HIDE DEF w, st, d, c, n
  <2>5. w = [data |-> d, col_idx |-> c, row_ptr |-> m.row_ptr,
             max_line |-> m.max_line, nz_cnt |-> n - 1, max_order |-> st.max_order,
             overrun |-> m.overrun]
    BY <1>2, <2>1, <2>4
  <2>6. QED BY <2>5 DEF d, c, n
<1> HIDE DEF w, st
<1> DEFINE skipped == [l \in 0 .. MAX_SIZE |->
                         IF m.max_line < l /\ l <= i + 1 THEN n ELSE m.row_ptr[l]]
           rows == [l \in 0 .. MAX_SIZE |->
                      IF l <= i + 1 THEN Start(m, l) + (IF i < l THEN 1 ELSE 0) ELSE 0]
<1>12. [skipped EXCEPT ![i + 1] = @ + 1] = rows
  <2> SUFFICES ASSUME NEW l \in 0 .. MAX_SIZE
               PROVE  [skipped EXCEPT ![i + 1] = @ + 1][l] = rows[l]
    OBVIOUS
  <2>1. m.row_ptr[l] \in Nat
    BY Entries
  <2>2. CASE l <= i
    <3>1. Start(m, l) = skipped[l] /\ l # i + 1 /\ l <= i + 1 /\ ~(i < l)
      BY <1>1, <1>4, <2>2 DEF Start
    <3>2. skipped[l] \in Nat
      BY <1>1, <2>1
    <3> HIDE DEF skipped
    <3>3. [skipped EXCEPT ![i + 1] = @ + 1][l] = skipped[l]
      BY <3>1
    <3>4. rows[l] = Start(m, l) + 0
      BY <3>1
    <3>5. QED BY <3>1, <3>2, <3>3, <3>4
  <2>3. CASE l = i + 1
    <3>1. skipped[l] = n
      BY <1>1, <1>4, <1>5, <2>3
    <3>2. i < l /\ l <= i + 1 /\ DOMAIN skipped = 0 .. MAX_SIZE
      BY <1>4, <2>3
    <3> HIDE DEF skipped
    <3>3. [skipped EXCEPT ![i + 1] = @ + 1][l] = n + 1
      BY <2>3, <3>1, <3>2
    <3>4. rows[l] = Start(m, l) + 1
      BY <3>2
    <3>5. QED BY <1>6, <2>3, <3>3, <3>4
  <2>4. CASE i + 1 < l
    <3>1. l \in m.max_line + 1 .. MAX_SIZE
      BY <1>1, <1>4, <2>4
    <3>2. m.row_ptr[l] = 0
      BY <3>1 DEF Sorted
    <3>3. skipped[l] = 0 /\ l # i + 1 /\ ~(l <= i + 1)
      BY <1>4, <2>4, <3>2
    <3> HIDE DEF skipped
    <3>4. [skipped EXCEPT ![i + 1] = @ + 1][l] = skipped[l]
      BY <3>3
    <3>5. QED BY <3>3, <3>4
  <2>5. QED BY <1>4, <2>2, <2>3, <2>4
<1>13. r = [data |-> Shifted(m.data, n, n - 1, value),
            col_idx |-> Shifted(m.col_idx, n, n - 1, u), row_ptr |-> rows,
            max_line |-> i + 1, nz_cnt |-> n, max_order |-> o, overrun |-> m.overrun]
  <2>1. w.row_ptr = m.row_ptr /\ w.max_line = m.max_line /\ w.nz_cnt = n - 1
    BY <1>11
  <2>2. DOMAIN m.row_ptr = 0 .. MAX_SIZE
    BY <1>1
  <2>3. skipped = [l \in DOMAIN w.row_ptr |->
                     IF w.max_line < l /\ l <= i + 1 THEN w.row_ptr[w.max_line]
                     ELSE w.row_ptr[l]]
    BY <1>5, <2>1, <2>2
  <2> HIDE DEF skipped
  <2>4. r = [w EXCEPT !.row_ptr = [skipped EXCEPT ![i + 1] = @ + 1],
                      !.nz_cnt = @ + 1, !.max_line = i + 1, !.max_order = o]
    BY <2>3 DEF LinkedLast
  <2> HIDE DEF r, rows, o
  <2>5. r = [w EXCEPT !.row_ptr = rows, !.nz_cnt = n, !.max_line = i + 1,
                      !.max_order = o]
    BY <1>10, <1>11, <1>12, <2>1, <2>4
  <2>6. QED BY <1>11, <2>5
<1> HIDE DEF r, rows
<1>14. /\ r.data = Shifted(m.data, n, n - 1, value)
       /\ r.col_idx = Shifted(m.col_idx, n, n - 1, u)
       /\ r.row_ptr = rows /\ r.max_line = i + 1 /\ r.nz_cnt = n
       /\ r.max_order = o /\ r.overrun = m.overrun
  BY <1>13
<1>15. r = [data |-> r.data, col_idx |-> r.col_idx, row_ptr |-> r.row_ptr,
            max_line |-> r.max_line, nz_cnt |-> r.nz_cnt, max_order |-> r.max_order,
            overrun |-> r.overrun]
  BY <1>13, <1>14
<1>16. n \in Start(m, i) .. Start(m, i + 1) /\ n .. Start(m, i + 1) - 1 = {}
  BY <1>1, <1>6
<1>17. Inserted(m, r, i, u, value, n)
  <2> HIDE DEF n
  <2>1. r.row_ptr = [l \in 0 .. MAX_SIZE |->
                       IF l <= r.max_line THEN Start(m, l) + (IF i < l THEN 1 ELSE 0)
                       ELSE 0]
    BY <1>14 DEF rows
  <2>2. QED BY <1>4, <1>7, <1>14, <1>15, <1>16, <2>1 DEF Inserted, n
<1>18. QED BY <1>9, <1>17 DEF w, st

(* The arrays after an insertion.                                          *)
LEMMA InsertedArrays ==
  ASSUME NEW m, Sorted(m), NEW r, NEW i \in Index, NEW u \in Index, NEW value \in Int,
         NEW at \in Nat, Inserted(m, r, i, u, value, at), Count(m) < MAX_SIZE_SP_MAT
  PROVE  /\ r.data \in [Place -> Int] /\ r.col_idx \in [Place -> 0 .. MAX_SIZE - 1]
         /\ at <= Count(m)
         /\ \A k \in 0 .. Count(m) : k < at =>
              r.col_idx[k] = m.col_idx[k] /\ r.data[k] = m.data[k]
         /\ r.col_idx[at] = u /\ r.data[at] = value
         /\ \A k \in 0 .. Count(m) : k > at =>
              r.col_idx[k] = m.col_idx[k - 1] /\ r.data[k] = m.data[k - 1]
<1> DEFINE n == Count(m)
           Col == 0 .. MAX_SIZE - 1
           shift(a, v) == [k \in Place |-> IF k = at THEN v
                             ELSE IF at < k /\ k <= n THEN a[k - 1] ELSE a[k]]
<1>1. m.data \in [Place -> Int] /\ m.col_idx \in [Place -> Col]
  BY FieldTypes
<1>2. n \in Nat /\ n < MAX_SIZE_SP_MAT /\ MAX_SIZE_SP_MAT \in Nat /\ n - 1 + 1 = n
  BY Entries, Sizes
<1>3. u \in Col
  BY Sizes DEF Index
<1>4. at <= n
  <2>1. at \in Start(m, i) .. Start(m, i + 1)
    BY DEF Inserted
  <2>2. i + 1 \in 0 .. N
    BY Sizes
  <2>3. Start(m, i + 1) \in Nat /\ Start(m, i + 1) <= n
    BY <2>2, StartGrows
  <2>4. i \in 0 .. N
    BY Sizes
  <2>5. Start(m, i) \in Nat
    BY <2>4, StartGrows
  <2>6. QED BY <1>2, <2>1, <2>3, <2>5
<1>5. r.data = shift(m.data, value) /\ r.col_idx = shift(m.col_idx, u)
  <2>1. DOMAIN m.data = Place /\ DOMAIN m.col_idx = Place
    BY <1>1
  <2>2. /\ r.data = Shifted(m.data, at, n - 1, value)
        /\ r.col_idx = Shifted(m.col_idx, at, n - 1, u)
    BY DEF Inserted
  <2> HIDE DEF n
  <2>3. QED BY <1>2, <2>1, <2>2 DEF Shifted
<1> HIDE DEF n
<1>6. \A k \in 0 .. n : k \in Place /\ k \in Nat /\ (k > at => k - 1 \in Place)
  BY <1>2 DEF Place
<1>7. \A k \in Place : at < k /\ k <= n => k - 1 \in Place
  BY <1>2 DEF Place
<1>8. r.data \in [Place -> Int]
  BY <1>1, <1>5, <1>7
<1>9. r.col_idx \in [Place -> Col]
  <2> HIDE DEF Col
  <2>1. QED BY <1>1, <1>3, <1>5, <1>7
<1>10. \A k \in 0 .. n : k < at =>
         r.col_idx[k] = m.col_idx[k] /\ r.data[k] = m.data[k]
  BY <1>5, <1>6
<1>11. r.col_idx[at] = u /\ r.data[at] = value
  <2>1. at \in Place
    BY <1>2, <1>4 DEF Place
  <2>2. QED BY <1>5, <2>1
<1>12. \A k \in 0 .. n : k > at =>
         r.col_idx[k] = m.col_idx[k - 1] /\ r.data[k] = m.data[k - 1]
  BY <1>5, <1>6
<1>13. QED BY <1>4, <1>8, <1>9, <1>10, <1>11, <1>12 DEF n

(* The rows after an insertion: row i has a place more, those behind it    *)
(* begin one place later.                                                  *)
LEMMA InsertedRows ==
  ASSUME NEW m, Sorted(m), NEW r, NEW i \in Index, NEW u \in Index, NEW value \in Int,
         NEW at \in Nat, Inserted(m, r, i, u, value, at)
  PROVE  /\ r.max_line \in 1 .. N /\ i < r.max_line /\ m.max_line <= r.max_line
         /\ Start(m, r.max_line) = Count(m)
         /\ \A l \in 0 .. r.max_line :
              r.row_ptr[l] = Start(m, l) + (IF i < l THEN 1 ELSE 0)
         /\ \A l \in r.max_line + 1 .. MAX_SIZE : r.row_ptr[l] = 0
         /\ \A a \in Index :
              /\ a < i => Row(r, a) = Start(m, a) .. Start(m, a + 1) - 1
              /\ a = i => Row(r, a) = Start(m, a) .. Start(m, a + 1)
              /\ i < a => Row(r, a) = Start(m, a) + 1 .. Start(m, a + 1)
<1>1. m.max_line \in 0 .. N /\ i \in Nat /\ i + 1 \in 0 .. N /\ N \in Nat
      /\ N <= MAX_SIZE /\ MAX_SIZE \in Nat
  BY FieldTypes, Sizes
<1>2. \/ i < m.max_line /\ r.max_line = m.max_line
      \/ m.max_line <= i + 1 /\ r.max_line = i + 1
  BY DEF Inserted
<1>3. r.max_line \in 1 .. N /\ i < r.max_line /\ m.max_line <= r.max_line
  BY <1>1, <1>2
<1>4. \A l \in 0 .. N : m.max_line <= l => Start(m, l) = Count(m)
  <2> TAKE l \in 0 .. N
  <2> HAVE m.max_line <= l
  <2>1. CASE l = m.max_line
    BY <1>1, <2>1 DEF Start, Sorted
  <2>2. CASE ~(l <= m.max_line)
    BY <2>2 DEF Start
  <2>3. QED BY <1>1, <2>1, <2>2
<1>5. Start(m, r.max_line) = Count(m)
  BY <1>3, <1>4
<1>6. r.row_ptr = [l \in 0 .. MAX_SIZE |->
                     IF l <= r.max_line THEN Start(m, l) + (IF i < l THEN 1 ELSE 0)
                     ELSE 0]
  BY DEF Inserted
<1>7. \A l \in 0 .. r.max_line :
        r.row_ptr[l] = Start(m, l) + (IF i < l THEN 1 ELSE 0)
  <2> TAKE l \in 0 .. r.max_line
  <2>1. l \in 0 .. MAX_SIZE /\ l <= r.max_line
    BY <1>1, <1>3
  <2>2. QED BY <1>6, <2>1
<1>8. \A l \in r.max_line + 1 .. MAX_SIZE : r.row_ptr[l] = 0
  <2> TAKE l \in r.max_line + 1 .. MAX_SIZE
  <2>1. l \in 0 .. MAX_SIZE /\ ~(l <= r.max_line)
    BY <1>1, <1>3
  <2>2. QED BY <1>6, <2>1
<1>9. ASSUME NEW a \in Index
      PROVE  /\ a < i => Row(r, a) = Start(m, a) .. Start(m, a + 1) - 1
             /\ a = i => Row(r, a) = Start(m, a) .. Start(m, a + 1)
             /\ i < a => Row(r, a) = Start(m, a) + 1 .. Start(m, a + 1)
  <2>1. a \in Nat /\ a \in 0 .. N /\ a + 1 \in 0 .. N /\ a + 1 \in 0 .. MAX_SIZE
        /\ a \in 0 .. MAX_SIZE /\ a <= a + 1
    BY Sizes
  <2>2. Start(m, a) \in Nat /\ Start(m, a + 1) \in Nat
    BY <2>1, StartGrows
  <2>3. CASE a < r.max_line
    <3>1. a \in 0 .. r.max_line /\ a + 1 \in 0 .. r.max_line
      BY <1>3, <2>1, <2>3
    <3>2. /\ r.row_ptr[a] = Start(m, a) + (IF i < a THEN 1 ELSE 0)
          /\ r.row_ptr[a + 1] = Start(m, a + 1) + (IF i < a + 1 THEN 1 ELSE 0)
      BY <1>7, <3>1
    <3>3. CASE a < i
      <4>1. r.row_ptr[a] = Start(m, a) /\ r.row_ptr[a + 1] = Start(m, a + 1)
        BY <1>1, <2>1, <2>2, <3>2, <3>3
      <4>2. Row(r, a) = Start(m, a) .. Start(m, a + 1) - 1
        BY <4>1 DEF Row
      <4>3. QED BY <1>1, <2>1, <3>3, <4>2
    <3>4. CASE a = i
      <4>1. r.row_ptr[a] = Start(m, a) /\ r.row_ptr[a + 1] - 1 = Start(m, a + 1)
        BY <1>1, <2>1, <2>2, <3>2, <3>4
      <4>2. Row(r, a) = Start(m, a) .. Start(m, a + 1)
        BY <4>1 DEF Row
      <4>3. QED BY <1>1, <2>1, <3>4, <4>2
    <3>5. CASE i < a
      <4>1. r.row_ptr[a] = Start(m, a) + 1 /\ r.row_ptr[a + 1] - 1 = Start(m, a + 1)
        BY <1>1, <2>1, <2>2, <3>2, <3>5
      <4>2. Row(r, a) = Start(m, a) + 1 .. Start(m, a + 1)
        BY <4>1 DEF Row
      <4>3. QED BY <1>1, <2>1, <3>5, <4>2
    <3>6. QED BY <1>1, <2>1, <3>3, <3>4, <3>5
  <2>4. CASE ~(a < r.max_line)
    <3>1. i < a /\ m.max_line <= a /\ m.max_line <= a + 1
          /\ a + 1 \in r.max_line + 1 .. MAX_SIZE
      BY <1>1, <1>3, <2>1, <2>4
    <3>2. Start(m, a) = Count(m) /\ Start(m, a + 1) = Count(m)
      BY <1>4, <2>1, <3>1
    <3>3. r.row_ptr[a + 1] = 0
      BY <1>8, <3>1
    <3>4. r.row_ptr[a] \in Nat
      BY <1>6, <2>1, <2>2
    <3>5. Row(r, a) = {}
      BY <3>3, <3>4 DEF Row
    <3>6. Start(m, a) + 1 .. Start(m, a + 1) = {}
      BY <2>2, <3>2
    <3>7. ~(a < i) /\ a # i
      BY <1>1, <2>1, <3>1
    <3>8. QED BY <3>5, <3>6, <3>7
  <2>5. QED BY <2>3, <2>4
<1>10. QED BY <1>3, <1>5, <1>7, <1>8, <1>9

(* A place of row a after an insertion is one it had before, or the new    *)
(* one.                                                                    *)
LEMMA InsertedPlaces ==
  ASSUME NEW m, Sorted(m), NEW r, NEW i \in Index, NEW u \in Index, NEW value \in Int,
         NEW at \in Nat, Inserted(m, r, i, u, value, at), NEW a \in Index
  PROVE  /\ \A h \in Row(r, a) :
              /\ h \in 0 .. Count(m)
              /\ h < at => h \in Row(m, a)
              /\ h = at => a = i
              /\ h > at => h - 1 \in Row(m, a)
         /\ \A h \in Row(m, a) : h < at => h \in Row(r, a)
         /\ \A h \in Row(m, a) : h >= at => h + 1 \in Row(r, a)
         /\ a = i => at \in Row(r, a)
<1> DEFINE s == Start(m, a)
           e == Start(m, a + 1)
<1>1. /\ a \in Nat /\ i \in Nat /\ a \in 0 .. N /\ a + 1 \in 0 .. N /\ a <= a + 1
      /\ i \in 0 .. N /\ i + 1 \in 0 .. N /\ i <= i + 1 /\ N \in Nat
  BY Sizes
<1>2. s \in Nat /\ e \in Nat /\ s <= e /\ e <= Count(m) /\ Count(m) \in Nat
  BY <1>1, StartGrows, Entries
<1>3. Row(m, a) = s .. e - 1
  BY RowIs
<1>4. Start(m, i) \in Nat /\ Start(m, i + 1) \in Nat
  BY <1>1, StartGrows
<1>5. Start(m, i) <= at /\ at <= Start(m, i + 1)
  BY <1>4 DEF Inserted
<1>10. /\ a < i => Row(r, a) = s .. e - 1
       /\ a = i => Row(r, a) = s .. e
       /\ i < a => Row(r, a) = s + 1 .. e
  <2>1. \A col \in Index :
          /\ col < i => Row(r, col) = Start(m, col) .. Start(m, col + 1) - 1
          /\ col = i => Row(r, col) = Start(m, col) .. Start(m, col + 1)
          /\ i < col => Row(r, col) = Start(m, col) + 1 .. Start(m, col + 1)
    BY InsertedRows
  <2>2. QED BY <2>1
<1>6. CASE a < i
  <2>1. Row(r, a) = s .. e - 1
    BY <1>6, <1>10
  <2>2. a + 1 <= i
    BY <1>1, <1>6
  <2>3. e <= at
    <3>1. e <= Start(m, i)
      BY <1>1, <2>2, StartGrows
    <3>2. QED BY <1>2, <1>4, <1>5, <3>1
  <2>4. ~(a = i)
    BY <1>1, <1>6
  <2> HIDE DEF s, e
  <2>5. QED BY <1>2, <1>3, <2>1, <2>3, <2>4
<1>7. CASE a = i
  <2>1. Row(r, a) = s .. e
    BY <1>7, <1>10
  <2>2. s <= at /\ at <= e
    BY <1>5, <1>7
  <2> HIDE DEF s, e
  <2>3. QED BY <1>2, <1>3, <1>7, <2>1, <2>2
<1>8. CASE i < a
  <2>1. Row(r, a) = s + 1 .. e
    BY <1>8, <1>10
  <2>2. i + 1 <= a
    BY <1>1, <1>8
  <2>3. at <= s
    <3>1. Start(m, i + 1) <= s
      BY <1>1, <2>2, StartGrows
    <3>2. QED BY <1>2, <1>4, <1>5, <3>1
  <2>4. ~(a = i)
    BY <1>1, <1>8
  <2> HIDE DEF s, e
  <2>5. QED BY <1>2, <1>3, <2>1, <2>3, <2>4
<1>9. QED BY <1>1, <1>6, <1>7, <1>8

(* The columns of every row increase after an insertion.                   *)
LEMMA InsertedIncrease ==
  ASSUME NEW m, Sorted(m), NEW r, NEW i \in Index, NEW u \in Index, NEW value \in Int,
         NEW at \in Nat, Inserted(m, r, i, u, value, at), Count(m) < MAX_SIZE_SP_MAT,
         NEW a \in Index, NEW k \in Row(r, a), NEW h \in Row(r, a), k < h
  PROVE  r.col_idx[k] < r.col_idx[h]
<1>1. /\ k \in 0 .. Count(m) /\ h \in 0 .. Count(m)
      /\ k < at => k \in Row(m, a)
      /\ k = at => a = i
      /\ k > at => k - 1 \in Row(m, a)
      /\ h < at => h \in Row(m, a)
      /\ h = at => a = i
      /\ h > at => h - 1 \in Row(m, a)
  <2>1. \A p \in Row(r, a) :
          /\ p \in 0 .. Count(m)
          /\ p < at => p \in Row(m, a)
          /\ p = at => a = i
          /\ p > at => p - 1 \in Row(m, a)
    <3>1. \A col \in Index :
            /\ \A p \in Row(r, col) :
                 /\ p \in 0 .. Count(m)
                 /\ p < at => p \in Row(m, col)
                 /\ p = at => col = i
                 /\ p > at => p - 1 \in Row(m, col)
            /\ \A p \in Row(m, col) : p < at => p \in Row(r, col)
            /\ \A p \in Row(m, col) : p >= at => p + 1 \in Row(r, col)
            /\ col = i => at \in Row(r, col)
      BY InsertedPlaces
    <3>2. QED BY <3>1
  <2>2. QED BY <2>1
<1>2. /\ k \in Nat /\ h \in Nat /\ Count(m) \in Nat
      /\ u \in Nat /\ i \in 0 .. N /\ i + 1 \in 0 .. N /\ i <= i + 1
  BY <1>1, Entries, Sizes
<1>3. /\ k < at => r.col_idx[k] = m.col_idx[k]
      /\ h < at => r.col_idx[h] = m.col_idx[h]
      /\ k = at => r.col_idx[k] = u
      /\ h = at => r.col_idx[h] = u
      /\ k > at => r.col_idx[k] = m.col_idx[k - 1]
      /\ h > at => r.col_idx[h] = m.col_idx[h - 1]
  <2>1. /\ \A p \in 0 .. Count(m) : p < at => r.col_idx[p] = m.col_idx[p]
        /\ r.col_idx[at] = u
        /\ \A p \in 0 .. Count(m) : p > at => r.col_idx[p] = m.col_idx[p - 1]
    <3>1. /\ r.data \in [Place -> Int] /\ r.col_idx \in [Place -> 0 .. MAX_SIZE - 1]
          /\ at <= Count(m)
          /\ \A p \in 0 .. Count(m) : p < at =>
               r.col_idx[p] = m.col_idx[p] /\ r.data[p] = m.data[p]
          /\ r.col_idx[at] = u /\ r.data[at] = value
          /\ \A p \in 0 .. Count(m) : p > at =>
               r.col_idx[p] = m.col_idx[p - 1] /\ r.data[p] = m.data[p - 1]
      BY InsertedArrays
    <3>2. QED BY <3>1
  <2>2. QED BY <1>1, <2>1
<1>4. Row(m, i) = Start(m, i) .. Start(m, i + 1) - 1
      /\ Start(m, i) \in Nat /\ Start(m, i + 1) \in Nat
  BY <1>2, RowIs, StartGrows
<1>5. /\ \A l \in Row(m, i) : l < at => m.col_idx[l] < u
      /\ \A l \in Row(m, i) : l >= at => u < m.col_idx[l]
      /\ at \in Start(m, i) .. Start(m, i + 1)
  <2>1. /\ \A l \in Start(m, i) .. at - 1 : m.col_idx[l] < u
        /\ \A l \in at .. Start(m, i + 1) - 1 : u < m.col_idx[l]
        /\ at \in Start(m, i) .. Start(m, i + 1)
    BY DEF Inserted
  <2>2. QED BY <1>4, <2>1
<1>6. CASE k < at /\ h < at
  <2>1. m.col_idx[k] < m.col_idx[h]
    BY <1>1, <1>6, ColumnsIncrease
  <2>2. QED BY <1>3, <1>6, <2>1
<1>7. CASE k < at /\ h = at
  BY <1>1, <1>3, <1>5, <1>7
<1>8. CASE k < at /\ h > at
  <2>1. k < h - 1 \/ k = h - 1
    BY <1>2
  <2>2. k # h - 1
    BY <1>2, <1>8
  <2>3. m.col_idx[k] < m.col_idx[h - 1]
    BY <1>1, <1>8, <2>1, <2>2, ColumnsIncrease
  <2>4. QED BY <1>3, <1>8, <2>3
<1>9. CASE k = at /\ h > at
  <2>1. h - 1 \in Row(m, i) /\ h - 1 >= at
    BY <1>1, <1>2, <1>9
  <2>2. u < m.col_idx[h - 1]
    BY <1>5, <2>1
  <2>3. QED BY <1>3, <1>9, <2>2
<1>10. CASE k > at /\ h > at
  <2>1. k - 1 < h - 1
    BY <1>2
  <2>2. m.col_idx[k - 1] < m.col_idx[h - 1]
    BY <1>1, <1>10, <2>1, ColumnsIncrease
  <2>3. QED BY <1>3, <1>10, <2>2
<1>11. QED BY <1>2, <1>6, <1>7, <1>8, <1>9, <1>10

(* A matrix in order is in order after an insertion, with one element more. *)
LEMMA InsertedSorted ==
  ASSUME NEW m, Sorted(m), LastIsLast(m), NEW r, NEW i \in Index, NEW u \in Index,
         NEW value \in Int, NEW at \in Nat, Inserted(m, r, i, u, value, at),
         Count(m) < MAX_SIZE_SP_MAT
  PROVE  Sorted(r) /\ LastIsLast(r)
<1> DEFINE n == Count(m)
<1>1. /\ n \in Nat /\ n < MAX_SIZE_SP_MAT /\ MAX_SIZE_SP_MAT \in Nat /\ N \in Nat
      /\ i \in Nat /\ u \in Nat /\ i + 1 \in 0 .. N /\ i \in 0 .. N /\ N <= MAX_SIZE
      /\ MAX_SIZE \in Nat /\ m.max_line \in Nat /\ m.max_line <= N /\ 0 \in 0 .. N
  BY Entries, Sizes, FieldTypes
<1>2. /\ r.max_line \in 1 .. N /\ i < r.max_line /\ m.max_line <= r.max_line
      /\ Start(m, r.max_line) = n
      /\ \A l \in 0 .. r.max_line :
           r.row_ptr[l] = Start(m, l) + (IF i < l THEN 1 ELSE 0)
      /\ \A l \in r.max_line + 1 .. MAX_SIZE : r.row_ptr[l] = 0
  <2>1. /\ r.max_line \in 1 .. N /\ i < r.max_line /\ m.max_line <= r.max_line
        /\ Start(m, r.max_line) = Count(m)
        /\ \A l \in 0 .. r.max_line :
             r.row_ptr[l] = Start(m, l) + (IF i < l THEN 1 ELSE 0)
        /\ \A l \in r.max_line + 1 .. MAX_SIZE : r.row_ptr[l] = 0
        /\ \A a \in Index :
             /\ a < i => Row(r, a) = Start(m, a) .. Start(m, a + 1) - 1
             /\ a = i => Row(r, a) = Start(m, a) .. Start(m, a + 1)
             /\ i < a => Row(r, a) = Start(m, a) + 1 .. Start(m, a + 1)
    BY InsertedRows, Zenon
  <2>2. QED BY <2>1
<1>3. /\ r.data \in [Place -> Int] /\ r.col_idx \in [Place -> 0 .. MAX_SIZE - 1]
      /\ at <= n
      /\ \A p \in 0 .. n : p < at =>
           r.col_idx[p] = m.col_idx[p] /\ r.data[p] = m.data[p]
      /\ r.col_idx[at] = u /\ r.data[at] = value
      /\ \A p \in 0 .. n : p > at =>
           r.col_idx[p] = m.col_idx[p - 1] /\ r.data[p] = m.data[p - 1]
  <2>1. /\ r.data \in [Place -> Int] /\ r.col_idx \in [Place -> 0 .. MAX_SIZE - 1]
        /\ at <= Count(m)
        /\ \A p \in 0 .. Count(m) : p < at =>
             r.col_idx[p] = m.col_idx[p] /\ r.data[p] = m.data[p]
        /\ r.col_idx[at] = u /\ r.data[at] = value
        /\ \A p \in 0 .. Count(m) : p > at =>
             r.col_idx[p] = m.col_idx[p - 1] /\ r.data[p] = m.data[p - 1]
    BY InsertedArrays
  <2>2. QED BY <2>1
<1>4. r.nz_cnt = n /\ r.overrun = m.overrun /\ r.max_line > 0 /\ Count(r) = n + 1
  <2>1. r.nz_cnt = n /\ r.overrun = m.overrun
    BY DEF Inserted
  <2>2. r.max_line > 0
    BY <1>1, <1>2
  <2>3. QED BY <2>1, <2>2 DEF Count
<1>5. \A l \in 0 .. N : Start(m, l) \in Nat /\ Start(m, l) <= n
  BY StartGrows, <1>1
<1>6. r \in CsrMatrix
  <2>1. \A l \in 0 .. MAX_SIZE : r.row_ptr[l] \in 0 .. MAX_SIZE_SP_MAT
    <3> TAKE l \in 0 .. MAX_SIZE
    <3>1. CASE l \in 0 .. r.max_line
      <4>1. l \in 0 .. N
        BY <1>1, <1>2, <3>1
      <4>2. r.row_ptr[l] = Start(m, l) \/ r.row_ptr[l] = Start(m, l) + 1
        BY <1>1, <1>2, <3>1, <4>1, <1>5
      <4>3. QED BY <1>1, <1>5, <4>1, <4>2
    <3>2. CASE l \in r.max_line + 1 .. MAX_SIZE
      BY <1>1, <1>2, <3>2
    <3>3. QED BY <1>1, <1>2, <3>1, <3>2
  <2>2. r.row_ptr = [l \in 0 .. MAX_SIZE |-> r.row_ptr[l]]
    <3>1. r.row_ptr = [l \in 0 .. MAX_SIZE |->
                    IF l <= r.max_line THEN Start(m, l) + (IF i < l THEN 1 ELSE 0)
                    ELSE 0]
      BY DEF Inserted
    <3>2. QED BY <3>1
  <2>3. r.row_ptr \in [0 .. MAX_SIZE -> 0 .. MAX_SIZE_SP_MAT]
    BY <2>1, <2>2
  <2>4. r.max_line \in 0 .. MAX_SIZE /\ r.nz_cnt \in Place
    BY <1>1, <1>2, <1>4 DEF Place
  <2>5. r.max_order \in Int
    <3>1. m.max_order \in Int
      BY FieldTypes
    <3>2. \A x, y, z \in Nat : x * y + z \in Int
      OBVIOUS
    <3>3. r.max_order = m.max_order \/ r.max_order = i * N + u
      BY DEF Inserted
    <3>4. QED BY <1>1, <3>1, <3>2, <3>3
  <2>6. r.overrun \in BOOLEAN
    BY <1>4, FieldTypes
  <2>7. r = [data |-> r.data, col_idx |-> r.col_idx, row_ptr |-> r.row_ptr,
             max_line |-> r.max_line, nz_cnt |-> r.nz_cnt, max_order |-> r.max_order,
             overrun |-> r.overrun]
    BY DEF Inserted
  <2>8. QED BY <1>3, <2>3, <2>4, <2>5, <2>6, <2>7 DEF CsrMatrix
<1>7. r.row_ptr[0] = 0
  <2>1. Start(m, 0) = 0
    BY <1>1 DEF Start, Sorted
  <2>2. 0 \in 0 .. r.max_line /\ ~(i < 0)
    BY <1>1, <1>2
  <2>3. QED BY <1>2, <2>1, <2>2
<1>8. r.row_ptr[r.max_line] = Count(r)
  <2>1. r.max_line \in 0 .. r.max_line
    BY <1>1, <1>2
  <2>2. QED BY <1>1, <1>2, <1>4, <2>1
<1>9. \A a, col \in 0 .. r.max_line : a <= col => r.row_ptr[a] <= r.row_ptr[col]
  <2> TAKE a, col \in 0 .. r.max_line
  <2> HAVE a <= col
  <2>1. a \in 0 .. N /\ col \in 0 .. N /\ a \in Nat /\ col \in Nat
    BY <1>1, <1>2
  <2>2. Start(m, a) <= Start(m, col) /\ Start(m, a) \in Nat /\ Start(m, col) \in Nat
    BY <2>1, StartGrows
  <2>3. /\ r.row_ptr[a] = Start(m, a) + (IF i < a THEN 1 ELSE 0)
        /\ r.row_ptr[col] = Start(m, col) + (IF i < col THEN 1 ELSE 0)
    BY <1>2
  <2>4. QED BY <1>1, <2>1, <2>2, <2>3
<1>10. \A a \in 0 .. r.max_line - 1 : \A k, h \in Row(r, a) :
         k < h => r.col_idx[k] < r.col_idx[h]
  <2> TAKE a \in 0 .. r.max_line - 1
  <2>1. a \in Index
    BY <1>1, <1>2 DEF Index
  <2>2. QED BY <2>1, InsertedIncrease
<1>11. \A k \in 0 .. Count(r) - 1 : r.col_idx[k] \in Index
  <2> TAKE k \in 0 .. Count(r) - 1
  <2>1. k \in 0 .. n /\ k \in Nat
    BY <1>1, <1>4
  <2>2. \A l \in 0 .. n - 1 : m.col_idx[l] \in Index
    BY DEF Sorted
  <2>3. CASE k < at
    <3>1. k \in 0 .. n - 1
      BY <1>1, <1>3, <2>1, <2>3
    <3>2. QED BY <1>3, <2>1, <2>2, <2>3, <3>1
  <2>4. CASE k = at
    BY <1>3, <2>4
  <2>5. CASE k > at
    <3>1. k - 1 \in 0 .. n - 1
      BY <1>1, <2>1, <2>5
    <3>2. QED BY <1>3, <2>1, <2>2, <2>5, <3>1
  <2>6. QED BY <2>1, <2>3, <2>4, <2>5
<1>12. Sorted(r)
  <2>1. r.max_line <= N
    BY <1>1, <1>2
  <2>2. QED BY <1>2, <1>6, <1>7, <1>8, <1>9, <1>10, <1>11, <2>1 DEF Sorted
<1>13. LastIsLast(r)
  <2>1. CASE /\ i < m.max_line /\ at < Count(m)
             /\ r.max_line = m.max_line /\ r.max_order = m.max_order
    <3>1. m.max_line > 0 /\ n = m.nz_cnt + 1 /\ m.nz_cnt \in Nat
      BY <1>1, <2>1, FieldTypes DEF Count
    <3>2. m.row_ptr[m.max_line - 1] <= m.nz_cnt
          /\ m.max_order = (m.max_line - 1) * N + m.col_idx[m.nz_cnt]
      BY <3>1 DEF LastIsLast
    <3>3. r.col_idx[n] = m.col_idx[m.nz_cnt]
      <4>1. n \in 0 .. n /\ n > at /\ n - 1 = m.nz_cnt
        BY <1>1, <2>1, <3>1
      <4>2. QED BY <1>3, <4>1
    <3>4. r.row_ptr[r.max_line - 1] <= n
      <4>1. m.max_line - 1 \in 0 .. r.max_line /\ m.max_line - 1 \in 0 .. N
            /\ m.max_line - 1 <= m.max_line
        BY <1>1, <2>1, <3>1
      <4>2. Start(m, m.max_line - 1) = m.row_ptr[m.max_line - 1]
        BY <4>1 DEF Start
      <4>3. r.row_ptr[m.max_line - 1] = Start(m, m.max_line - 1)
            \/ r.row_ptr[m.max_line - 1] = Start(m, m.max_line - 1) + 1
        BY <1>2, <1>5, <4>1
      <4>4. QED BY <1>5, <2>1, <3>1, <3>2, <4>1, <4>2, <4>3
    <3>5. QED BY <1>4, <2>1, <3>2, <3>3, <3>4 DEF LastIsLast
  <2>2. CASE /\ m.max_line <= i + 1 /\ at = Count(m)
             /\ r.max_line = i + 1 /\ r.max_order = i * N + u
    <3>1. r.max_line - 1 = i /\ i \in 0 .. r.max_line /\ ~(i < i)
      BY <1>1, <2>2
    <3>2. r.row_ptr[i] = Start(m, i) + 0
      BY <1>2, <3>1
    <3>3. r.row_ptr[r.max_line - 1] <= r.nz_cnt
      BY <1>1, <1>4, <1>5, <3>1, <3>2
    <3>4. r.col_idx[r.nz_cnt] = u
      BY <1>3, <1>4, <2>2
    <3>5. QED BY <2>2, <3>1, <3>3, <3>4 DEF LastIsLast
  <2>3. QED BY <2>1, <2>2 DEF Inserted
<1>14. QED BY <1>12, <1>13

(* Behind a place that is written, nothing is lost: an element is read     *)
(* after an insertion as before, except the new one.                       *)
LEMMA InsertedReads ==
  ASSUME NEW m, Sorted(m), LastIsLast(m), NEW r, NEW i \in Index, NEW u \in Index,
         NEW value \in Int, NEW at \in Nat, Inserted(m, r, i, u, value, at),
         Count(m) < MAX_SIZE_SP_MAT, NEW a \in Index, NEW col \in Index
  PROVE  get_element(r, a, col) = IF a = i /\ col = u THEN value ELSE get_element(m, a, col)
<1>1. Sorted(r)
  BY InsertedSorted
<1>2. /\ \A p \in Row(r, a) :
           /\ p \in 0 .. Count(m)
           /\ p < at => p \in Row(m, a)
           /\ p = at => a = i
           /\ p > at => p - 1 \in Row(m, a)
      /\ \A p \in Row(m, a) : p < at => p \in Row(r, a)
      /\ \A p \in Row(m, a) : p >= at => p + 1 \in Row(r, a)
      /\ a = i => at \in Row(r, a)
  BY InsertedPlaces
<1>3. /\ r.data \in [Place -> Int] /\ r.col_idx \in [Place -> 0 .. MAX_SIZE - 1]
      /\ at <= Count(m)
      /\ \A p \in 0 .. Count(m) : p < at =>
           r.col_idx[p] = m.col_idx[p] /\ r.data[p] = m.data[p]
      /\ r.col_idx[at] = u /\ r.data[at] = value
      /\ \A p \in 0 .. Count(m) : p > at =>
           r.col_idx[p] = m.col_idx[p - 1] /\ r.data[p] = m.data[p - 1]
  BY InsertedArrays
<1>4. /\ \A p \in Row(r, a) : r.col_idx[p] = col => get_element(r, a, col) = r.data[p]
      /\ (\A p \in Row(r, a) : r.col_idx[p] # col) => get_element(r, a, col) = 0
  BY <1>1, ReadIs
<1>5. /\ \A p \in Row(m, a) : m.col_idx[p] = col => get_element(m, a, col) = m.data[p]
      /\ (\A p \in Row(m, a) : m.col_idx[p] # col) => get_element(m, a, col) = 0
  BY ReadIs
<1>6. Count(m) \in Nat /\ \A p \in Row(m, a) : p \in 0 .. Count(m) - 1
  BY Entries, RowIs
<1>7. CASE a = i /\ col = u
  BY <1>2, <1>3, <1>4, <1>7
<1>8. CASE ~(a = i /\ col = u)
  <2>1. CASE \E p \in Row(m, a) : m.col_idx[p] = col
    <3>1. PICK p \in Row(m, a) : m.col_idx[p] = col
      BY <2>1
    <3>2. get_element(m, a, col) = m.data[p] /\ p \in 0 .. Count(m) - 1
      BY <1>5, <1>6, <3>1
    <3>3. CASE p < at
      <4>1. p \in Row(r, a) /\ p \in 0 .. Count(m)
        BY <1>2, <1>6, <3>2, <3>3
      <4>2. r.col_idx[p] = col /\ r.data[p] = m.data[p]
        BY <1>3, <3>1, <3>3, <4>1
      <4>3. get_element(r, a, col) = m.data[p]
        BY <1>4, <4>1, <4>2
      <4>4. QED BY <1>8, <3>2, <4>3
    <3>4. CASE p >= at
      <4>1. PICK h \in Row(r, a) : h = p + 1
        BY <1>2, <3>4
      <4>2. h \in 0 .. Count(m) /\ h > at /\ h - 1 = p
        BY <1>2, <1>6, <3>2, <3>4, <4>1
      <4>3. r.col_idx[h] = m.col_idx[h - 1] /\ r.data[h] = m.data[h - 1]
        BY <1>3, <4>2
      <4>4. r.col_idx[h] = col /\ r.data[h] = m.data[p]
        BY <3>1, <4>2, <4>3
      <4>5. get_element(r, a, col) = m.data[p]
        BY <1>4, <4>4
      <4>6. QED BY <1>8, <3>2, <4>5
    <3>5. QED BY <3>2, <3>3, <3>4
  <2>2. CASE \A p \in Row(m, a) : m.col_idx[p] # col
    <3>1. get_element(m, a, col) = 0
      BY <1>5, <2>2
    <3>2. \A p \in Row(r, a) : r.col_idx[p] # col
      <4> TAKE p \in Row(r, a)
      <4>1. p \in 0 .. Count(m) /\ p \in Nat
        BY <1>2, <1>6
      <4>2. CASE p < at
        BY <1>2, <1>3, <2>2, <4>1, <4>2
      <4>3. CASE p = at
        BY <1>2, <1>3, <1>8, <4>3
      <4>4. CASE p > at
        BY <1>2, <1>3, <2>2, <4>1, <4>4
      <4>5. QED BY <4>1, <4>2, <4>3, <4>4
    <3>3. get_element(r, a, col) = 0
      BY <1>4, <3>2
    <3>4. QED BY <1>8, <3>1, <3>3
  <2>3. QED BY <2>1, <2>2
<1>9. QED BY <1>7, <1>8

LEMMA HoldsIff ==
  ASSUME NEW m, Sorted(m), NEW a \in Index, NEW col \in Index
  PROVE  Holds(m, a, col) <=> \E p \in Row(m, a) : m.col_idx[p] = col
BY HoldsIs

(* What there is to say about an insertion beside the values: the places   *)
(* that are taken, and their number.                                       *)
Grown(m, r, i, u, value) ==
  /\ ~r.overrun => \A a, col \in Index :
       Holds(r, a, col) <=> Holds(m, a, col) \/ (value # 0 /\ a = i /\ col = u)
  /\ Count(r) <= Count(m) + 1
  /\ r.overrun => m.overrun \/ Count(m) = MAX_SIZE_SP_MAT
  /\ m.max_line > 0 \/ (value # 0 /\ ~r.overrun) => r.max_line > 0

LEMMA InsertedGrows ==
  ASSUME NEW m, Sorted(m), LastIsLast(m), NEW r, NEW i \in Index, NEW u \in Index,
         NEW value \in Int, NEW at \in Nat, Inserted(m, r, i, u, value, at),
         Count(m) < MAX_SIZE_SP_MAT, value # 0
  PROVE  Grown(m, r, i, u, value)
<1>0. /\ at <= Count(m)
      /\ \A p \in 0 .. Count(m) : p < at => r.col_idx[p] = m.col_idx[p]
      /\ r.col_idx[at] = u
      /\ \A p \in 0 .. Count(m) : p > at => r.col_idx[p] = m.col_idx[p - 1]
  <2>1. /\ r.data \in [Place -> Int] /\ r.col_idx \in [Place -> 0 .. MAX_SIZE - 1]
        /\ at <= Count(m)
        /\ \A p \in 0 .. Count(m) : p < at =>
             r.col_idx[p] = m.col_idx[p] /\ r.data[p] = m.data[p]
        /\ r.col_idx[at] = u /\ r.data[at] = value
        /\ \A p \in 0 .. Count(m) : p > at =>
             r.col_idx[p] = m.col_idx[p - 1] /\ r.data[p] = m.data[p - 1]
    BY InsertedArrays
  <2>2. QED BY <2>1
<1>1. Sorted(r)
  BY InsertedSorted
<1>2. ASSUME NEW a \in Index, NEW col \in Index
      PROVE  Holds(r, a, col) <=> Holds(m, a, col) \/ (a = i /\ col = u)
  <2>1. /\ \A p \in Row(r, a) :
             /\ p \in 0 .. Count(m)
             /\ p < at => p \in Row(m, a)
             /\ p = at => a = i
             /\ p > at => p - 1 \in Row(m, a)
        /\ \A p \in Row(m, a) : p < at => p \in Row(r, a)
        /\ \A p \in Row(m, a) : p >= at => p + 1 \in Row(r, a)
        /\ a = i => at \in Row(r, a)
    BY InsertedPlaces
  <2>3. Count(m) \in Nat /\ \A p \in Row(m, a) : p \in 0 .. Count(m) - 1
    BY Entries, RowIs
  <2>4. ASSUME NEW p \in Row(r, a), r.col_idx[p] = col
        PROVE  Holds(m, a, col) \/ (a = i /\ col = u)
    <3>1. p \in 0 .. Count(m) /\ p \in Nat
      BY <2>1, <2>3
    <3>2. CASE p < at
      BY <2>1, <1>0, <2>4, <3>1, <3>2, HoldsIff
    <3>3. CASE p = at
      BY <2>1, <1>0, <2>4, <3>3
    <3>4. CASE p > at
      <4>1. p - 1 \in Row(m, a) /\ m.col_idx[p - 1] = col
        BY <2>1, <1>0, <2>4, <3>1, <3>4
      <4>2. QED BY <4>1, HoldsIff
    <3>5. QED BY <3>1, <3>2, <3>3, <3>4
  <2>5. ASSUME NEW p \in Row(m, a), m.col_idx[p] = col
        PROVE  Holds(r, a, col)
    <3>1. p \in 0 .. Count(m) - 1 /\ p \in Nat
      BY <2>3
    <3>2. CASE p < at
      <4>1. p \in Row(r, a) /\ p \in 0 .. Count(m)
        BY <2>1, <2>3, <3>1, <3>2
      <4>2. r.col_idx[p] = col
        BY <1>0, <2>5, <3>2, <4>1
      <4>3. QED BY <1>1, <4>1, <4>2, HoldsIff
    <3>3. CASE p >= at
      <4>1. PICK h \in Row(r, a) : h = p + 1
        BY <2>1, <3>3
      <4>2. h \in 0 .. Count(m) /\ h > at /\ h - 1 = p
        BY <2>1, <2>3, <3>1, <3>3, <4>1
      <4>3. r.col_idx[h] = m.col_idx[h - 1]
        BY <1>0, <4>2
      <4>4. r.col_idx[h] = col
        BY <2>5, <4>2, <4>3
      <4>5. QED BY <1>1, <4>4, HoldsIff
    <3>4. QED BY <3>1, <3>2, <3>3
  <2>6. a = i /\ col = u => Holds(r, a, col)
    BY <1>1, <2>1, <1>0, HoldsIff
  <2>7. QED BY <1>1, <2>4, <2>5, <2>6, HoldsIff
<1>3. r.nz_cnt = Count(m) /\ r.overrun = m.overrun
  BY DEF Inserted
<1>4. Count(m) \in Nat /\ m.max_line \in Nat /\ i \in Nat
  BY Entries, FieldTypes, Sizes
<1>5. r.max_line > 0
  <2>1. (r.max_line = m.max_line /\ i < m.max_line) \/ r.max_line = i + 1
    BY DEF Inserted
  <2>2. QED BY <1>4, <2>1
<1>6. Count(r) = Count(m) + 1
  BY <1>3, <1>5 DEF Count
<1>7. QED BY <1>2, <1>3, <1>4, <1>5, <1>6 DEF Grown

(* A matrix with the columns and rows of another holds the same elements.  *)
LEMMA SameHolds ==
  ASSUME NEW m, NEW r, r.col_idx = m.col_idx, r.row_ptr = m.row_ptr
  PROVE  \A a, col : Holds(r, a, col) <=> Holds(m, a, col)
BY DEF Holds, Search, Row

(* A place is in one row.                                                  *)
LEMMA RowsApart ==
  ASSUME NEW m, Sorted(m), NEW a \in Index, NEW col \in Index, NEW k \in Row(m, a),
         k \in Row(m, col)
  PROVE  a = col
<1>1. /\ a \in Nat /\ col \in Nat /\ a \in 0 .. N /\ a + 1 \in 0 .. N /\ col \in 0 .. N
      /\ col + 1 \in 0 .. N
  BY Sizes
<1>2. /\ Start(m, a) \in Nat /\ Start(m, a + 1) \in Nat
      /\ Start(m, col) \in Nat /\ Start(m, col + 1) \in Nat
  BY <1>1, StartGrows
<1>3. /\ k \in Start(m, a) .. Start(m, a + 1) - 1
      /\ k \in Start(m, col) .. Start(m, col + 1) - 1
  BY RowIs
<1>4. ~(a < col)
  <2> SUFFICES ASSUME a < col PROVE FALSE
    OBVIOUS
  <2>1. a + 1 <= col
    BY <1>1
  <2>2. Start(m, a + 1) <= Start(m, col)
    BY <1>1, <2>1, StartGrows
  <2>3. QED BY <1>2, <1>3, <2>2
<1>5. ~(col < a)
  <2> SUFFICES ASSUME col < a PROVE FALSE
    OBVIOUS
  <2>1. col + 1 <= a
    BY <1>1
  <2>2. Start(m, col + 1) <= Start(m, a)
    BY <1>1, <2>1, StartGrows
  <2>3. QED BY <1>2, <1>3, <2>2
<1>6. QED BY <1>1, <1>4, <1>5

(* What is in order is a matter of the columns and the rows alone.         *)
LEMMA SameShape ==
  ASSUME NEW m, Sorted(m), LastIsLast(m), NEW r \in CsrMatrix,
         r.col_idx = m.col_idx, r.row_ptr = m.row_ptr, r.max_line = m.max_line,
         r.nz_cnt = m.nz_cnt, r.max_order = m.max_order
  PROVE  Sorted(r) /\ LastIsLast(r) /\ \A a \in Index : Row(r, a) = Row(m, a)
<1>1. Count(r) = Count(m)
  BY DEF Count
<1>2. \A a : Row(r, a) = Row(m, a)
  BY DEF Row
<1>3. /\ \A k \in 0 .. Count(r) - 1 : r.col_idx[k] \in Index
      /\ \A a \in 0 .. r.max_line - 1 : \A k, h \in Row(r, a) :
           k < h => r.col_idx[k] < r.col_idx[h]
  BY <1>1, <1>2 DEF Sorted
<1>4. /\ r.max_line <= N
      /\ r.row_ptr[0] = 0 /\ r.row_ptr[r.max_line] = Count(r)
      /\ \A a, col \in 0 .. r.max_line : a <= col => r.row_ptr[a] <= r.row_ptr[col]
      /\ \A l \in r.max_line + 1 .. MAX_SIZE : r.row_ptr[l] = 0
  BY <1>1 DEF Sorted
<1>5. Sorted(r)
  BY <1>3, <1>4 DEF Sorted
<1>6. LastIsLast(r)
  BY DEF LastIsLast
<1>7. QED BY <1>2, <1>5, <1>6

(* A matrix that differs by one value reads as the other, except there.    *)
LEMMA ReplacedReads ==
  ASSUME NEW m, Sorted(m), NEW r, Sorted(r), NEW i \in Index, NEW u \in Index,
         NEW s \in Row(m, i), m.col_idx[s] = u, NEW value \in Int,
         r.data[s] = value, \A p \in Place : p # s => r.data[p] = m.data[p],
         r.col_idx = m.col_idx, NEW a \in Index, NEW col \in Index,
         Row(r, a) = Row(m, a)
  PROVE  get_element(r, a, col) = IF a = i /\ col = u THEN value ELSE get_element(m, a, col)
<1>1. /\ \A p \in Row(r, a) : r.col_idx[p] = col => get_element(r, a, col) = r.data[p]
      /\ (\A p \in Row(r, a) : r.col_idx[p] # col) => get_element(r, a, col) = 0
  BY ReadIs
<1>2. /\ \A p \in Row(m, a) : m.col_idx[p] = col => get_element(m, a, col) = m.data[p]
      /\ (\A p \in Row(m, a) : m.col_idx[p] # col) => get_element(m, a, col) = 0
  BY ReadIs
<1>3. CASE a = i /\ col = u
  BY <1>1, <1>3
<1>4. CASE ~(a = i /\ col = u)
  <2>1. CASE \E p \in Row(m, a) : m.col_idx[p] = col
    <3>1. PICK p \in Row(m, a) : m.col_idx[p] = col
      BY <2>1
    <3>2. p # s
      BY <1>4, <3>1, RowsApart
    <3>3. p \in Place
      <4>1. p \in 0 .. Count(m) - 1
        BY RowIs
      <4>2. QED BY <4>1, Entries
    <3>4. r.data[p] = m.data[p] /\ p \in Row(r, a) /\ r.col_idx[p] = col
      BY <3>1, <3>2, <3>3
    <3>5. get_element(r, a, col) = m.data[p] /\ get_element(m, a, col) = m.data[p]
      BY <1>1, <1>2, <3>1, <3>4
    <3>6. QED BY <1>4, <3>5
  <2>2. CASE \A p \in Row(m, a) : m.col_idx[p] # col
    <3>1. get_element(m, a, col) = 0 /\ get_element(r, a, col) = 0
      BY <1>1, <1>2, <2>2
    <3>2. QED BY <1>4, <3>1
  <2>3. QED BY <2>1, <2>2
<1>5. QED BY <1>3, <1>4

(* Another value in the place of an element.                               *)
Written(m, s, value) == [m EXCEPT !.data[s] = value]

LEMMA Replaced ==
  ASSUME NEW m, Sorted(m), LastIsLast(m), NEW i \in Index, NEW u \in Index,
         NEW s \in Row(m, i), m.col_idx[s] = u, NEW value \in Int
  PROVE  LET r == Written(m, s, value)
         IN  /\ Sorted(r) /\ LastIsLast(r) /\ r.overrun = m.overrun
             /\ \A a, col \in Index : get_element(r, a, col) =
                  IF a = i /\ col = u THEN value ELSE get_element(m, a, col)
             /\ \A x : Grown(m, r, i, u, x)
<1> DEFINE r == Written(m, s, value)
           d == [m.data EXCEPT ![s] = value]
<1>1. m \in CsrMatrix /\ m.data \in [Place -> Int]
  BY FieldTypes DEF Sorted
<1>2. s \in Place
  <2>1. s \in 0 .. Count(m) - 1
    BY RowIs
  <2>2. QED BY <2>1, Entries
<1>3. d \in [Place -> Int]
  BY <1>1
<1>4. r = [m EXCEPT !.data = d]
  BY DEF Written
<1>5. /\ d[s] = value
      /\ \A p \in Place : p # s => d[p] = m.data[p]
  BY <1>1, <1>2
<1> HIDE DEF d, r
<1>6. /\ r \in CsrMatrix /\ r.data = d /\ r.col_idx = m.col_idx /\ r.row_ptr = m.row_ptr
      /\ r.max_line = m.max_line /\ r.nz_cnt = m.nz_cnt /\ r.max_order = m.max_order
      /\ r.overrun = m.overrun
  BY <1>1, <1>3, <1>4 DEF CsrMatrix
<1>7. Sorted(r) /\ LastIsLast(r) /\ \A a \in Index : Row(r, a) = Row(m, a)
  BY <1>6, SameShape
<1>8. \A a, col \in Index :
        get_element(r, a, col) = IF a = i /\ col = u THEN value ELSE get_element(m, a, col)
  <2>1. ASSUME NEW t, Sorted(t), t.data[s] = value,
               \A p \in Place : p # s => t.data[p] = m.data[p],
               t.col_idx = m.col_idx, \A a \in Index : Row(t, a) = Row(m, a),
               NEW a \in Index, NEW col \in Index
        PROVE  get_element(t, a, col) = IF a = i /\ col = u THEN value ELSE get_element(m, a, col)
    BY <2>1, ReplacedReads
  <2>2. /\ r.data[s] = value
        /\ \A p \in Place : p # s => r.data[p] = m.data[p]
    BY <1>5, <1>6
  <2>3. QED BY <1>6, <1>7, <2>1, <2>2, Zenon
<1>9. \A x : Grown(m, r, i, u, x)
  <2>1. Holds(m, i, u) /\ Count(r) = Count(m) /\ Count(m) \in Nat
    BY <1>6, HoldsIff, Entries DEF Count
  <2>2. \A a, col : Holds(r, a, col) <=> Holds(m, a, col)
    BY <1>6, SameHolds
  <2>3. m.max_line > 0
    <3>1. i < m.max_line /\ i \in Nat /\ m.max_line \in Nat
      BY RowIs, FieldTypes, Sizes
    <3>2. QED BY <3>1
  <2>4. QED BY <1>6, <2>1, <2>2, <2>3 DEF Grown
<1>10. QED BY <1>6, <1>7, <1>8, <1>9 DEF r

(* A matrix whose arrays were overrun keeps its rows.                      *)
LEMMA Overrun ==
  ASSUME NEW m, Sorted(m), LastIsLast(m)
  PROVE  LET r == [m EXCEPT !.overrun = TRUE]
         IN  Sorted(r) /\ LastIsLast(r) /\ r.overrun
<1> DEFINE r == [m EXCEPT !.overrun = TRUE]
<1>1. m \in CsrMatrix
  BY DEF Sorted
<1>2. /\ r \in CsrMatrix /\ r.col_idx = m.col_idx /\ r.row_ptr = m.row_ptr
      /\ r.max_line = m.max_line /\ r.nz_cnt = m.nz_cnt /\ r.max_order = m.max_order
      /\ r.overrun
  BY <1>1 DEF CsrMatrix
<1> HIDE DEF r
<1>3. Sorted(r) /\ LastIsLast(r)
  BY <1>2, SameShape
<1>4. QED BY <1>2, <1>3 DEF r

(* insert_element keeps the matrix in order, and writes that one element.  *)
LEMMA InsertResult ==
  ASSUME NEW m, Sorted(m), LastIsLast(m), NEW i \in Index, NEW u \in Index,
         NEW value \in Int
  PROVE  LET r == insert_element(m, i, u, value)
         IN  /\ Sorted(r) /\ LastIsLast(r) /\ (m.overrun => r.overrun)
             /\ ~r.overrun => \A a, col \in Index : get_element(r, a, col) =
                  IF value # 0 /\ a = i /\ col = u THEN value ELSE get_element(m, a, col)
             /\ Grown(m, r, i, u, value)
<1> DEFINE r == insert_element(m, i, u, value)
           st == Started(m)
           o == i * N + u
           Good(t) == /\ Sorted(t) /\ LastIsLast(t) /\ (m.overrun => t.overrun)
                      /\ ~t.overrun => \A a, col \in Index : get_element(t, a, col) =
                           IF value # 0 /\ a = i /\ col = u THEN value ELSE get_element(m, a, col)
                      /\ Grown(m, t, i, u, value)
<1>1. /\ m.max_line > 0 => st = m
      /\ m.max_line = 0 => ~(o <= st.max_order)
      /\ st.nz_cnt = Count(m) - 1
  <2>1. /\ st = [data |-> m.data, col_idx |-> m.col_idx, row_ptr |-> m.row_ptr,
                 max_line |-> m.max_line, nz_cnt |-> Count(m) - 1,
                 max_order |-> st.max_order, overrun |-> m.overrun]
        /\ m.max_line > 0 => st = m
        /\ m.max_line = 0 => ~(o <= st.max_order)
    BY StartedIs
  <2>2. st.nz_cnt = Count(m) - 1
    BY <2>1
  <2>3. QED BY <2>1, <2>2
<1>2. m.max_line \in Nat /\ (o <= st.max_order => m.max_line > 0 /\ st = m)
  BY <1>1, FieldTypes
<1>3. Count(m) \in Nat /\ Count(m) <= MAX_SIZE_SP_MAT /\ MAX_SIZE_SP_MAT \in Nat
  BY Entries, Sizes
<1>4. r = IF value = 0 \/ m.overrun THEN m
          ELSE IF o <= st.max_order /\ Holds(st, i, u)
            THEN [st EXCEPT !.data[Search(st, i, u)] = value]
          ELSE IF st.nz_cnt + 1 = MAX_SIZE_SP_MAT THEN [m EXCEPT !.overrun = TRUE]
          ELSE Linked(ArraysWritten(st, i, u, value), i, u)
  BY DEF insert_element
<1>5. CASE value = 0 \/ m.overrun
  <2>1. r = m
    BY <1>4, <1>5
  <2>2. Grown(m, m, i, u, value)
    BY <1>3, <1>5 DEF Grown
  <2> HIDE DEF r, st
  <2>3. Good(m)
    BY <1>5, <2>2
  <2>4. QED BY <2>1, <2>3 DEF r
<1>6. CASE ~(value = 0 \/ m.overrun) /\ o <= st.max_order /\ Holds(st, i, u)
  <2> DEFINE s == Search(m, i, u)
             t == Written(m, s, value)
  <2>1. st = m /\ Holds(m, i, u)
    BY <1>2, <1>6
  <2>2. s \in Row(m, i) /\ m.col_idx[s] = u
    BY <2>1, HoldsIs
  <2>3. r = t
    BY <1>4, <1>6, <2>1 DEF Written
  <2> HIDE DEF s
  <2>4. /\ Sorted(t) /\ LastIsLast(t) /\ t.overrun = m.overrun
        /\ \A a, col \in Index : get_element(t, a, col) =
             IF a = i /\ col = u THEN value ELSE get_element(m, a, col)
        /\ Grown(m, t, i, u, value)
    <3>1. ASSUME NEW p \in Row(m, i), m.col_idx[p] = u
          PROVE  LET z == Written(m, p, value)
                 IN  /\ Sorted(z) /\ LastIsLast(z) /\ z.overrun = m.overrun
                     /\ \A a, col \in Index : get_element(z, a, col) =
                          IF a = i /\ col = u THEN value ELSE get_element(m, a, col)
                     /\ \A x : Grown(m, z, i, u, x)
      BY <3>1, Replaced
    <3>2. QED BY <2>2, <3>1
  <2> HIDE DEF t, r, st, o
  <2>5. value # 0
    BY <1>6
  <2>6. Good(t)
    BY <2>4, <2>5
  <2>7. QED BY <2>3, <2>6 DEF r
<1>7. CASE /\ ~(value = 0 \/ m.overrun) /\ ~(o <= st.max_order /\ Holds(st, i, u))
           /\ st.nz_cnt + 1 = MAX_SIZE_SP_MAT
  <2> DEFINE t == [m EXCEPT !.overrun = TRUE]
  <2>1. r = t
    BY <1>4, <1>7
  <2>2. Sorted(t) /\ LastIsLast(t) /\ t.overrun
    BY Overrun
  <2>3. t.max_line = m.max_line /\ t.nz_cnt = m.nz_cnt
    OBVIOUS
  <2>4. Count(t) = Count(m) /\ Count(m) = MAX_SIZE_SP_MAT
    <3>1. st.nz_cnt + 1 = MAX_SIZE_SP_MAT
      BY <1>7
    <3> HIDE DEF st
    <3>2. QED BY <1>1, <1>3, <2>3, <3>1 DEF Count
  <2> HIDE DEF t, r
  <2>5. Grown(m, t, i, u, value)
    BY <1>3, <2>2, <2>3, <2>4 DEF Grown
  <2>6. Good(t)
    BY <2>2, <2>5
  <2>7. QED BY <2>1, <2>6 DEF r
<1>8. CASE /\ ~(value = 0 \/ m.overrun) /\ ~(o <= st.max_order /\ Holds(st, i, u))
           /\ ~(st.nz_cnt + 1 = MAX_SIZE_SP_MAT)
  <2> DEFINE t == Linked(ArraysWritten(st, i, u, value), i, u)
  <2>1. r = t
    BY <1>4, <1>8
  <2>2. Count(m) < MAX_SIZE_SP_MAT
    <3>1. st.nz_cnt + 1 # MAX_SIZE_SP_MAT
      BY <1>8
    <3> HIDE DEF st
    <3>2. QED BY <1>1, <1>3, <3>1
  <2>3. \E at \in Nat : Inserted(m, t, i, u, value, at)
    <3>1. CASE o <= st.max_order
      <4>1. st = m /\ m.max_line > 0 /\ ~Holds(m, i, u) /\ o <= m.max_order
        BY <1>2, <1>8, <3>1
      <4>2. \E at \in Nat :
              Inserted(m, Linked(ArraysWritten(m, i, u, value), i, u),
                       i, u, value, at)
        BY <4>1, InsertInside
      <4>3. QED BY <4>1, <4>2
    <3>2. CASE ~(o <= st.max_order)
      <4>1. Inserted(m, t, i, u, value, Count(m))
        BY <3>2, InsertLast
      <4>2. QED BY <1>3, <4>1
    <3>3. QED BY <3>1, <3>2
  <2> HIDE DEF t, r
  <2>4. PICK at \in Nat : Inserted(m, t, i, u, value, at)
    BY <2>3
  <2>5. Sorted(t) /\ LastIsLast(t)
    BY <2>2, <2>4, InsertedSorted
  <2>6. \A a, col \in Index :
          get_element(t, a, col) = IF a = i /\ col = u THEN value ELSE get_element(m, a, col)
    BY <2>2, <2>4, InsertedReads
  <2>7. value # 0 /\ ~m.overrun
    BY <1>8
  <2>8. Grown(m, t, i, u, value)
    BY <2>2, <2>4, <2>7, InsertedGrows
  <2>9. m.overrun => t.overrun
    BY <2>7
  <2>10. Good(t)
    BY <2>5, <2>6, <2>7, <2>8, <2>9
  <2>11. QED BY <2>1, <2>10 DEF r
<1>9. Good(r)
  BY <1>5, <1>6, <1>7, <1>8, Zenon
<1>10. QED BY <1>9 DEF r

(* add_to_element keeps the matrix in order, and adds to that one element. *)
LEMMA AddResult ==
  ASSUME NEW m, Sorted(m), LastIsLast(m), NEW i \in Index, NEW u \in Index,
         NEW value \in Int
  PROVE  LET r == add_to_element(m, i, u, value)
         IN  /\ Sorted(r) /\ LastIsLast(r) /\ (m.overrun => r.overrun)
             /\ ~r.overrun => \A a, col \in Index : get_element(r, a, col) =
                  IF a = i /\ col = u THEN get_element(m, a, col) + value
                                    ELSE get_element(m, a, col)
             /\ Grown(m, r, i, u, value)
<1>0. ASSUME NEW p \in Row(m, i), m.col_idx[p] = u, NEW x \in Int
      PROVE  LET z == Written(m, p, x)
             IN  /\ Sorted(z) /\ LastIsLast(z) /\ z.overrun = m.overrun
                 /\ \A a, col \in Index : get_element(z, a, col) =
                      IF a = i /\ col = u THEN x ELSE get_element(m, a, col)
                 /\ \A y : Grown(m, z, i, u, y)
  BY <1>0, Replaced
<1> DEFINE r == add_to_element(m, i, u, value)
           Good(t) == /\ Sorted(t) /\ LastIsLast(t) /\ (m.overrun => t.overrun)
                      /\ ~t.overrun => \A a, col \in Index : get_element(t, a, col) =
                           IF a = i /\ col = u THEN get_element(m, a, col) + value
                                             ELSE get_element(m, a, col)
                      /\ Grown(m, t, i, u, value)
<1>1. CASE ~m.overrun /\ Holds(m, i, u)
  <2> DEFINE s == Search(m, i, u)
             v == m.data[s] + value
             t == Written(m, s, v)
  <2>1. s \in Row(m, i) /\ m.col_idx[s] = u
    BY <1>1, HoldsIs
  <2>2. get_element(m, i, u) = m.data[s]
    BY <2>1, ReadIs
  <2>3. r = t
    BY <1>1 DEF add_to_element, Written
  <2> HIDE DEF s
  <2>4. v \in Int
    <3>1. s \in 0 .. Count(m) - 1
      BY <2>1, RowIs
    <3>2. s \in Place
      BY <3>1, Entries
    <3>3. m.data[s] \in Int
      BY <3>2, Entries
    <3>4. QED BY <3>3
  <2>5. get_element(m, i, u) + value = v
    BY <2>2
  <2> HIDE DEF v
  <2>6. /\ Sorted(t) /\ LastIsLast(t) /\ t.overrun = m.overrun
        /\ \A a, col \in Index : get_element(t, a, col) =
             IF a = i /\ col = u THEN v ELSE get_element(m, a, col)
        /\ Grown(m, t, i, u, value)
    BY <2>1, <2>4, <1>0
  <2> HIDE DEF t, r
  <2>7. Good(t)
    BY <2>5, <2>6
  <2>8. QED BY <2>3, <2>7 DEF r
<1>2. CASE ~(~m.overrun /\ Holds(m, i, u))
  <2>1. r = insert_element(m, i, u, value)
    BY <1>2 DEF add_to_element
  <2>2. /\ Sorted(r) /\ LastIsLast(r) /\ (m.overrun => r.overrun)
        /\ ~r.overrun => \A a, col \in Index : get_element(r, a, col) =
             IF value # 0 /\ a = i /\ col = u THEN value ELSE get_element(m, a, col)
        /\ Grown(m, r, i, u, value)
    BY <2>1, InsertResult
  <2> HIDE DEF r
  <2>3. ~r.overrun => get_element(m, i, u) = 0
    <3>1. ~r.overrun => ~Holds(m, i, u)
      BY <1>2, <2>2
    <3>2. QED BY <3>1 DEF get_element
  <2>4. ~r.overrun => \A a, col \in Index : get_element(r, a, col) =
          IF a = i /\ col = u THEN get_element(m, a, col) + value ELSE get_element(m, a, col)
    BY <2>2, <2>3
  <2>5. Good(r)
    BY <2>2, <2>4
  <2>6. QED BY <2>5 DEF r
<1>3. QED BY <1>1, <1>2

(* A matrix with no element.                                               *)
LEMMA NoElement ==
  /\ Sorted(EmptyCsr) /\ LastIsLast(EmptyCsr) /\ ~EmptyCsr.overrun
  /\ \A a, col \in Index : get_element(EmptyCsr, a, col) = 0
<1> DEFINE e == EmptyCsr
<1>1. /\ e.data = [k \in Place |-> 0] /\ e.col_idx = [k \in Place |-> 0]
      /\ e.row_ptr = [l \in 0 .. MAX_SIZE |-> 0]
      /\ e.max_line = 0 /\ e.nz_cnt = 0 /\ e.max_order = 0 /\ ~e.overrun
      /\ e = [data |-> e.data, col_idx |-> e.col_idx, row_ptr |-> e.row_ptr,
              max_line |-> 0, nz_cnt |-> 0, max_order |-> 0, overrun |-> FALSE]
  BY DEF EmptyCsr
<1> HIDE DEF e
<1>2. e \in CsrMatrix
  <2>1. 0 \in 0 .. MAX_SIZE - 1 /\ 0 \in 0 .. MAX_SIZE_SP_MAT /\ 0 \in 0 .. MAX_SIZE
        /\ 0 \in Place /\ FALSE \in BOOLEAN
    BY Sizes DEF Place
  <2>2. /\ e.data \in [Place -> Int] /\ e.col_idx \in [Place -> 0 .. MAX_SIZE - 1]
        /\ e.row_ptr \in [0 .. MAX_SIZE -> 0 .. MAX_SIZE_SP_MAT]
    BY <1>1, <2>1
  <2> DEFINE d == e.data
             c == e.col_idx
             l == e.row_ptr
  <2>3. e = [data |-> d, col_idx |-> c, row_ptr |-> l, max_line |-> 0, nz_cnt |-> 0,
             max_order |-> 0, overrun |-> FALSE]
    BY <1>1
  <2>4. /\ d \in [Place -> Int] /\ c \in [Place -> 0 .. MAX_SIZE - 1]
        /\ l \in [0 .. MAX_SIZE -> 0 .. MAX_SIZE_SP_MAT]
    BY <2>2
  <2> HIDE DEF d, c, l
  <2>5. QED BY <2>1, <2>3, <2>4 DEF CsrMatrix
<1>3. Count(e) = 0
  BY <1>1 DEF Count
<1>4. \A l \in 0 .. MAX_SIZE : e.row_ptr[l] = 0
  BY <1>1
<1>5. Sorted(e)
  <2>1. 0 <= N /\ 0 \in 0 .. MAX_SIZE /\ MAX_SIZE \in Nat
    BY Sizes
  <2>2. e.row_ptr[0] = 0
    BY <1>4, <2>1
  <2>3. \A a, col \in 0 .. 0 : a <= col => e.row_ptr[a] <= e.row_ptr[col]
    <3>1. \A a \in 0 .. 0 : a = 0
      OBVIOUS
    <3>2. QED BY <2>2, <3>1
  <2>4. \A l \in 0 + 1 .. MAX_SIZE : e.row_ptr[l] = 0
    <3>1. \A l \in 0 + 1 .. MAX_SIZE : l \in 0 .. MAX_SIZE
      BY <2>1
    <3>2. QED BY <1>4, <3>1
  <2>5. 0 .. 0 - 1 = {}
    OBVIOUS
  <2>6. QED BY <1>1, <1>2, <1>3, <2>1, <2>2, <2>3, <2>4, <2>5 DEF Sorted
<1>6. LastIsLast(e)
  BY <1>1 DEF LastIsLast
<1>7. ASSUME NEW a \in Index, NEW col \in Index
      PROVE  get_element(e, a, col) = 0
  <2>1. \A p \in Row(e, a) : p \in 0 .. Count(e) - 1
    BY <1>5, RowIs
  <2>2. 0 .. 0 - 1 = {}
    OBVIOUS
  <2>3. \A p \in Row(e, a) : e.col_idx[p] # col
    BY <1>3, <2>1, <2>2
  <2>4. QED BY <1>5, <2>3, ReadIs
<1>8. QED BY <1>1, <1>5, <1>6, <1>7 DEF e

----------------------------------------------------------------------------
(* The transposition *)

(* Element k of m put in its place of tr.                                  *)
Step(m, tr, k) == insert_element(tr, m.col_idx[k], RowOf(m, k), m.data[k])

(* An element is in a row.                                                 *)
LEMMA RowOfIs ==
  ASSUME NEW m, Sorted(m), NEW k \in 0 .. Count(m) - 1
  PROVE  RowOf(m, k) \in Index /\ k \in Row(m, RowOf(m, k))
<1> DEFINE L == m.max_line
           S == {l \in 0 .. L - 1 : m.row_ptr[l] <= k}
<1>1. /\ L \in Nat /\ L <= N /\ k \in Nat /\ k < Count(m) /\ Count(m) \in Nat
      /\ N \in Nat /\ N <= MAX_SIZE /\ MAX_SIZE \in Nat
  BY FieldTypes, Entries, Sizes
<1>2. L > 0
  BY <1>1 DEF Count
<1>3. m.row_ptr[0] = 0 /\ m.row_ptr[L] = Count(m)
  BY DEF Sorted
<1>4. S # {} /\ L - 1 \in Nat
  BY <1>1, <1>2, <1>3
<1>5. Max(S) \in S /\ \A x \in S : x <= Max(S)
  BY <1>4, HasGreatest
<1>6. PICK l \in S : \A x \in S : x <= l
  BY <1>5
<1>7. l \in 0 .. L - 1 /\ m.row_ptr[l] <= k /\ l \in 0 .. MAX_SIZE /\ l + 1 \in 0 .. MAX_SIZE
  BY <1>1, <1>6
<1>8. m.row_ptr[l] \in Nat /\ m.row_ptr[l + 1] \in Nat
  BY <1>7, Entries
<1>9. k < m.row_ptr[l + 1]
  <2>1. CASE l = L - 1
    BY <1>1, <1>3, <2>1
  <2>2. CASE l # L - 1
    <3>1. l + 1 \in 0 .. L - 1 /\ ~(l + 1 <= l)
      BY <1>1, <1>7, <2>2
    <3>2. l + 1 \notin S
      BY <1>6, <3>1
    <3>3. QED BY <1>1, <1>8, <3>1, <3>2
  <2>3. QED BY <2>1, <2>2
<1>10. k \in Row(m, l)
  BY <1>1, <1>7, <1>8, <1>9 DEF Row
<1>11. RowOf(m, k) \in 0 .. L - 1 /\ k \in Row(m, RowOf(m, k))
  BY <1>7, <1>10 DEF RowOf
<1>12. QED BY <1>1, <1>11 DEF Index

(* tr holds the first k elements of m, each with row and column exchanged, *)
(* and nothing else.                                                       *)
HoldsFirst(m, tr, k) ==
  /\ Sorted(tr) /\ LastIsLast(tr) /\ ~tr.overrun /\ Count(tr) <= k
  /\ \A a, col \in Index :
       /\ \A e \in 0 .. k - 1 : m.col_idx[e] = a /\ RowOf(m, e) = col =>
            get_element(tr, a, col) = m.data[e]
       /\ (\A e \in 0 .. k - 1 : ~(m.col_idx[e] = a /\ RowOf(m, e) = col)) =>
            ~Holds(tr, a, col)

LEMMA NotHeld == \A m, a, col : ~Holds(m, a, col) => get_element(m, a, col) = 0
BY DEF get_element

(* One more element: no other is in that row and column.                   *)
LEMMA StepHolds ==
  ASSUME NEW m, Sorted(m), NEW k \in 0 .. Count(m) - 1, NEW tr, HoldsFirst(m, tr, k)
  PROVE  HoldsFirst(m, Step(m, tr, k), k + 1)
<1> DEFINE i == m.col_idx[k]
           u == RowOf(m, k)
           v == m.data[k]
           r == Step(m, tr, k)
<1>1. i \in Index /\ u \in Index /\ k \in Row(m, u) /\ v \in Int /\ k \in Nat
      /\ Count(m) \in Nat /\ Count(m) <= MAX_SIZE_SP_MAT /\ MAX_SIZE_SP_MAT \in Nat
  BY RowOfIs, Entries, Sizes
<1>2. Sorted(tr) /\ LastIsLast(tr) /\ ~tr.overrun /\ Count(tr) <= k
  BY DEF HoldsFirst
<1>3. \A a, col \in Index :
        /\ \A e \in 0 .. k - 1 : m.col_idx[e] = a /\ RowOf(m, e) = col =>
             get_element(tr, a, col) = m.data[e]
        /\ (\A e \in 0 .. k - 1 : ~(m.col_idx[e] = a /\ RowOf(m, e) = col)) =>
             ~Holds(tr, a, col)
  BY DEF HoldsFirst
<1>4. \A e \in 0 .. k - 1 : ~(m.col_idx[e] = i /\ RowOf(m, e) = u)
  <2> SUFFICES ASSUME NEW e \in 0 .. k - 1, m.col_idx[e] = i, RowOf(m, e) = u
               PROVE  FALSE
    OBVIOUS
  <2>1. e \in 0 .. Count(m) - 1 /\ e < k
    BY <1>1
  <2>2. e \in Row(m, u)
    BY <2>1, RowOfIs
  <2>3. m.col_idx[e] < m.col_idx[k] /\ m.col_idx[k] \in Nat
    BY <1>1, <2>1, <2>2, ColumnsIncrease
  <2>4. QED BY <2>3
<1> HIDE DEF i, u, v
<1>5. /\ Sorted(r) /\ LastIsLast(r) /\ Grown(tr, r, i, u, v)
      /\ ~r.overrun => \A a, col \in Index : get_element(r, a, col) =
           IF v # 0 /\ a = i /\ col = u THEN v ELSE get_element(tr, a, col)
  <2>1. r = insert_element(tr, i, u, v)
    BY DEF Step, i, u, v
  <2> HIDE DEF r
  <2>2. \A x, y \in Index, z \in Int :
          LET t == insert_element(tr, x, y, z)
          IN  /\ Sorted(t) /\ LastIsLast(t) /\ (tr.overrun => t.overrun)
              /\ ~t.overrun => \A a, col \in Index : get_element(t, a, col) =
                   IF z # 0 /\ a = x /\ col = y THEN z ELSE get_element(tr, a, col)
              /\ Grown(tr, t, x, y, z)
    BY <1>2, InsertResult
  <2>3. QED BY <1>1, <2>1, <2>2
<1> HIDE DEF r
<1>6. ~r.overrun /\ Count(r) <= k + 1
  <2>1. Count(tr) \in Nat /\ Count(r) \in Nat
    BY <1>2, <1>5, Entries
  <2>2. /\ Count(r) <= Count(tr) + 1
        /\ r.overrun => tr.overrun \/ Count(tr) = MAX_SIZE_SP_MAT
    BY <1>5 DEF Grown
  <2>3. ~r.overrun
    BY <1>1, <1>2, <2>1, <2>2
  <2>4. QED BY <1>1, <1>2, <2>1, <2>2, <2>3
<1>7. \A a, col \in Index :
        Holds(r, a, col) <=> Holds(tr, a, col) \/ (v # 0 /\ a = i /\ col = u)
  BY <1>5, <1>6 DEF Grown
<1>8. ASSUME NEW a \in Index, NEW col \in Index
      PROVE  /\ \A e \in 0 .. k + 1 - 1 : m.col_idx[e] = a /\ RowOf(m, e) = col =>
                  get_element(r, a, col) = m.data[e]
             /\ (\A e \in 0 .. k + 1 - 1 : ~(m.col_idx[e] = a /\ RowOf(m, e) = col)) =>
                  ~Holds(r, a, col)
  <2>1. get_element(r, a, col) = IF v # 0 /\ a = i /\ col = u THEN v ELSE get_element(tr, a, col)
    BY <1>5, <1>6
  <2>2. /\ \A e \in 0 .. k - 1 : m.col_idx[e] = a /\ RowOf(m, e) = col =>
             get_element(tr, a, col) = m.data[e]
        /\ (\A e \in 0 .. k - 1 : ~(m.col_idx[e] = a /\ RowOf(m, e) = col)) =>
             ~Holds(tr, a, col)
    BY <1>3
  <2>3. \A e \in 0 .. k + 1 - 1 : e \in 0 .. k - 1 \/ e = k
    BY <1>1
  <2>4. m.col_idx[k] = i /\ RowOf(m, k) = u /\ m.data[k] = v /\ k \in 0 .. k + 1 - 1
    BY <1>1 DEF i, u, v
  <2>5. CASE a = i /\ col = u
    <3>1. get_element(tr, a, col) = 0
      BY <1>4, <2>2, <2>5, NotHeld
    <3>2. get_element(r, a, col) = v
      BY <2>1, <2>5, <3>1
    <3>3. \A e \in 0 .. k + 1 - 1 : m.col_idx[e] = a /\ RowOf(m, e) = col =>
            get_element(r, a, col) = m.data[e]
      BY <1>4, <2>3, <2>4, <2>5, <3>2
    <3>4. QED BY <2>4, <2>5, <3>3
  <2>6. CASE ~(a = i /\ col = u)
    <3>1. get_element(r, a, col) = get_element(tr, a, col)
      BY <2>1, <2>6
    <3>2. \A e \in 0 .. k + 1 - 1 : m.col_idx[e] = a /\ RowOf(m, e) = col => e \in 0 .. k - 1
      BY <2>3, <2>4, <2>6
    <3>3. \A e \in 0 .. k - 1 : e \in 0 .. k + 1 - 1
      BY <1>1
    <3>4. Holds(r, a, col) <=> Holds(tr, a, col)
      BY <1>7, <2>6
    <3>5. QED BY <2>2, <3>1, <3>2, <3>3, <3>4
  <2>7. QED BY <2>5, <2>6
<1>9. QED BY <1>5, <1>6, <1>8 DEF HoldsFirst, r

(* The places of m in their order.                                         *)
ElementsOf(m) == Upwards(0, m.row_ptr[m.max_line] - 1)

LEMMA ElementsOfAre ==
  ASSUME NEW m, Sorted(m)
  PROVE  DOMAIN ElementsOf(m) = 1 .. Count(m)
         /\ \A k \in 1 .. Count(m) : ElementsOf(m)[k] = k - 1
<1> DEFINE n == Count(m)
<1>1. n \in Nat /\ m.row_ptr[m.max_line] = n
  BY Entries DEF Sorted
<1>2. ElementsOf(m) = [h \in 1 .. (n - 1) - 0 + 1 |-> 0 + h - 1]
  BY <1>1 DEF Upwards, ElementsOf
<1>3. (n - 1) - 0 + 1 = n /\ \A h \in 1 .. n : 0 + h - 1 = h - 1
  BY <1>1
<1> HIDE DEF n
<1>4. DOMAIN ElementsOf(m) = 1 .. n /\ \A h \in 1 .. n : ElementsOf(m)[h] = h - 1
  BY <1>2, <1>3
<1>5. QED BY <1>4 DEF n

(* The matrices in the order a transposition goes through.                 *)
Ordered == {m \in CsrMatrix : Sorted(m) /\ LastIsLast(m)}

LEMMA TransposeFold ==
  ASSUME NEW m, Sorted(m)
  PROVE  \E c \in [0 .. Count(m) -> Ordered] :
           /\ c[0] = EmptyCsr /\ c[Count(m)] = transpose_lower_triangular_in_place(m)
           /\ \A k \in 1 .. Count(m) : c[k] = Step(m, c[k - 1], ElementsOf(m)[k])
<1> DEFINE f == [p \in (Ordered) \X (1 .. Count(m)) |-> Step(m, p[1], ElementsOf(m)[p[2]])]
           P(g) == g = [s \in SUBSET (DOMAIN ElementsOf(m)) |->
                          IF s = {} THEN EmptyCsr
                          ELSE Step(m, g[s \ {Max(s)}], ElementsOf(m)[Max(s)])]
           h == CHOOSE g : P(g)
<1>1. Count(m) \in Nat /\ DOMAIN ElementsOf(m) = 1 .. Count(m) /\ EmptyCsr \in Ordered
  <2>1. EmptyCsr \in Ordered
    BY NoElement DEF Ordered, Sorted
  <2>2. QED BY <2>1, ElementsOfAre, Entries
<1>2. \A a \in Ordered, k \in 1 .. Count(m) : Step(m, a, ElementsOf(m)[k]) \in Ordered
  <2> TAKE a \in Ordered, k \in 1 .. Count(m)
  <2>1. PICK e \in 0 .. Count(m) - 1 : e = ElementsOf(m)[k]
    <3>1. k - 1 \in 0 .. Count(m) - 1
      BY Entries
    <3>2. QED BY <3>1, ElementsOfAre
  <2>2. m.col_idx[e] \in Index /\ RowOf(m, e) \in Index /\ m.data[e] \in Int
    BY RowOfIs, Entries
  <2>3. Sorted(a) /\ LastIsLast(a)
    BY DEF Ordered
  <2>4. \A x, y \in Index, z \in Int :
          Sorted(insert_element(a, x, y, z)) /\ LastIsLast(insert_element(a, x, y, z))
    BY <2>3, InsertResult
  <2>5. Sorted(Step(m, a, e)) /\ LastIsLast(Step(m, a, e))
    BY <2>2, <2>4 DEF Step
  <2>6. QED BY <2>1, <2>5 DEF Ordered, Sorted
<1>3. transpose_lower_triangular_in_place(m) = h[DOMAIN ElementsOf(m)]
  BY DEF transpose_lower_triangular_in_place, transpose_lower_triangular, init_sp_mat,
         ElementsOf, Step, FoldLeft, MapThenFoldSet
<1>4. f \in [(Ordered) \X (1 .. Count(m)) -> Ordered]
  BY <1>2
<1> HIDE DEF h
<1>5. P(h)
  <2>1. PICK g \in [SUBSET (1 .. Count(m)) -> Ordered] : FoldOf(f, EmptyCsr, Count(m), g)
    BY <1>1, <1>4, FoldExists
  <2>2. ASSUME NEW s \in SUBSET (1 .. Count(m)), s # {}
        PROVE  g[s] = Step(m, g[s \ {Max(s)}], ElementsOf(m)[Max(s)])
    <3>1. Max(s) \in s
      BY <1>1, <2>2, GreatestIn
    <3>2. g[s \ {Max(s)}] \in Ordered
      OBVIOUS
    <3>3. g[s] = f[<<g[s \ {Max(s)}], Max(s)>>]
      BY <2>1, <2>2 DEF FoldOf
    <3>4. QED BY <3>1, <3>2, <3>3
  <2>3. g[{}] = EmptyCsr
    BY <2>1 DEF FoldOf
  <2>4. P(g)
    BY <1>1, <2>2, <2>3
  <2>5. QED BY <2>4 DEF h
<1>6. h[1 .. 0] = EmptyCsr
  BY <1>1, <1>5, Nothing
<1>7. ASSUME NEW k \in 1 .. Count(m), h[1 .. k - 1] \in Ordered
      PROVE  h[1 .. k] = f[<<h[1 .. k - 1], k>>]
  <2>1. Max(1 .. k) = k /\ (1 .. k) \ {k} = 1 .. k - 1 /\ 1 .. k # {}
        /\ 1 .. k \in SUBSET (1 .. Count(m))
    BY <1>1, FirstPlaces
  <2>2. h[1 .. k] = Step(m, h[1 .. k - 1], ElementsOf(m)[k])
    BY <1>1, <1>5, <2>1
  <2>3. QED BY <1>7, <2>2
<1> HIDE DEF f
<1>8. PICK c \in [0 .. Count(m) -> Ordered] : Chain(c, f, EmptyCsr, Count(m), h[1 .. Count(m)])
  <2>1. HasSteps(h, f, Ordered, Count(m))
    BY <1>7 DEF HasSteps
  <2>2. QED BY <1>1, <1>4, <1>6, <2>1, ChainOf
<1>9. \A k \in 1 .. Count(m) : c[k] = Step(m, c[k - 1], ElementsOf(m)[k])
  <2> TAKE k \in 1 .. Count(m)
  <2>1. c[k - 1] \in Ordered
    BY <1>1
  <2>2. QED BY <1>8, <2>1 DEF Chain, f
<1>10. QED BY <1>1, <1>3, <1>8, <1>9 DEF Chain

(* The transposed matrix is in order and reads so, and there is room for   *)
(* it; it has an element only where m has one.                             *)
LEMMA TransposeResult ==
  ASSUME NEW m, Sorted(m)
  PROVE  LET r == transpose_lower_triangular_in_place(m)
         IN  /\ Sorted(r) /\ LastIsLast(r) /\ ~r.overrun
             /\ \A a, col \in Index : get_element(r, a, col) = get_element(m, col, a)
             /\ \A a, col \in Index : Holds(r, a, col) => Holds(m, col, a)
<1> DEFINE r == transpose_lower_triangular_in_place(m)
           n == Count(m)
<1>1. n \in Nat
  BY Entries
<1>2. PICK c \in [0 .. n -> Ordered] :
        /\ c[0] = EmptyCsr /\ c[n] = r
        /\ \A k \in 1 .. n : c[k] = Step(m, c[k - 1], ElementsOf(m)[k])
  BY TransposeFold
<1>3. HoldsFirst(m, EmptyCsr, 0)
  <2>1. 0 .. 0 - 1 = {} /\ Count(EmptyCsr) <= 0
    BY DEF Count, EmptyCsr
  <2>2. \A a, col \in Index : ~Holds(EmptyCsr, a, col)
    <3>1. \A a \in Index : Row(EmptyCsr, a) \in SUBSET (0 .. Count(EmptyCsr) - 1)
      BY NoElement, RowIs
    <3>2. Count(EmptyCsr) = 0 /\ 0 .. 0 - 1 = {}
      BY DEF Count, EmptyCsr
    <3>3. QED BY <3>1, <3>2 DEF Holds
  <2>3. QED BY <2>1, <2>2, NoElement DEF HoldsFirst
<1>4. \A k \in 0 .. n : HoldsFirst(m, c[k], k)
  <2> DEFINE T == {k \in 0 .. n : HoldsFirst(m, c[k], k)}
  <2>1. 0 \in T
    BY <1>1, <1>2, <1>3
  <2>2. ASSUME NEW k \in 1 .. n, k - 1 \in T
        PROVE  k \in T
    <3>1. PICK p \in 0 .. n - 1 : p = k - 1
      BY <1>1
    <3>2. HoldsFirst(m, c[p], p) /\ p + 1 = k /\ k \in 0 .. n
      BY <1>1, <2>2, <3>1
    <3>3. HoldsFirst(m, Step(m, c[p], p), p + 1)
      BY <3>2, StepHolds
    <3>4. c[k] = Step(m, c[p], p)
      BY <1>2, <3>1, ElementsOfAre
    <3>5. QED BY <3>2, <3>3, <3>4
  <2> HIDE DEF T
  <2>3. \A k \in 0 .. n : k \in T
    BY <1>1, <2>1, <2>2, UpTo
  <2>4. QED BY <2>3 DEF T
<1>10. HoldsFirst(m, r, n)
  <2>1. n \in 0 .. n
    BY <1>1
  <2>2. QED BY <1>2, <1>4, <2>1
<1> HIDE DEF r
<1>11. ASSUME NEW a \in Index, NEW col \in Index
       PROVE  /\ get_element(r, a, col) = get_element(m, col, a)
              /\ Holds(r, a, col) => Holds(m, col, a)
  <2>1. /\ \A e \in 0 .. n - 1 : m.col_idx[e] = a /\ RowOf(m, e) = col =>
             get_element(r, a, col) = m.data[e]
        /\ (\A e \in 0 .. n - 1 : ~(m.col_idx[e] = a /\ RowOf(m, e) = col)) =>
             ~Holds(r, a, col)
    BY <1>10 DEF HoldsFirst
  <2>2. /\ \A p \in Row(m, col) : m.col_idx[p] = a => get_element(m, col, a) = m.data[p]
        /\ (\A p \in Row(m, col) : m.col_idx[p] # a) => get_element(m, col, a) = 0
    BY ReadIs
  <2>3. \A e \in 0 .. n - 1 : RowOf(m, e) = col => e \in Row(m, col)
    BY RowOfIs
  <2>4. \A p \in Row(m, col) : p \in 0 .. n - 1 /\ RowOf(m, p) = col
    <3> TAKE p \in Row(m, col)
    <3>1. p \in 0 .. Count(m) - 1
      BY RowIs
    <3>2. RowOf(m, p) \in Index /\ p \in Row(m, RowOf(m, p))
      BY <3>1, RowOfIs
    <3>3. RowOf(m, p) = col
      BY <3>2, RowsApart
    <3>4. QED BY <3>1, <3>3
  <2>5. CASE \E p \in Row(m, col) : m.col_idx[p] = a
    BY <2>1, <2>2, <2>4, <2>5, HoldsIff
  <2>6. CASE \A p \in Row(m, col) : m.col_idx[p] # a
    BY <2>1, <2>2, <2>3, <2>6, NotHeld
  <2>7. QED BY <2>5, <2>6
<1>12. Sorted(r) /\ LastIsLast(r) /\ ~r.overrun
  BY <1>10 DEF HoldsFirst
<1>13. QED BY <1>11, <1>12 DEF r

----------------------------------------------------------------------------
(* Every sequence of calls *)

LEMMA InitInv == MatrixInit => MatrixInv
<1> SUFFICES ASSUME MatrixInit PROVE MatrixInv
  OBVIOUS
<1>1. mat = EmptyCsr /\ dense = [e \in Index \X Index |-> 0]
  BY DEF MatrixInit, init_sp_mat
<1>2. Sorted(mat) /\ LastIsLast(mat) /\ \A a, col \in Index : get_element(mat, a, col) = 0
  BY <1>1, NoElement
<1>3. \A a, col \in Index : dense[<<a, col>>] = 0
  BY <1>1
<1>4. 0 \in Value
  BY SparseAssumption DEF Value
<1>5. MatrixTypeOK
  BY <1>1, <1>2, <1>4 DEF MatrixTypeOK, Sorted
<1>6. ReadsDense
  BY <1>2, <1>3 DEF ReadsDense
<1>7. QED BY <1>2, <1>5, <1>6 DEF MatrixInv

(* A call preserves the invariant if its result does and reads as the      *)
(* matrix the call means.                                                  *)
LEMMA CallInv ==
  ASSUME Sorted(mat)', LastIsLast(mat)', dense' \in [Index \X Index -> Value],
         ~mat'.overrun => \A a, col \in Index : get_element(mat', a, col) = dense'[<<a, col>>]
  PROVE  MatrixInv'
<1>1. mat' \in CsrMatrix
  BY DEF Sorted
<1>2. MatrixTypeOK'
  BY <1>1 DEF MatrixTypeOK
<1>3. ReadsDense'
  BY DEF ReadsDense
<1>4. QED BY <1>2, <1>3 DEF MatrixInv

LEMMA InsertInv ==
  ASSUME MatrixInv, ~mat.overrun, NEW i \in Index, NEW u \in Index, NEW value \in Value,
         Insert(i, u, value)
  PROVE  MatrixInv'
<1>1. /\ Sorted(mat) /\ LastIsLast(mat) /\ dense \in [Index \X Index -> Value]
      /\ \A a, col \in Index : get_element(mat, a, col) = dense[<<a, col>>]
  BY DEF MatrixInv, MatrixTypeOK, ReadsDense
<1>2. value \in Int
  BY SparseAssumption DEF Value
<1>3. /\ mat' = insert_element(mat, i, u, value)
      /\ dense' = IF value = 0 THEN dense ELSE [dense EXCEPT ![<<i, u>>] = value]
  BY DEF Insert
<1>4. /\ Sorted(mat') /\ LastIsLast(mat')
      /\ ~mat'.overrun => \A a, col \in Index : get_element(mat', a, col) =
           IF value # 0 /\ a = i /\ col = u THEN value ELSE get_element(mat, a, col)
  <2>1. LET r == insert_element(mat, i, u, value)
        IN  /\ Sorted(r) /\ LastIsLast(r) /\ (mat.overrun => r.overrun)
            /\ ~r.overrun => \A a, col \in Index : get_element(r, a, col) =
                 IF value # 0 /\ a = i /\ col = u THEN value ELSE get_element(mat, a, col)
    BY <1>1, <1>2, InsertResult
  <2>2. QED BY <1>3, <2>1
<1>5. dense' \in [Index \X Index -> Value]
  BY <1>1, <1>3
<1>6. \A a, col \in Index : dense'[<<a, col>>] =
        IF value # 0 /\ a = i /\ col = u THEN value ELSE dense[<<a, col>>]
  BY <1>1, <1>3
<1>7. ~mat'.overrun => \A a, col \in Index : get_element(mat', a, col) = dense'[<<a, col>>]
  BY <1>1, <1>4, <1>6
<1>8. QED BY <1>4, <1>5, <1>7, CallInv

LEMMA AddToInv ==
  ASSUME MatrixInv, ~mat.overrun, NEW i \in Index, NEW u \in Index, NEW value \in Value,
         AddTo(i, u, value)
  PROVE  MatrixInv'
<1>1. /\ Sorted(mat) /\ LastIsLast(mat) /\ dense \in [Index \X Index -> Value]
      /\ \A a, col \in Index : get_element(mat, a, col) = dense[<<a, col>>]
  BY DEF MatrixInv, MatrixTypeOK, ReadsDense
<1>2. value \in Int
  BY SparseAssumption DEF Value
<1>3. /\ mat' = add_to_element(mat, i, u, value)
      /\ dense[<<i, u>>] + value \in Value
      /\ dense' = [dense EXCEPT ![<<i, u>>] = dense[<<i, u>>] + value]
  BY DEF AddTo
<1>4. /\ Sorted(mat') /\ LastIsLast(mat')
      /\ ~mat'.overrun => \A a, col \in Index : get_element(mat', a, col) =
           IF a = i /\ col = u THEN get_element(mat, a, col) + value
                             ELSE get_element(mat, a, col)
  <2>1. LET r == add_to_element(mat, i, u, value)
        IN  /\ Sorted(r) /\ LastIsLast(r) /\ (mat.overrun => r.overrun)
            /\ ~r.overrun => \A a, col \in Index : get_element(r, a, col) =
                 IF a = i /\ col = u THEN get_element(mat, a, col) + value
                                   ELSE get_element(mat, a, col)
    BY <1>1, <1>2, AddResult
  <2>2. QED BY <1>3, <2>1
<1>5. dense' \in [Index \X Index -> Value]
  BY <1>1, <1>3
<1>6. \A a, col \in Index : dense'[<<a, col>>] =
        IF a = i /\ col = u THEN dense[<<a, col>>] + value ELSE dense[<<a, col>>]
  BY <1>1, <1>3
<1>7. ~mat'.overrun => \A a, col \in Index : get_element(mat', a, col) = dense'[<<a, col>>]
  BY <1>1, <1>4, <1>6
<1>8. QED BY <1>4, <1>5, <1>7, CallInv

LEMMA TransposeInv ==
  ASSUME MatrixInv, ~mat.overrun, Transpose
  PROVE  MatrixInv'
<1>1. /\ Sorted(mat) /\ dense \in [Index \X Index -> Value]
      /\ \A a, col \in Index : get_element(mat, a, col) = dense[<<a, col>>]
  BY DEF MatrixInv, MatrixTypeOK, ReadsDense
<1>2. /\ mat' = transpose_lower_triangular_in_place(mat)
      /\ dense' = [e \in Index \X Index |-> dense[<<e[2], e[1]>>]]
  BY DEF Transpose
<1>3. /\ Sorted(mat') /\ LastIsLast(mat')
      /\ \A a, col \in Index : get_element(mat', a, col) = get_element(mat, col, a)
  BY <1>1, <1>2, TransposeResult
<1>4. \A e \in Index \X Index : <<e[2], e[1]>> \in Index \X Index
  OBVIOUS
<1>5. dense' \in [Index \X Index -> Value]
  BY <1>1, <1>2, <1>4
<1>6. \A a, col \in Index : dense'[<<a, col>>] = dense[<<col, a>>]
  BY <1>2
<1>7. ~mat'.overrun => \A a, col \in Index : get_element(mat', a, col) = dense'[<<a, col>>]
  BY <1>1, <1>3, <1>6
<1>8. QED BY <1>3, <1>5, <1>7, CallInv

LEMMA EmptyInv ==
  ASSUME MatrixInv, Empty
  PROVE  MatrixInv'
<1>1. mat' = EmptyCsr /\ dense' = [e \in Index \X Index |-> 0]
  BY DEF Empty, init_sp_mat
<1>2. Sorted(mat') /\ LastIsLast(mat') /\ \A a, col \in Index : get_element(mat', a, col) = 0
  BY <1>1, NoElement
<1>3. \A a, col \in Index : dense'[<<a, col>>] = 0
  BY <1>1
<1>4. 0 \in Value
  BY SparseAssumption DEF Value
<1>5. dense' \in [Index \X Index -> Value]
  BY <1>1, <1>4
<1>6. \A a, col \in Index : get_element(mat', a, col) = dense'[<<a, col>>]
  BY <1>2, <1>3
<1>7. QED BY <1>2, <1>5, <1>6, CallInv

LEMMA NextInv == MatrixInv /\ [MatrixNext]_matrixVars => MatrixInv'
<1> SUFFICES ASSUME MatrixInv, [MatrixNext]_matrixVars PROVE MatrixInv'
  OBVIOUS
<1>1. ASSUME ~mat.overrun, NEW i \in Index, NEW u \in Index, NEW value \in Value,
             Insert(i, u, value)
      PROVE  MatrixInv'
  BY <1>1, InsertInv
<1>2. ASSUME ~mat.overrun, NEW i \in Index, NEW u \in Index, NEW value \in Value,
             AddTo(i, u, value)
      PROVE  MatrixInv'
  BY <1>2, AddToInv
<1>3. CASE ~mat.overrun /\ Transpose
  BY <1>3, TransposeInv
<1>4. CASE Empty
  BY <1>4, EmptyInv
<1>5. CASE UNCHANGED matrixVars
  BY <1>5 DEF matrixVars, MatrixInv, MatrixTypeOK, ReadsDense
<1>6. QED BY <1>1, <1>2, <1>3, <1>4, <1>5 DEF MatrixNext

(* Under any sequence of insertions, additions, transpositions and         *)
(* clearings the rows are in order and the last element is the last one    *)
(* (sparse-matrix.c:19-139), whatever N and the sizes of the arrays.       *)
THEOREM SparseInvariant == MatrixSpec => []MatrixInv
<1>1. MatrixInit => MatrixInv
  BY InitInv
<1>2. MatrixInv /\ [MatrixNext]_matrixVars => MatrixInv'
  BY NextInv
<1>3. QED BY <1>1, <1>2, PTL DEF MatrixSpec

(* The rows follow each other without gap or overlap up to the last        *)
(* element, and the columns of each increase: every search along a row     *)
(* stops at the first column that is not smaller.                          *)
THEOREM RowsInOrderTheorem == MatrixSpec => []RowsInOrder
<1>1. MatrixInv => RowsInOrder
  <2> SUFFICES ASSUME MatrixInv PROVE RowsInOrder
    OBVIOUS
  <2>1. MatrixTypeOK /\ Sorted(mat)
    BY DEF MatrixInv
  <2>2. /\ mat.row_ptr[0] = 0
        /\ mat.row_ptr[mat.max_line] = IF mat.max_line = 0 THEN 0 ELSE mat.nz_cnt + 1
        /\ \A i \in 0 .. mat.max_line - 1 : \A k, h \in Row(mat, i) :
             k < h => mat.col_idx[k] < mat.col_idx[h]
    BY <2>1 DEF Sorted, Count
  <2>3. \A i \in 0 .. mat.max_line - 1 : mat.row_ptr[i] <= mat.row_ptr[i + 1]
    <3> TAKE i \in 0 .. mat.max_line - 1
    <3>1. mat.max_line \in Nat
      BY <2>1, FieldTypes
    <3>2. i \in 0 .. mat.max_line /\ i + 1 \in 0 .. mat.max_line /\ i <= i + 1
      BY <3>1
    <3>3. QED BY <2>1, <3>2 DEF Sorted
  <2>4. QED BY <2>1, <2>2, <2>3 DEF RowsInOrder
<1>2. QED BY <1>1, SparseInvariant, PTL

(* Read element by element, the sparse matrix is the dense one that the    *)
(* calls speak of, unless its arrays were overrun.                         *)
THEOREM ReadsDenseTheorem == MatrixSpec => []ReadsDense
<1>1. MatrixInv => ReadsDense
  BY DEF MatrixInv
<1>2. QED BY <1>1, SparseInvariant, PTL

----------------------------------------------------------------------------
(* Powers of two and sums of them *)

LEMMA UpwardsAre ==
  ASSUME NEW n \in Nat
  PROVE  DOMAIN Upwards(0, n - 1) = 1 .. n /\ \A k \in 1 .. n : Upwards(0, n - 1)[k] = k - 1
<1>1. Upwards(0, n - 1) = [h \in 1 .. (n - 1) - 0 + 1 |-> 0 + h - 1]
  BY DEF Upwards
<1>2. (n - 1) - 0 + 1 = n /\ \A h \in 1 .. n : 0 + h - 1 = h - 1
  OBVIOUS
<1>3. QED BY <1>1, <1>2

LEMMA TwoToFold ==
  ASSUME NEW n \in Nat
  PROVE  \E c \in [0 .. n -> Nat \ {0}] :
           /\ c[0] = 1 /\ c[n] = TwoTo(n)
           /\ \A k \in 1 .. n : c[k] = 2 * c[k - 1]
<1> DEFINE f == [p \in (Nat \ {0}) \X (1 .. n) |-> 2 * p[1]]
           P(g) == g = [s \in SUBSET (DOMAIN Upwards(1, n)) |->
                          IF s = {} THEN 1
                          ELSE 2 * g[s \ {Max(s)}]]
           h == CHOOSE g : P(g)
<1>1. n \in Nat /\ DOMAIN Upwards(1, n) = 1 .. n /\ 1 \in Nat \ {0}
  BY DEF Upwards
<1>2. \A a \in Nat \ {0}, k \in 1 .. n : 2 * a \in Nat \ {0}
  OBVIOUS
<1>3. TwoTo(n) = h[DOMAIN Upwards(1, n)]
  BY DEF TwoTo, FoldLeft, MapThenFoldSet
<1>4. f \in [(Nat \ {0}) \X (1 .. n) -> Nat \ {0}]
  BY <1>2
<1> HIDE DEF h
<1>5. P(h)
  <2>1. PICK g \in [SUBSET (1 .. n) -> Nat \ {0}] : FoldOf(f, 1, n, g)
    BY <1>1, <1>4, FoldExists
  <2>2. ASSUME NEW s \in SUBSET (1 .. n), s # {}
        PROVE  g[s] = 2 * g[s \ {Max(s)}]
    <3>1. Max(s) \in s
      BY <1>1, <2>2, GreatestIn
    <3>2. g[s \ {Max(s)}] \in Nat \ {0}
      OBVIOUS
    <3>3. g[s] = f[<<g[s \ {Max(s)}], Max(s)>>]
      BY <2>1, <2>2 DEF FoldOf
    <3>4. QED BY <3>1, <3>2, <3>3
  <2>3. g[{}] = 1
    BY <2>1 DEF FoldOf
  <2>4. P(g)
    BY <1>1, <2>2, <2>3
  <2>5. QED BY <2>4 DEF h
<1>6. h[1 .. 0] = 1
  BY <1>1, <1>5, Nothing
<1>7. ASSUME NEW k \in 1 .. n, h[1 .. k - 1] \in Nat \ {0}
      PROVE  h[1 .. k] = f[<<h[1 .. k - 1], k>>]
  <2>1. Max(1 .. k) = k /\ (1 .. k) \ {k} = 1 .. k - 1 /\ 1 .. k # {}
        /\ 1 .. k \in SUBSET (1 .. n)
    BY <1>1, FirstPlaces
  <2>2. h[1 .. k] = 2 * h[1 .. k - 1]
    BY <1>1, <1>5, <2>1
  <2>3. QED BY <1>7, <2>2
<1> HIDE DEF f
<1>8. PICK c \in [0 .. n -> Nat \ {0}] : Chain(c, f, 1, n, h[1 .. n])
  <2>1. HasSteps(h, f, Nat \ {0}, n)
    BY <1>7 DEF HasSteps
  <2>2. QED BY <1>1, <1>4, <1>6, <2>1, ChainOf
<1>9. \A k \in 1 .. n : c[k] = 2 * c[k - 1]
  <2> TAKE k \in 1 .. n
  <2>1. c[k - 1] \in Nat \ {0}
    BY <1>1
  <2>2. QED BY <1>8, <2>1 DEF Chain, f
<1>10. QED BY <1>1, <1>3, <1>8, <1>9 DEF Chain

LEMMA TwoToIs ==
  ASSUME NEW n \in Nat
  PROVE  TwoTo(n) \in Nat /\ TwoTo(n) > 0
<1>1. PICK c \in [0 .. n -> Nat \ {0}] : c[n] = TwoTo(n)
  BY TwoToFold
<1>2. c[n] \in Nat \ {0}
  OBVIOUS
<1>3. QED BY <1>1, <1>2

LEMMA BitIs ==
  /\ \A k \in Nat : Bit(k) \in Nat /\ Bit(k) > 0
  /\ \A s, k : k \in Index => BitIn(s, k) \in Nat
<1>1. \A k \in Nat : Bit(k) \in Nat /\ Bit(k) > 0
  BY TwoToIs DEF Bit
<1>2. \A k \in Index : k \in Nat
  BY Sizes
<1>3. QED BY <1>1, <1>2 DEF BitIn

LEMMA SumFold ==
  ASSUME NEW cols
  PROVE  \E c \in [0 .. N -> Nat] :
           /\ c[0] = 0 /\ c[N] = SumOf(cols)
           /\ \A k \in 1 .. N : c[k] = c[k - 1] + BitIn(cols, Upwards(0, N - 1)[k])
<1> DEFINE f == [p \in (Nat) \X (1 .. N) |-> p[1] + BitIn(cols, Upwards(0, N - 1)[p[2]])]
           P(g) == g = [s \in SUBSET (DOMAIN Upwards(0, N - 1)) |->
                          IF s = {} THEN 0
                          ELSE g[s \ {Max(s)}] + BitIn(cols, Upwards(0, N - 1)[Max(s)])]
           h == CHOOSE g : P(g)
<1>1. N \in Nat /\ DOMAIN Upwards(0, N - 1) = 1 .. N /\ 0 \in Nat
  <2>1. N \in Nat
    BY Sizes
  <2>2. QED BY <2>1, UpwardsAre
<1>2. \A a \in Nat, k \in 1 .. N : a + BitIn(cols, Upwards(0, N - 1)[k]) \in Nat
  <2> TAKE a \in Nat, k \in 1 .. N
  <2>1. Upwards(0, N - 1)[k] \in Index
    <3>1. N \in Nat /\ k - 1 \in Index
      BY Sizes DEF Index
    <3>2. QED BY <3>1, UpwardsAre
  <2>2. QED BY <2>1, BitIs
<1>3. SumOf(cols) = h[DOMAIN Upwards(0, N - 1)]
  BY DEF SumOf, FoldLeft, MapThenFoldSet
<1>4. f \in [(Nat) \X (1 .. N) -> Nat]
  BY <1>2
<1> HIDE DEF h
<1>5. P(h)
  <2>1. PICK g \in [SUBSET (1 .. N) -> Nat] : FoldOf(f, 0, N, g)
    BY <1>1, <1>4, FoldExists
  <2>2. ASSUME NEW s \in SUBSET (1 .. N), s # {}
        PROVE  g[s] = g[s \ {Max(s)}] + BitIn(cols, Upwards(0, N - 1)[Max(s)])
    <3>1. Max(s) \in s
      BY <1>1, <2>2, GreatestIn
    <3>2. g[s \ {Max(s)}] \in Nat
      OBVIOUS
    <3>3. g[s] = f[<<g[s \ {Max(s)}], Max(s)>>]
      BY <2>1, <2>2 DEF FoldOf
    <3>4. QED BY <3>1, <3>2, <3>3
  <2>3. g[{}] = 0
    BY <2>1 DEF FoldOf
  <2>4. P(g)
    BY <1>1, <2>2, <2>3
  <2>5. QED BY <2>4 DEF h
<1>6. h[1 .. 0] = 0
  BY <1>1, <1>5, Nothing
<1>7. ASSUME NEW k \in 1 .. N, h[1 .. k - 1] \in Nat
      PROVE  h[1 .. k] = f[<<h[1 .. k - 1], k>>]
  <2>1. Max(1 .. k) = k /\ (1 .. k) \ {k} = 1 .. k - 1 /\ 1 .. k # {}
        /\ 1 .. k \in SUBSET (1 .. N)
    BY <1>1, FirstPlaces
  <2>2. h[1 .. k] = h[1 .. k - 1] + BitIn(cols, Upwards(0, N - 1)[k])
    BY <1>1, <1>5, <2>1
  <2>3. QED BY <1>7, <2>2
<1> HIDE DEF f
<1>8. PICK c \in [0 .. N -> Nat] : Chain(c, f, 0, N, h[1 .. N])
  <2>1. HasSteps(h, f, Nat, N)
    BY <1>7 DEF HasSteps
  <2>2. QED BY <1>1, <1>4, <1>6, <2>1, ChainOf
<1>9. \A k \in 1 .. N : c[k] = c[k - 1] + BitIn(cols, Upwards(0, N - 1)[k])
  <2> TAKE k \in 1 .. N
  <2>1. c[k - 1] \in Nat
    BY <1>1
  <2>2. QED BY <1>8, <2>1 DEF Chain, f
<1>10. QED BY <1>1, <1>3, <1>8, <1>9 DEF Chain

LEMMA SumSteps ==
  ASSUME NEW s
  PROVE  \E c \in [0 .. N -> Nat] :
           /\ c[0] = 0 /\ c[N] = SumOf(s)
           /\ \A k \in 1 .. N : c[k] = c[k - 1] + BitIn(s, k - 1) /\ BitIn(s, k - 1) \in Nat
<1>1. PICK c \in [0 .. N -> Nat] :
        /\ c[0] = 0 /\ c[N] = SumOf(s)
        /\ \A k \in 1 .. N : c[k] = c[k - 1] + BitIn(s, Upwards(0, N - 1)[k])
  BY SumFold
<1>2. \A k \in 1 .. N : Upwards(0, N - 1)[k] = k - 1 /\ k - 1 \in Index
  BY Sizes, UpwardsAre DEF Index
<1>3. \A k \in 1 .. N : c[k] = c[k - 1] + BitIn(s, k - 1) /\ BitIn(s, k - 1) \in Nat
  BY <1>1, <1>2, BitIs
<1>4. QED BY <1>1, <1>3

LEMMA SumIs == \A s : SumOf(s) \in Nat
<1> TAKE s
<1>1. PICK c \in [0 .. N -> Nat] : c[N] = SumOf(s)
  BY SumSteps
<1>2. c[N] \in Nat
  BY Sizes
<1>3. QED BY <1>1, <1>2

LEMMA SumOfNone == SumOf({}) = 0
<1>1. PICK c \in [0 .. N -> Nat] :
        /\ c[0] = 0 /\ c[N] = SumOf({})
        /\ \A k \in 1 .. N : c[k] = c[k - 1] + BitIn({}, k - 1)
  BY SumSteps
<1>2. \A k : BitIn({}, k) = 0
  BY DEF BitIn
<1> DEFINE T == {k \in 0 .. N : c[k] = 0}
<1>3. N \in Nat /\ 0 \in T
  BY <1>1, Sizes
<1>4. \A k \in 1 .. N : k - 1 \in T => k \in T
  BY <1>1, <1>2, <1>3
<1> HIDE DEF T
<1>5. \A k \in 0 .. N : k \in T
  BY <1>3, <1>4, UpTo
<1>6. N \in T
  BY <1>3, <1>5
<1>7. QED BY <1>1, <1>6 DEF T

LEMMA SumOfBoth ==
  ASSUME NEW s, NEW t, s \cap t = {}
  PROVE  SumOf(s \cup t) = SumOf(s) + SumOf(t)
<1>1. PICK c \in [0 .. N -> Nat] :
        /\ c[0] = 0 /\ c[N] = SumOf(s)
        /\ \A k \in 1 .. N : c[k] = c[k - 1] + BitIn(s, k - 1) /\ BitIn(s, k - 1) \in Nat
  BY SumSteps
<1>2. PICK d \in [0 .. N -> Nat] :
        /\ d[0] = 0 /\ d[N] = SumOf(t)
        /\ \A k \in 1 .. N : d[k] = d[k - 1] + BitIn(t, k - 1) /\ BitIn(t, k - 1) \in Nat
  BY SumSteps
<1>3. PICK e \in [0 .. N -> Nat] :
        /\ e[0] = 0 /\ e[N] = SumOf(s \cup t)
        /\ \A k \in 1 .. N : e[k] = e[k - 1] + BitIn(s \cup t, k - 1)
                           /\ BitIn(s \cup t, k - 1) \in Nat
  BY SumSteps
<1>4. \A k \in 1 .. N : BitIn(s \cup t, k - 1) = BitIn(s, k - 1) + BitIn(t, k - 1)
  <2> TAKE k \in 1 .. N
  <2>1. Bit(k - 1) \in Nat
    BY BitIs
  <2>2. CASE k - 1 \in s
    BY <2>1, <2>2 DEF BitIn
  <2>3. CASE k - 1 \notin s
    BY <1>2, <2>3 DEF BitIn
  <2>4. QED BY <2>2, <2>3
<1> DEFINE T == {k \in 0 .. N : e[k] = c[k] + d[k]}
<1>5. N \in Nat /\ 0 \in T
  BY <1>1, <1>2, <1>3, Sizes
<1>6. ASSUME NEW k \in 1 .. N, k - 1 \in T
      PROVE  k \in T
  <2>1. e[k - 1] = c[k - 1] + d[k - 1] /\ k \in 0 .. N
    BY <1>6
  <2>2. k - 1 \in 0 .. N
    BY <1>5
  <2>3. c[k - 1] \in Nat /\ d[k - 1] \in Nat
    BY <2>2
  <2> DEFINE x == BitIn(s, k - 1)
             y == BitIn(t, k - 1)
  <2>4. x \in Nat /\ y \in Nat /\ c[k] = c[k - 1] + x /\ d[k] = d[k - 1] + y
        /\ e[k] = e[k - 1] + (x + y)
    BY <1>1, <1>2, <1>3, <1>4
  <2> HIDE DEF x, y
  <2>5. e[k] = c[k] + d[k]
    BY <2>1, <2>3, <2>4
  <2>6. QED BY <2>1, <2>5
<1> HIDE DEF T
<1>7. \A k \in 0 .. N : k \in T
  BY <1>5, <1>6, UpTo
<1>8. N \in T
  BY <1>5, <1>7
<1>9. QED BY <1>1, <1>2, <1>3, <1>8 DEF T

----------------------------------------------------------------------------
(* The shares of the cores *)

LEMMA CoreIs ==
  /\ NUM_CORES \in Nat /\ NUM_CORES > 0
  /\ \A c \in Core : c \in Nat /\ c + 1 \in 0 .. NUM_CORES
BY CoresAssumption DEF Core

(* Where the share of core c begins.                                       *)
Begin(c, n) == (c * n) \div NUM_CORES

LEMMA BeginIs ==
  ASSUME NEW n \in Nat
  PROVE  /\ \A c \in 0 .. NUM_CORES : Begin(c, n) \in Nat
         /\ \A c, d \in 0 .. NUM_CORES : c <= d => Begin(c, n) <= Begin(d, n)
         /\ Begin(0, n) = 0 /\ Begin(NUM_CORES, n) = n
<1>1. NUM_CORES \in Nat /\ NUM_CORES > 0
  BY CoreIs
<1>2. \A x \in Nat : x \div NUM_CORES \in Nat
  BY <1>1
<1>3. \A x, y \in Nat : x <= y => x \div NUM_CORES <= y \div NUM_CORES
  BY <1>1
<1>4. \A c \in Nat : c * n \in Nat
  OBVIOUS
<1>5. \A c, d \in Nat : c <= d => c * n <= d * n
  <2> TAKE c, d \in Nat
  <2>1. CASE c = d
    BY <1>4, <2>1
  <2>2. CASE c < d
    <3>1. c * n + n <= d * n /\ c * n \in Nat /\ d * n \in Nat
      BY <2>2, Product
    <3>2. QED BY <3>1
  <2>3. QED BY <2>1, <2>2
<1>6. (0 * n) \div NUM_CORES = 0
  BY <1>1
<1>7. (NUM_CORES * n) \div NUM_CORES = n
  BY <1>1
<1>8. \A c \in 0 .. NUM_CORES : c \in Nat
  OBVIOUS
<1>9. QED BY <1>2, <1>3, <1>4, <1>5, <1>6, <1>7, <1>8 DEF Begin

(* Every iteration is in the share of one core.                            *)
LEMMA Shares ==
  ASSUME NEW n \in Nat
  PROVE  /\ \A c \in Core : Share(c, n) \in SUBSET (0 .. n - 1)
         /\ \A k \in 0 .. n - 1 : \E c \in Core : k \in Share(c, n)
         /\ \A c, d \in Core : c # d => Share(c, n) \cap Share(d, n) = {}
<1>1. NUM_CORES \in Nat /\ NUM_CORES > 0 /\ 0 \in 0 .. NUM_CORES
      /\ NUM_CORES \in 0 .. NUM_CORES
  BY CoreIs
<1>2. /\ \A c \in 0 .. NUM_CORES : Begin(c, n) \in Nat
      /\ \A c, d \in 0 .. NUM_CORES : c <= d => Begin(c, n) <= Begin(d, n)
      /\ Begin(0, n) = 0 /\ Begin(NUM_CORES, n) = n
  BY BeginIs
<1>3. \A c \in Core : Share(c, n) = Begin(c, n) .. Begin(c + 1, n) - 1
  BY DEF Share, Begin
<1>4. \A c \in Core : c \in 0 .. NUM_CORES /\ c + 1 \in 0 .. NUM_CORES /\ c \in Nat
  BY CoreIs DEF Core
<1>5. ASSUME NEW c \in Core
      PROVE  Share(c, n) \in SUBSET (0 .. n - 1)
  <2>1. Begin(c, n) \in Nat /\ Begin(c + 1, n) \in Nat /\ Begin(c + 1, n) <= n
    BY <1>1, <1>2, <1>4
  <2>2. QED BY <1>3, <2>1
<1>6. ASSUME NEW k \in 0 .. n - 1
      PROVE  \E c \in Core : k \in Share(c, n)
  <2> DEFINE S == {c \in 0 .. NUM_CORES : Begin(c, n) <= k}
  <2>1. S # {} /\ NUM_CORES \notin S
    BY <1>1, <1>2
  <2>2. PICK c \in S : \A x \in S : x <= c
    BY <1>1, <2>1, HasGreatest
  <2>3. c \in Core /\ c + 1 \in 0 .. NUM_CORES /\ ~(c + 1 <= c)
    BY <1>1, <2>1, <2>2 DEF Core
  <2>4. ~(Begin(c + 1, n) <= k) /\ Begin(c + 1, n) \in Nat /\ Begin(c, n) \in Nat
    BY <1>2, <1>4, <2>2, <2>3
  <2>5. k \in Begin(c, n) .. Begin(c + 1, n) - 1
    BY <2>2, <2>4
  <2>6. QED BY <1>3, <2>3, <2>5
<1>7. ASSUME NEW c \in Core, NEW d \in Core, c < d, NEW k \in Share(c, n), k \in Share(d, n)
      PROVE  FALSE
  <2>1. c + 1 <= d /\ c + 1 \in 0 .. NUM_CORES /\ d \in 0 .. NUM_CORES
    BY <1>4, <1>7
  <2>2. Begin(c + 1, n) <= Begin(d, n) /\ Begin(c + 1, n) \in Nat /\ Begin(d, n) \in Nat
        /\ Begin(c, n) \in Nat /\ Begin(d + 1, n) \in Nat
    BY <1>2, <1>4, <2>1
  <2>3. k \in Begin(c, n) .. Begin(c + 1, n) - 1 /\ k \in Begin(d, n) .. Begin(d + 1, n) - 1
    BY <1>3, <1>7
  <2>4. QED BY <2>2, <2>3
<1>8. \A c, d \in Core : c # d => c < d \/ d < c
  BY <1>4
<1>9. \A c, d \in Core : c # d => Share(c, n) \cap Share(d, n) = {}
  BY <1>7, <1>8
<1>10. QED BY <1>5, <1>6, <1>9

----------------------------------------------------------------------------
(* The columns that two rows have in common *)

LEMMA FactorHolds ==
  ASSUME NEW m, Factor(m), NEW a \in Index, NEW col \in Index
  PROVE  /\ get_element(m, a, col) # 0 <=> Holds(m, a, col)
         /\ Holds(m, a, col) => col <= a
<1>1. Sorted(m)
  BY DEF Factor
<1>2. Holds(m, a, col) => Search(m, a, col) \in Row(m, a) /\ m.col_idx[Search(m, a, col)] = col
  BY <1>1, HoldsIs
<1>3. \A p \in Row(m, a) : m.data[p] # 0 /\ m.col_idx[p] <= a
  BY DEF Factor
<1>4. Holds(m, a, col) => get_element(m, a, col) = m.data[Search(m, a, col)]
  BY DEF get_element
<1>5. ~Holds(m, a, col) => get_element(m, a, col) = 0
  BY NotHeld
<1>6. QED BY <1>2, <1>3, <1>4, <1>5

(* The places of row r in their order.                                     *)
RowPlaces(m, r) == Upwards(m.row_ptr[r], m.row_ptr[r + 1] - 1)

RowLength(m, r) ==
  IF m.row_ptr[r] <= m.row_ptr[r + 1] THEN m.row_ptr[r + 1] - m.row_ptr[r] ELSE 0

LEMMA RowPlacesAre ==
  ASSUME NEW m, Sorted(m), NEW r \in Index
  PROVE  /\ RowLength(m, r) \in Nat /\ m.row_ptr[r] \in Nat
         /\ DOMAIN RowPlaces(m, r) = 1 .. RowLength(m, r)
         /\ \A k \in 1 .. RowLength(m, r) :
              RowPlaces(m, r)[k] = m.row_ptr[r] + k - 1 /\ RowPlaces(m, r)[k] \in Row(m, r)
         /\ Row(m, r) = m.row_ptr[r] .. m.row_ptr[r] + RowLength(m, r) - 1
<1> DEFINE x == m.row_ptr[r]
           y == m.row_ptr[r + 1]
<1>1. x \in Nat /\ y \in Nat
  BY Entries, Sizes
<1>2. RowPlaces(m, r) = [h \in 1 .. (y - 1) - x + 1 |-> x + h - 1]
  BY DEF RowPlaces, Upwards
<1>3. RowLength(m, r) = IF x <= y THEN y - x ELSE 0
  BY DEF RowLength
<1>4. Row(m, r) = x .. y - 1
  BY DEF Row
<1> HIDE DEF x, y
<1>5. 1 .. (y - 1) - x + 1 = 1 .. RowLength(m, r) /\ RowLength(m, r) \in Nat
      /\ x .. y - 1 = x .. x + RowLength(m, r) - 1
  BY <1>1, <1>3
<1>6. \A k \in 1 .. RowLength(m, r) : x + k - 1 \in x .. x + RowLength(m, r) - 1
  BY <1>1, <1>5
<1>7. DOMAIN RowPlaces(m, r) = 1 .. RowLength(m, r)
      /\ \A k \in 1 .. RowLength(m, r) : RowPlaces(m, r)[k] = x + k - 1
  BY <1>2, <1>5
<1>8. QED BY <1>1, <1>4, <1>5, <1>6, <1>7 DEF x

DotStep(m, i, top, acc, k) ==
  LET c == m.col_idx[k]
      stops == {o \in acc.start .. m.row_ptr[i + 1] - 1 : m.col_idx[o] >= c}
  IN  IF c > top \/ stops = {} THEN acc
      ELSE [start |-> Min(stops),
            columns |-> IF m.col_idx[Min(stops)] = c THEN acc.columns \cup {c}
                                                     ELSE acc.columns]

Dot(m, i, r, top) ==
  FoldLeft(LAMBDA acc, k : DotStep(m, i, top, acc, k),
           [start |-> m.row_ptr[i], columns |-> {}], RowPlaces(m, r))

LEMMA DotIsDot ==
  ASSUME NEW m, NEW i, NEW r, NEW top
  PROVE  sparse_dot_product(m, i, r, top) = Dot(m, i, r, top).columns
BY DEF sparse_dot_product, Dot, DotStep, RowPlaces

DotState == [start : Nat, columns : SUBSET Index]

(* Row i was searched up to start, where only columns are before it that   *)
(* are smaller than one of the first n of row r.                           *)
DotInv(m, i, r, top, n, acc) ==
  /\ acc \in DotState /\ m.row_ptr[i] <= acc.start
  /\ \A o \in Row(m, i) : o < acc.start =>
       \E p \in m.row_ptr[r] .. m.row_ptr[r] + n - 1 : m.col_idx[o] < m.col_idx[p]
  /\ \A c \in Index : c \in acc.columns <=>
       /\ c <= top
       /\ \E o \in Row(m, i) : m.col_idx[o] = c
       /\ \E p \in m.row_ptr[r] .. m.row_ptr[r] + n - 1 : m.col_idx[p] = c

(* What the search for column c in row i from start finds.                 *)
LEMMA Stops ==
  ASSUME NEW m, Sorted(m), NEW i \in Index, NEW c \in Index, NEW st \in Nat,
         m.row_ptr[i] <= st
  PROVE  LET S == {o \in st .. m.row_ptr[i + 1] - 1 : m.col_idx[o] >= c}
         IN  /\ S \in SUBSET Row(m, i) /\ S \in SUBSET Nat
             /\ S # {} => Min(S) \in S /\ \A o \in S : Min(S) <= o
             /\ \A o \in Row(m, i) : o >= st /\ o \notin S => m.col_idx[o] < c
<1> DEFINE S == {o \in st .. m.row_ptr[i + 1] - 1 : m.col_idx[o] >= c}
<1>1. m.row_ptr[i] \in Nat /\ m.row_ptr[i + 1] \in Nat /\ c \in Nat
  BY Entries, Sizes
<1>2. Row(m, i) = m.row_ptr[i] .. m.row_ptr[i + 1] - 1
  BY DEF Row
<1>3. S \in SUBSET Row(m, i) /\ S \in SUBSET Nat
  BY <1>1, <1>2
<1>4. \A o \in Row(m, i) : o >= st /\ o \notin S => m.col_idx[o] < c
  <2> TAKE o \in Row(m, i)
  <2>1. m.col_idx[o] \in Nat /\ o \in Nat
    BY ColumnsIncrease
  <2>2. o >= st => o \in st .. m.row_ptr[i + 1] - 1
    BY <1>1, <1>2, <2>1
  <2>3. QED BY <1>1, <2>1, <2>2
<1> HIDE DEF S
<1>5. S # {} => Min(S) \in S /\ \A o \in S : Min(S) <= o
  BY <1>3, HasLeast
<1>6. QED BY <1>3, <1>4, <1>5 DEF S

LEMMA DotStepTyped ==
  ASSUME NEW m, Sorted(m), NEW i \in Index, NEW r \in Index, NEW top,
         NEW acc \in DotState, NEW k \in Row(m, r)
  PROVE  DotStep(m, i, top, acc, k) \in DotState
<1> DEFINE c == m.col_idx[k]
           S == {o \in acc.start .. m.row_ptr[i + 1] - 1 : m.col_idx[o] >= c}
<1>1. c \in Index /\ acc.start \in Nat /\ acc.columns \in SUBSET Index
  BY RowIs, Entries DEF DotState
<1>2. m.row_ptr[i + 1] \in Nat
  BY Entries, Sizes
<1>3. S \in SUBSET Nat
  BY <1>1, <1>2
<1>4. DotStep(m, i, top, acc, k) =
        IF c > top \/ S = {} THEN acc
        ELSE [start |-> Min(S),
              columns |-> IF m.col_idx[Min(S)] = c THEN acc.columns \cup {c} ELSE acc.columns]
  BY DEF DotStep
<1> HIDE DEF S, c
<1>5. S # {} => Min(S) \in Nat
  BY <1>3, HasLeast
<1>6. acc.columns \cup {c} \in SUBSET Index
  BY <1>1
<1>7. QED BY <1>1, <1>4, <1>5, <1>6 DEF DotState

LEMMA DotFold ==
  ASSUME NEW m, Sorted(m), NEW i \in Index, NEW r \in Index, NEW top
  PROVE  \E c \in [0 .. RowLength(m, r) -> DotState] :
           /\ c[0] = [start |-> m.row_ptr[i], columns |-> {}] /\ c[RowLength(m, r)] = Dot(m, i, r, top)
           /\ \A k \in 1 .. RowLength(m, r) : c[k] = DotStep(m, i, top, c[k - 1], RowPlaces(m, r)[k])
<1> DEFINE f == [p \in (DotState) \X (1 .. RowLength(m, r)) |-> DotStep(m, i, top, p[1], RowPlaces(m, r)[p[2]])]
           P(g) == g = [s \in SUBSET (DOMAIN RowPlaces(m, r)) |->
                          IF s = {} THEN [start |-> m.row_ptr[i], columns |-> {}]
                          ELSE DotStep(m, i, top, g[s \ {Max(s)}], RowPlaces(m, r)[Max(s)])]
           h == CHOOSE g : P(g)
<1>1. RowLength(m, r) \in Nat /\ DOMAIN RowPlaces(m, r) = 1 .. RowLength(m, r) /\ [start |-> m.row_ptr[i], columns |-> {}] \in DotState
  BY RowPlacesAre DEF DotState
<1>2. \A a \in DotState, k \in 1 .. RowLength(m, r) : DotStep(m, i, top, a, RowPlaces(m, r)[k]) \in DotState
  BY RowPlacesAre, DotStepTyped
<1>3. Dot(m, i, r, top) = h[DOMAIN RowPlaces(m, r)]
  BY DEF Dot, FoldLeft, MapThenFoldSet
<1>4. f \in [(DotState) \X (1 .. RowLength(m, r)) -> DotState]
  BY <1>2
<1> HIDE DEF h
<1>5. P(h)
  <2>1. PICK g \in [SUBSET (1 .. RowLength(m, r)) -> DotState] : FoldOf(f, [start |-> m.row_ptr[i], columns |-> {}], RowLength(m, r), g)
    BY <1>1, <1>4, FoldExists
  <2>2. ASSUME NEW s \in SUBSET (1 .. RowLength(m, r)), s # {}
        PROVE  g[s] = DotStep(m, i, top, g[s \ {Max(s)}], RowPlaces(m, r)[Max(s)])
    <3>1. Max(s) \in s
      BY <1>1, <2>2, GreatestIn
    <3>2. g[s \ {Max(s)}] \in DotState
      OBVIOUS
    <3>3. g[s] = f[<<g[s \ {Max(s)}], Max(s)>>]
      BY <2>1, <2>2 DEF FoldOf
    <3>4. QED BY <3>1, <3>2, <3>3
  <2>3. g[{}] = [start |-> m.row_ptr[i], columns |-> {}]
    BY <2>1 DEF FoldOf
  <2>4. P(g)
    BY <1>1, <2>2, <2>3
  <2>5. QED BY <2>4 DEF h
<1>6. h[1 .. 0] = [start |-> m.row_ptr[i], columns |-> {}]
  BY <1>1, <1>5, Nothing
<1>7. ASSUME NEW k \in 1 .. RowLength(m, r), h[1 .. k - 1] \in DotState
      PROVE  h[1 .. k] = f[<<h[1 .. k - 1], k>>]
  <2>1. Max(1 .. k) = k /\ (1 .. k) \ {k} = 1 .. k - 1 /\ 1 .. k # {}
        /\ 1 .. k \in SUBSET (1 .. RowLength(m, r))
    BY <1>1, FirstPlaces
  <2>2. h[1 .. k] = DotStep(m, i, top, h[1 .. k - 1], RowPlaces(m, r)[k])
    BY <1>1, <1>5, <2>1
  <2>3. QED BY <1>7, <2>2
<1> HIDE DEF f
<1>8. PICK c \in [0 .. RowLength(m, r) -> DotState] : Chain(c, f, [start |-> m.row_ptr[i], columns |-> {}], RowLength(m, r), h[1 .. RowLength(m, r)])
  <2>1. HasSteps(h, f, DotState, RowLength(m, r))
    BY <1>7 DEF HasSteps
  <2>2. QED BY <1>1, <1>4, <1>6, <2>1, ChainOf
<1>9. \A k \in 1 .. RowLength(m, r) : c[k] = DotStep(m, i, top, c[k - 1], RowPlaces(m, r)[k])
  <2> TAKE k \in 1 .. RowLength(m, r)
  <2>1. c[k - 1] \in DotState
    BY <1>1
  <2>2. QED BY <1>8, <2>1 DEF Chain, f
<1>10. QED BY <1>1, <1>3, <1>8, <1>9 DEF Chain

LEMMA DotStepInv ==
  ASSUME NEW m, Sorted(m), NEW i \in Index, NEW r \in Index, NEW top \in Int,
         NEW n \in Nat, NEW k \in Row(m, r), k = m.row_ptr[r] + n, NEW acc,
         DotInv(m, i, r, top, n, acc)
  PROVE  DotInv(m, i, r, top, n + 1, DotStep(m, i, top, acc, k))
<1> DEFINE c == m.col_idx[k]
           S == {o \in acc.start .. m.row_ptr[i + 1] - 1 : m.col_idx[o] >= c}
           x == m.row_ptr[r]
           new == DotStep(m, i, top, acc, k)
<1>1. /\ acc \in DotState /\ m.row_ptr[i] <= acc.start
      /\ \A o \in Row(m, i) : o < acc.start =>
           \E p \in x .. x + n - 1 : m.col_idx[o] < m.col_idx[p]
      /\ \A d \in Index : d \in acc.columns <=>
           /\ d <= top
           /\ \E o \in Row(m, i) : m.col_idx[o] = d
           /\ \E p \in x .. x + n - 1 : m.col_idx[p] = d
  BY DEF DotInv
<1>2. c \in Index /\ c \in Nat /\ acc.start \in Nat /\ x \in Nat /\ k \in Nat
  <2>1. x \in Nat /\ acc.start \in Nat
    BY <1>1, RowPlacesAre DEF DotState
  <2>2. k \in Nat /\ c \in Nat
    BY ColumnsIncrease
  <2>3. k \in 0 .. Count(m) - 1
    BY RowIs
  <2>4. c \in Index
    BY <2>3, Entries
  <2>5. QED BY <2>1, <2>2, <2>4
<1>3. /\ S \in SUBSET Row(m, i) /\ S \in SUBSET Nat
      /\ S # {} => Min(S) \in S /\ \A o \in S : Min(S) <= o
      /\ \A o \in Row(m, i) : o >= acc.start /\ o \notin S => m.col_idx[o] < c
  BY <1>1, <1>2, Stops
<1>4. \A o \in Row(m, i) : o \in Nat /\ m.col_idx[o] \in Nat
  BY ColumnsIncrease
<1>5. \A o, p \in Row(m, i) : o < p => m.col_idx[o] < m.col_idx[p]
  BY ColumnsIncrease
<1>6. \A p \in x .. x + n - 1 : m.col_idx[p] \in Nat /\ m.col_idx[p] < c
  <2> TAKE p \in x .. x + n - 1
  <2>1. p \in Row(m, r) /\ p < k
    <3>1. Row(m, r) = x .. x + RowLength(m, r) - 1 /\ RowLength(m, r) \in Nat
      BY RowPlacesAre
    <3>2. k \in x .. x + RowLength(m, r) - 1
      BY <3>1
    <3> HIDE DEF x
    <3>3. k = x + n
      BY DEF x
    <3>4. QED BY <1>2, <3>1, <3>2, <3>3
  <2>2. QED BY <2>1, ColumnsIncrease
<1>7. \A p : p \in x .. x + (n + 1) - 1 <=> p \in x .. x + n - 1 \/ p = k
  <2>1. k = x + n
    OBVIOUS
  <2> HIDE DEF x
  <2>2. QED BY <1>2, <2>1
<1>8. new = IF c > top \/ S = {} THEN acc
            ELSE [start |-> Min(S),
                  columns |-> IF m.col_idx[Min(S)] = c THEN acc.columns \cup {c}
                                                       ELSE acc.columns]
  BY DEF DotStep
<1>9. new \in DotState
  BY <1>1, DotStepTyped
<1>10. m.col_idx[k] = c
  OBVIOUS
<1> HIDE DEF S, c, x, new
<1>11. CASE c > top \/ S = {}
  <2>1. new = acc
    BY <1>8, <1>11
  <2>2. \A o \in Row(m, i) : o < new.start =>
           \E p \in x .. x + (n + 1) - 1 : m.col_idx[o] < m.col_idx[p]
    BY <1>1, <1>7, <2>1
  <2>3. ~(c <= top) \/ \A o \in Row(m, i) : m.col_idx[o] # c
    <3>1. CASE c > top
      BY <1>2, <3>1
    <3>2. CASE S = {}
      <4> SUFFICES ASSUME NEW o \in Row(m, i) PROVE m.col_idx[o] < c
        BY <1>2, <1>4
      <4>1. CASE o >= acc.start
        BY <1>3, <3>2, <4>1
      <4>2. CASE o < acc.start
        <5>1. PICK p \in x .. x + n - 1 : m.col_idx[o] < m.col_idx[p]
          BY <1>1, <4>2
        <5>2. QED BY <1>2, <1>4, <1>6, <5>1
      <4>3. QED BY <1>2, <1>4, <4>1, <4>2
    <3>3. QED BY <1>11, <3>1, <3>2
  <2>4. \A d \in Index : d \in new.columns <=>
           /\ d <= top
           /\ \E o \in Row(m, i) : m.col_idx[o] = d
           /\ \E p \in x .. x + (n + 1) - 1 : m.col_idx[p] = d
    BY <1>1, <1>7, <1>10, <2>1, <2>3
  <2>5. QED BY <1>1, <1>9, <2>1, <2>2, <2>4 DEF DotInv, new, x
<1>12. CASE ~(c > top \/ S = {})
  <2>1. PICK s \in S : s = Min(S) /\ \A o \in S : s <= o
    BY <1>3, <1>12
  <2>2. /\ new.start = s
        /\ new.columns = IF m.col_idx[s] = c THEN acc.columns \cup {c} ELSE acc.columns
    BY <1>8, <1>12, <2>1
  <2>3. s \in Row(m, i) /\ s \in Nat /\ m.col_idx[s] >= c /\ m.row_ptr[i] <= s
    <3>0. s \in Nat /\ s \in Row(m, i)
      BY <1>3, <2>1
    <3>1. s >= acc.start /\ m.col_idx[s] >= c
      BY <2>1 DEF S
    <3>2. m.row_ptr[i] \in Nat
      BY Entries, Sizes
    <3>3. QED BY <1>1, <1>2, <3>0, <3>1, <3>2
  <2>4. \A o \in Row(m, i) : o < s => m.col_idx[o] < c
    <3> SUFFICES ASSUME NEW o \in Row(m, i), o < s PROVE m.col_idx[o] < c
      OBVIOUS
    <3>1. o \notin S
      BY <1>4, <2>1, <2>3
    <3>2. CASE o >= acc.start
      BY <1>3, <3>1, <3>2
    <3>3. CASE o < acc.start
      <4>1. PICK p \in x .. x + n - 1 : m.col_idx[o] < m.col_idx[p]
        BY <1>1, <3>3
      <4>2. QED BY <1>2, <1>4, <1>6, <4>1
    <3>4. QED BY <1>2, <1>4, <3>2, <3>3
  <2>5. \A o \in Row(m, i) : o < new.start =>
           \E p \in x .. x + (n + 1) - 1 : m.col_idx[o] < m.col_idx[p]
    BY <1>7, <1>10, <2>2, <2>4
  <2>6. (\E o \in Row(m, i) : m.col_idx[o] = c) <=> m.col_idx[s] = c
    <3> SUFFICES ASSUME NEW o \in Row(m, i), m.col_idx[o] = c PROVE m.col_idx[s] = c
      BY <2>3
    <3>1. ~(o < s)
      BY <1>2, <2>4
    <3>2. CASE o = s
      BY <3>2
    <3>3. CASE s < o
      <4>1. m.col_idx[s] < m.col_idx[o]
        BY <1>5, <2>3, <3>3
      <4>2. QED BY <1>2, <1>4, <2>3, <4>1
    <3>4. QED BY <1>4, <2>3, <3>1, <3>2, <3>3
  <2>7. c <= top
    BY <1>2, <1>12
  <2>8. \A d \in Index : d \in new.columns <=>
           /\ d <= top
           /\ \E o \in Row(m, i) : m.col_idx[o] = d
           /\ \E p \in x .. x + (n + 1) - 1 : m.col_idx[p] = d
    <3> TAKE d \in Index
    <3>1. CASE d = c
      <4>1. \A p \in x .. x + n - 1 : m.col_idx[p] # c
        BY <1>2, <1>6
      <4>2. c \notin acc.columns
        BY <1>1, <1>2, <4>1
      <4>3. c \in new.columns <=> m.col_idx[s] = c
        BY <2>2, <4>2
      <4>4. \E p \in x .. x + (n + 1) - 1 : m.col_idx[p] = c
        BY <1>7, <1>10
      <4>5. QED BY <2>6, <2>7, <3>1, <4>3, <4>4
    <3>2. CASE d # c
      <4>1. d \in new.columns <=> d \in acc.columns
        BY <2>2, <3>2
      <4>2. (\E p \in x .. x + (n + 1) - 1 : m.col_idx[p] = d)
              <=> \E p \in x .. x + n - 1 : m.col_idx[p] = d
        BY <1>7, <1>10, <3>2
      <4>3. QED BY <1>1, <4>1, <4>2
    <3>3. QED BY <3>1, <3>2
  <2>9. QED BY <1>9, <2>2, <2>3, <2>5, <2>8 DEF DotInv, new, x
<1>13. QED BY <1>11, <1>12

(* The product of the rows is taken over the columns that both have.       *)
LEMMA DotIs ==
  ASSUME NEW m, Sorted(m), NEW i \in Index, NEW r \in Index, NEW top \in Int
  PROVE  /\ sparse_dot_product(m, i, r, top) \in SUBSET Index
         /\ \A c \in Index : c \in sparse_dot_product(m, i, r, top) <=>
              c <= top /\ Holds(m, i, c) /\ Holds(m, r, c)
<1> DEFINE n == RowLength(m, r)
<1>1. PICK d \in [0 .. n -> DotState] :
        /\ d[0] = [start |-> m.row_ptr[i], columns |-> {}] /\ d[n] = Dot(m, i, r, top)
        /\ \A k \in 1 .. n : d[k] = DotStep(m, i, top, d[k - 1], RowPlaces(m, r)[k])
  BY DotFold
<1>2. /\ n \in Nat /\ m.row_ptr[r] \in Nat /\ m.row_ptr[i] \in Nat
      /\ \A k \in 1 .. n :
           RowPlaces(m, r)[k] = m.row_ptr[r] + k - 1 /\ RowPlaces(m, r)[k] \in Row(m, r)
      /\ Row(m, r) = m.row_ptr[r] .. m.row_ptr[r] + n - 1
  BY RowPlacesAre
<1> HIDE DEF n
<1> DEFINE T == {k \in 0 .. n : DotInv(m, i, r, top, k, d[k])}
<1>3. 0 \in T
  <2>1. d[0] \in DotState /\ d[0].start = m.row_ptr[i] /\ d[0].columns = {}
    <3>1. 0 \in 0 .. n
      BY <1>2
    <3>2. d[0] \in DotState
      BY <3>1
    <3>3. d[0] = [start |-> m.row_ptr[i], columns |-> {}]
      BY <1>1
    <3>4. QED BY <3>2, <3>3
  <2>2. \A o \in Row(m, i) : ~(o < m.row_ptr[i])
    <3>1. m.row_ptr[i + 1] \in Nat
      BY Entries, Sizes
    <3>2. QED BY <1>2, <3>1 DEF Row
  <2>3. m.row_ptr[r] .. m.row_ptr[r] + 0 - 1 = {}
    BY <1>2
  <2>4. m.row_ptr[i] <= m.row_ptr[i]
    BY <1>2
  <2>5. DotInv(m, i, r, top, 0, d[0])
    BY <2>1, <2>2, <2>3, <2>4 DEF DotInv
  <2>6. QED BY <1>2, <2>5
<1>4. ASSUME NEW k \in 1 .. n, k - 1 \in T
      PROVE  k \in T
  <2>1. PICK p \in 0 .. n - 1 : p = k - 1
    BY <1>2
  <2>2. DotInv(m, i, r, top, p, d[p]) /\ p + 1 = k /\ k \in 0 .. n /\ p \in Nat
    BY <1>2, <1>4, <2>1
  <2>3. PICK e \in Row(m, r) : e = RowPlaces(m, r)[k] /\ e = m.row_ptr[r] + p
    <3>1. m.row_ptr[r] + k - 1 = m.row_ptr[r] + p
      BY <1>2, <2>1
    <3>2. QED BY <1>2, <3>1
  <2>4. DotInv(m, i, r, top, p + 1, DotStep(m, i, top, d[p], e))
    BY <2>2, <2>3, DotStepInv
  <2>5. d[k] = DotStep(m, i, top, d[p], e)
    BY <1>1, <2>1, <2>3
  <2>6. QED BY <2>2, <2>4, <2>5
<1> HIDE DEF T
<1>5. \A k \in 0 .. n : k \in T
  BY <1>2, <1>3, <1>4, UpTo
<1>6. DotInv(m, i, r, top, n, d[n])
  <2>1. n \in 0 .. n
    BY <1>2
  <2>2. QED BY <1>5, <2>1 DEF T
<1>7. sparse_dot_product(m, i, r, top) = d[n].columns
  BY <1>1, DotIsDot
<1>8. d[n].columns \in SUBSET Index
  BY <1>6 DEF DotInv, DotState
<1>9. \A c \in Index : c \in d[n].columns <=>
        /\ c <= top
        /\ \E o \in Row(m, i) : m.col_idx[o] = c
        /\ \E p \in Row(m, r) : m.col_idx[p] = c
  BY <1>2, <1>6 DEF DotInv
<1>10. QED BY <1>7, <1>8, <1>9, HoldsIff

----------------------------------------------------------------------------
(* Lower triangular matrices *)

Lower(m) == \A a, col \in Index : Holds(m, a, col) => col <= a

(* A row of one has at most as many elements as columns up to its number.  *)
LEMMA LowerRow ==
  ASSUME NEW m, Sorted(m), Lower(m), NEW a \in Index
  PROVE  Start(m, a + 1) - Start(m, a) <= a + 1
<1> DEFINE x == Start(m, a)
           y == Start(m, a + 1)
           T == {k \in 0 .. y - x - 1 : k <= m.col_idx[x + k]}
<1>1. a \in Nat /\ a \in 0 .. N /\ a + 1 \in 0 .. N /\ a <= a + 1
  BY Sizes
<1>2. x \in Nat /\ y \in Nat /\ x <= y
  BY <1>1, StartGrows
<1>3. Row(m, a) = x .. y - 1
  BY RowIs
<1>4. \A p \in Row(m, a) : m.col_idx[p] \in Nat /\ m.col_idx[p] <= a
  <2> TAKE p \in Row(m, a)
  <2>1. p \in 0 .. Count(m) - 1
    BY RowIs
  <2>2. m.col_idx[p] \in Index
    BY <2>1, Entries
  <2>3. Holds(m, a, m.col_idx[p])
    BY <2>2, HoldsIff
  <2>4. QED BY <2>2, <2>3, Sizes DEF Lower
<1>5. \A p, h \in Row(m, a) : p < h => m.col_idx[p] < m.col_idx[h]
  BY ColumnsIncrease
<1> HIDE DEF x, y
<1>6. CASE y - x >= 1
  <2> DEFINE n == y - x - 1
  <2>1. n \in Nat /\ \A k \in 0 .. n : x + k \in Row(m, a)
    BY <1>2, <1>3, <1>6
  <2>2. 0 \in T
    <3>1. x + 0 \in Row(m, a) /\ 0 \in 0 .. n
      BY <2>1
    <3>2. m.col_idx[x + 0] \in Nat
      BY <1>4, <3>1
    <3>3. QED BY <3>1, <3>2
  <2>3. ASSUME NEW k \in 1 .. n, k - 1 \in T
        PROVE  k \in T
    <3>1. k \in 0 .. n /\ k - 1 \in 0 .. n /\ x + (k - 1) < x + k
      BY <1>2, <2>1
    <3>2. x + (k - 1) \in Row(m, a) /\ x + k \in Row(m, a)
      BY <2>1, <3>1
    <3>3. m.col_idx[x + (k - 1)] < m.col_idx[x + k] /\ m.col_idx[x + k] \in Nat
          /\ m.col_idx[x + (k - 1)] \in Nat
      BY <1>4, <1>5, <3>1, <3>2
    <3>4. k - 1 <= m.col_idx[x + (k - 1)]
      BY <2>3
    <3>5. k <= m.col_idx[x + k]
      BY <3>3, <3>4
    <3>6. QED BY <3>1, <3>5
  <2> HIDE DEF T
  <2>4. \A k \in 0 .. n : k \in T
    BY <2>1, <2>2, <2>3, UpTo
  <2>5. n \in T
    BY <2>1, <2>4
  <2>6. n <= m.col_idx[x + n]
    BY <2>5 DEF T
  <2>7. n \in 0 .. n
    BY <2>1
  <2>8. m.col_idx[x + n] \in Nat /\ m.col_idx[x + n] <= a
    BY <1>4, <2>1, <2>7
  <2>9. n <= a
    BY <1>1, <2>1, <2>6, <2>8
  <2>10. y - x <= a + 1
    BY <1>1, <1>2, <2>9
  <2>11. QED BY <2>10 DEF x, y
<1>7. CASE ~(y - x >= 1)
  <2>1. y - x <= a + 1
    BY <1>1, <1>2, <1>7
  <2>2. QED BY <2>1 DEF x, y
<1>8. QED BY <1>6, <1>7

(* So it has room for all that it may have.                                *)
LEMMA LowerCount ==
  ASSUME NEW m, Sorted(m), Lower(m)
  PROVE  /\ 2 * Count(m) <= N * (N + 1)
         /\ RoomForFactor => Count(m) < MAX_SIZE_SP_MAT
<1> DEFINE T == {k \in 0 .. N : 2 * Start(m, k) <= k * (k + 1)}
<1>1. N \in Nat /\ MAX_SIZE_SP_MAT \in Nat
  BY Sizes
<1>2. \A k \in 0 .. N : Start(m, k) \in Nat
  <2> TAKE k \in 0 .. N
  <2>1. k <= k
    OBVIOUS
  <2>2. QED BY <2>1, StartGrows
<1>3. 0 \in T
  <2>1. Start(m, 0) = 0
    BY FieldTypes DEF Start, Sorted
  <2>2. QED BY <1>1, <2>1
<1>4. ASSUME NEW k \in 1 .. N, k - 1 \in T
      PROVE  k \in T
  <2>1. PICK a \in Index : a = k - 1 /\ a + 1 = k
    <3>1. k - 1 \in Index /\ (k - 1) + 1 = k
      BY <1>1 DEF Index
    <3>2. QED BY <3>1
  <2>2. Start(m, a + 1) - Start(m, a) <= a + 1
    BY LowerRow
  <2>3. a \in Nat /\ a \in 0 .. N /\ a + 1 \in 0 .. N
    BY Sizes
  <2>4. 2 * Start(m, a) <= a * (a + 1)
    BY <1>4, <2>1
  <2>5. (a + 1) * ((a + 1) + 1) = a * (a + 1) + 2 * (a + 1)
    BY <2>3
  <2> DEFINE x == Start(m, a)
             y == Start(m, a + 1)
             c == a * (a + 1)
  <2>6. x \in Nat /\ y \in Nat /\ c \in Nat
    BY <1>2, <2>3
  <2>7. y - x <= a + 1 /\ 2 * x <= c
    BY <2>2, <2>4
  <2> HIDE DEF x, y, c
  <2>8. 2 * y <= c + 2 * (a + 1)
    BY <2>3, <2>6, <2>7
  <2>9. 2 * Start(m, a + 1) <= (a + 1) * ((a + 1) + 1)
    BY <2>5, <2>8 DEF y, c
  <2>10. QED BY <2>1, <2>3, <2>9
<1> HIDE DEF T
<1>5. \A k \in 0 .. N : k \in T
  BY <1>1, <1>3, <1>4, UpTo
<1>6. 2 * Start(m, N) <= N * (N + 1)
  <2>1. N \in T
    BY <1>1, <1>5
  <2>2. QED BY <2>1 DEF T
<1>7. Start(m, N) = Count(m)
  <2>1. m.max_line \in Nat /\ m.max_line <= N /\ m.row_ptr[m.max_line] = Count(m)
    BY FieldTypes DEF Sorted
  <2>2. N <= m.max_line => N = m.max_line
    BY <1>1, <2>1
  <2>3. QED BY <2>1, <2>2 DEF Start
<1>8. Count(m) \in Nat
  BY Entries
<1> DEFINE z == N * (N + 1)
<1>9. z \in Nat /\ 2 * Count(m) <= z
  BY <1>1, <1>6, <1>7
<1>10. RoomForFactor => z < 2 * MAX_SIZE_SP_MAT
  BY DEF RoomForFactor
<1> HIDE DEF z
<1>11. RoomForFactor => Count(m) < MAX_SIZE_SP_MAT
  BY <1>1, <1>8, <1>9, <1>10
<1>12. QED BY <1>6, <1>7, <1>11

----------------------------------------------------------------------------
(* The equations *)

LowerOp ==
  {op \in [do : {"insert", "add"}, row : Index, col : Index, value : Nat] :
     op.col <= op.row /\ (op.row = op.col => op.value > 0)}

(* No number of the diagonal is negative.                                  *)
Built(H) ==
  /\ Sorted(H) /\ LastIsLast(H)
  /\ ~H.overrun => Lower(H) /\ \A u \in Index : get_element(H, u, u) >= 0
  /\ RoomForFactor => ~H.overrun

(* What an operation never takes away, and the set of rows in which it     *)
(* puts something on the diagonal.                                         *)
Fills(H, r, s) ==
  /\ H.overrun => r.overrun
  /\ ~r.overrun => \A u \in Index :
       get_element(H, u, u) > 0 \/ u \in s => get_element(r, u, u) > 0

LEMMA FillsBoth ==
  ASSUME NEW H, NEW m, NEW r, NEW s, NEW t, Fills(H, m, s), Fills(m, r, t)
  PROVE  Fills(H, r, s \cup t)
BY DEF Fills

LEMMA ReadInt ==
  ASSUME NEW m, Sorted(m), NEW a \in Index, NEW col \in Index
  PROVE  get_element(m, a, col) \in Int
<1>1. CASE Holds(m, a, col)
  <2>1. Search(m, a, col) \in Row(m, a)
    BY <1>1, HoldsIs
  <2>2. Search(m, a, col) \in 0 .. Count(m) - 1
    BY <2>1, RowIs
  <2>3. m.data[Search(m, a, col)] \in Int
    BY <2>2, Entries
  <2>4. QED BY <1>1, <2>3 DEF get_element
<1>2. CASE ~Holds(m, a, col)
  BY <1>2 DEF get_element
<1>3. QED BY <1>1, <1>2

LEMMA DoneFills ==
  ASSUME NEW H, Built(H), NEW op \in LowerOp
  PROVE  /\ Built(Done(H, op))
         /\ Fills(H, Done(H, op), {u \in Index : op.row = u /\ op.col = u})
<1> DEFINE i == op.row
           c == op.col
           v == op.value
           r == Done(H, op)
<1>1. /\ i \in Index /\ c \in Index /\ v \in Nat /\ v \in Int /\ c <= i
      /\ i = c => v > 0
      /\ op.do \in {"insert", "add"}
  BY DEF LowerOp
<1>2. Sorted(H) /\ LastIsLast(H)
  BY DEF Built
<1> HIDE DEF i, c, v
<1>3. /\ Sorted(r) /\ LastIsLast(r) /\ (H.overrun => r.overrun) /\ Grown(H, r, i, c, v)
      /\ ~r.overrun => \A u \in Index : get_element(r, u, u) =
           IF u = i /\ u = c
             THEN (IF op.do = "add" THEN get_element(H, u, u) + v ELSE v)
             ELSE get_element(H, u, u)
  <2>1. CASE op.do = "add"
    <3>1. r = add_to_element(H, i, c, v)
      BY <2>1 DEF Done, i, c, v
    <3> HIDE DEF r
    <3>2. \A x, y \in Index, z \in Int :
            LET t == add_to_element(H, x, y, z)
            IN  /\ Sorted(t) /\ LastIsLast(t) /\ (H.overrun => t.overrun)
                /\ ~t.overrun => \A a, col \in Index : get_element(t, a, col) =
                     IF a = x /\ col = y THEN get_element(H, a, col) + z
                                         ELSE get_element(H, a, col)
                /\ Grown(H, t, x, y, z)
      BY <1>2, AddResult
    <3>3. /\ Sorted(r) /\ LastIsLast(r) /\ (H.overrun => r.overrun) /\ Grown(H, r, i, c, v)
          /\ ~r.overrun => \A a, col \in Index : get_element(r, a, col) =
               IF a = i /\ col = c THEN get_element(H, a, col) + v ELSE get_element(H, a, col)
      BY <1>1, <3>1, <3>2
    <3>4. QED BY <2>1, <3>3
  <2>2. CASE op.do # "add"
    <3>1. r = insert_element(H, i, c, v)
      BY <2>2 DEF Done, i, c, v
    <3> HIDE DEF r
    <3>2. \A x, y \in Index, z \in Int :
            LET t == insert_element(H, x, y, z)
            IN  /\ Sorted(t) /\ LastIsLast(t) /\ (H.overrun => t.overrun)
                /\ ~t.overrun => \A a, col \in Index : get_element(t, a, col) =
                     IF z # 0 /\ a = x /\ col = y THEN z ELSE get_element(H, a, col)
                /\ Grown(H, t, x, y, z)
      BY <1>2, InsertResult
    <3>3. /\ Sorted(r) /\ LastIsLast(r) /\ (H.overrun => r.overrun) /\ Grown(H, r, i, c, v)
          /\ ~r.overrun => \A a, col \in Index : get_element(r, a, col) =
               IF v # 0 /\ a = i /\ col = c THEN v ELSE get_element(H, a, col)
      BY <1>1, <3>1, <3>2
    <3>4. i = c => v # 0
      BY <1>1
    <3>5. QED BY <2>2, <3>3, <3>4
  <2>3. QED BY <2>1, <2>2
<1> HIDE DEF r
<1>4. ASSUME ~r.overrun
      PROVE  /\ Lower(r)
             /\ \A u \in Index : get_element(r, u, u) >= 0
             /\ \A u \in Index : get_element(H, u, u) > 0 \/ (i = u /\ c = u) =>
                  get_element(r, u, u) > 0
  <2>1. Lower(H) /\ \A u \in Index : get_element(H, u, u) >= 0
    BY <1>3, <1>4 DEF Built
  <2>2. \A a, col \in Index :
          Holds(r, a, col) <=> Holds(H, a, col) \/ (v # 0 /\ a = i /\ col = c)
    BY <1>3, <1>4 DEF Grown
  <2>3. Lower(r)
    BY <1>1, <2>1, <2>2 DEF Lower
  <2>4. ASSUME NEW u \in Index
        PROVE  /\ get_element(r, u, u) >= 0
               /\ get_element(H, u, u) > 0 \/ (i = u /\ c = u) => get_element(r, u, u) > 0
    <3>1. get_element(H, u, u) \in Int /\ get_element(H, u, u) >= 0
      BY <1>2, <2>1, ReadInt
    <3>2. get_element(r, u, u) =
            IF u = i /\ u = c
              THEN (IF op.do = "add" THEN get_element(H, u, u) + v ELSE v)
              ELSE get_element(H, u, u)
      BY <1>3, <1>4
    <3>3. QED BY <1>1, <3>1, <3>2
  <2>5. QED BY <2>3, <2>4
<1>5. RoomForFactor => ~r.overrun
  <2>1. SUFFICES ASSUME RoomForFactor PROVE ~r.overrun
    OBVIOUS
  <2>2. ~H.overrun /\ Lower(H)
    BY <2>1 DEF Built
  <2>3. Count(H) < MAX_SIZE_SP_MAT /\ Count(H) \in Nat /\ MAX_SIZE_SP_MAT \in Nat
    BY <1>2, <2>1, <2>2, LowerCount, Entries, Sizes
  <2>4. r.overrun => H.overrun \/ Count(H) = MAX_SIZE_SP_MAT
    BY <1>3 DEF Grown
  <2>5. QED BY <2>2, <2>3, <2>4
<1>6. Built(r)
  BY <1>3, <1>4, <1>5 DEF Built
<1>7. Fills(H, r, {u \in Index : i = u /\ c = u})
  BY <1>3, <1>4 DEF Fills
<1>8. QED BY <1>6, <1>7 DEF r, i, c

BuiltMatrix == {m \in CsrMatrix : Built(m)}

LEMMA AllDoneFold ==
  ASSUME NEW H, Built(H), NEW n \in Nat, NEW ops \in [1 .. n -> LowerOp]
  PROVE  \E c \in [0 .. n -> BuiltMatrix] :
           /\ c[0] = H /\ c[n] = AllDone(H, ops)
           /\ \A k \in 1 .. n : c[k] = Done(c[k - 1], ops[k])
<1> DEFINE f == [p \in (BuiltMatrix) \X (1 .. n) |-> Done(p[1], ops[p[2]])]
           P(g) == g = [s \in SUBSET (DOMAIN ops) |->
                          IF s = {} THEN H
                          ELSE Done(g[s \ {Max(s)}], ops[Max(s)])]
           h == CHOOSE g : P(g)
<1>1. n \in Nat /\ DOMAIN ops = 1 .. n /\ H \in BuiltMatrix
  BY DEF BuiltMatrix, Built, Sorted
<1>2. \A a \in BuiltMatrix, k \in 1 .. n : Done(a, ops[k]) \in BuiltMatrix
  <2> TAKE a \in BuiltMatrix, k \in 1 .. n
  <2>1. Built(a) /\ ops[k] \in LowerOp
    BY DEF BuiltMatrix
  <2>2. Built(Done(a, ops[k]))
    BY <2>1, DoneFills
  <2>3. QED BY <2>2 DEF BuiltMatrix, Built, Sorted
<1>3. AllDone(H, ops) = h[DOMAIN ops]
  BY DEF AllDone, FoldLeft, MapThenFoldSet
<1>4. f \in [(BuiltMatrix) \X (1 .. n) -> BuiltMatrix]
  BY <1>2
<1> HIDE DEF h
<1>5. P(h)
  <2>1. PICK g \in [SUBSET (1 .. n) -> BuiltMatrix] : FoldOf(f, H, n, g)
    BY <1>1, <1>4, FoldExists
  <2>2. ASSUME NEW s \in SUBSET (1 .. n), s # {}
        PROVE  g[s] = Done(g[s \ {Max(s)}], ops[Max(s)])
    <3>1. Max(s) \in s
      BY <1>1, <2>2, GreatestIn
    <3>2. g[s \ {Max(s)}] \in BuiltMatrix
      OBVIOUS
    <3>3. g[s] = f[<<g[s \ {Max(s)}], Max(s)>>]
      BY <2>1, <2>2 DEF FoldOf
    <3>4. QED BY <3>1, <3>2, <3>3
  <2>3. g[{}] = H
    BY <2>1 DEF FoldOf
  <2>4. P(g)
    BY <1>1, <2>2, <2>3
  <2>5. QED BY <2>4 DEF h
<1>6. h[1 .. 0] = H
  BY <1>1, <1>5, Nothing
<1>7. ASSUME NEW k \in 1 .. n, h[1 .. k - 1] \in BuiltMatrix
      PROVE  h[1 .. k] = f[<<h[1 .. k - 1], k>>]
  <2>1. Max(1 .. k) = k /\ (1 .. k) \ {k} = 1 .. k - 1 /\ 1 .. k # {}
        /\ 1 .. k \in SUBSET (1 .. n)
    BY <1>1, FirstPlaces
  <2>2. h[1 .. k] = Done(h[1 .. k - 1], ops[k])
    BY <1>1, <1>5, <2>1
  <2>3. QED BY <1>7, <2>2
<1> HIDE DEF f
<1>8. PICK c \in [0 .. n -> BuiltMatrix] : Chain(c, f, H, n, h[1 .. n])
  <2>1. HasSteps(h, f, BuiltMatrix, n)
    BY <1>7 DEF HasSteps
  <2>2. QED BY <1>1, <1>4, <1>6, <2>1, ChainOf
<1>9. \A k \in 1 .. n : c[k] = Done(c[k - 1], ops[k])
  <2> TAKE k \in 1 .. n
  <2>1. c[k - 1] \in BuiltMatrix
    BY <1>1
  <2>2. QED BY <1>8, <2>1 DEF Chain, f
<1>10. QED BY <1>1, <1>3, <1>8, <1>9 DEF Chain

Diagonal(ops, n) == {u \in Index : \E k \in 1 .. n : ops[k].row = u /\ ops[k].col = u}

LEMMA AllDoneFills ==
  ASSUME NEW H, Built(H), NEW n \in Nat, NEW ops \in [1 .. n -> LowerOp]
  PROVE  Built(AllDone(H, ops)) /\ Fills(H, AllDone(H, ops), Diagonal(ops, n))
<1>1. PICK c \in [0 .. n -> BuiltMatrix] :
        /\ c[0] = H /\ c[n] = AllDone(H, ops)
        /\ \A k \in 1 .. n : c[k] = Done(c[k - 1], ops[k])
  BY AllDoneFold
<1> DEFINE T == {k \in 0 .. n : Fills(H, c[k], Diagonal(ops, k))}
<1>2. 0 \in T
  <2>1. Diagonal(ops, 0) = {}
    BY Nothing DEF Diagonal
  <2>2. Fills(H, H, {})
    BY DEF Fills
  <2>3. 0 \in 0 .. n /\ Fills(H, c[0], Diagonal(ops, 0))
    <3>1. c[0] = H /\ 0 \in 0 .. n
      BY <1>1
    <3>2. Fills(H, c[0], {})
      BY <2>2, <3>1
    <3>3. QED BY <2>1, <3>1, <3>2
  <2>4. QED BY <2>3
<1>3. ASSUME NEW k \in 1 .. n, k - 1 \in T
      PROVE  k \in T
  <2>1. k - 1 \in 0 .. n /\ k \in 0 .. n
    OBVIOUS
  <2>2. Built(c[k - 1]) /\ ops[k] \in LowerOp
    <3>1. c[k - 1] \in BuiltMatrix
      BY <2>1
    <3>2. QED BY <3>1 DEF BuiltMatrix
  <2>3. Fills(c[k - 1], c[k], {u \in Index : ops[k].row = u /\ ops[k].col = u})
    BY <1>1, <2>2, DoneFills
  <2>4. Fills(H, c[k - 1], Diagonal(ops, k - 1))
    BY <1>3
  <2>5. \A x : x \in 1 .. k <=> x \in 1 .. k - 1 \/ x = k
    OBVIOUS
  <2>6. Diagonal(ops, k) =
          Diagonal(ops, k - 1) \cup {u \in Index : ops[k].row = u /\ ops[k].col = u}
    BY <2>5 DEF Diagonal
  <2>7. Fills(H, c[k], Diagonal(ops, k))
    BY <2>3, <2>4, <2>6, FillsBoth
  <2>8. QED BY <2>1, <2>7
<1> HIDE DEF T
<1>4. \A k \in 0 .. n : k \in T
  BY <1>2, <1>3, UpTo
<1>5. Fills(H, c[n], Diagonal(ops, n))
  <2>1. n \in T
    BY <1>4
  <2>2. QED BY <2>1 DEF T
<1>6. Built(c[n])
  <2>1. c[n] \in BuiltMatrix
    OBVIOUS
  <2>2. QED BY <2>1 DEF BuiltMatrix
<1>7. QED BY <1>1, <1>5, <1>6

LEMMA WeightIs == \A e \in Nat : Weight(e) \in Nat /\ Weight(e) > 0
<1> TAKE e \in Nat
<1>1. 2 * e \in Nat
  OBVIOUS
<1>2. QED BY <1>1, TwoToIs DEF Weight

LEMMA PosesAre ==
  /\ NrOfPoses \in Nat /\ NrOfPoses > 0 /\ N = 3 * NrOfPoses
  /\ \A p \in Nat, d \in 0 .. 2 : p < NrOfPoses => 3 * p + d \in Index
<1>1. N \in Nat /\ N > 0 /\ N % 3 = 0
  BY Sizes, GraphAssumption
<1>2. NrOfPoses \in Nat /\ NrOfPoses > 0 /\ N = 3 * NrOfPoses
  BY <1>1 DEF NrOfPoses
<1>3. QED BY <1>2 DEF Index

(* An element at or below the diagonal, and one that is below it.          *)
LEMMA OpIs ==
  ASSUME NEW a \in Index, NEW col \in Index, NEW v \in Nat, col < a \/ (col = a /\ v > 0)
  PROVE  Ins(a, col, v) \in LowerOp /\ Add(a, col, v) \in LowerOp
<1>1. a \in Nat /\ col \in Nat
  BY Sizes
<1>2. QED BY <1>1 DEF Ins, Add, LowerOp

LEMMA YawIs == \A e \in Nat : \A s, d : Yaw(e, s, d) \in Nat
<1>1. \A e \in Nat : Weight(e) \in Nat
  BY WeightIs
<1>2. QED BY <1>1 DEF Yaw

Three(p) == {3 * p, 3 * p + 1, 3 * p + 2}

PriorList(w) ==
  << Ins(0, 0, w), Ins(1, 1, w), Ins(2, 0, 0), Ins(2, 1, 0), Ins(2, 2, w) >>

LEMMA PriorOpsAre ==
  /\ 0 \in Index /\ 1 \in Index /\ 2 \in Index
  /\ PriorOps = PriorList(Weight(0)) /\ PriorOps \in [1 .. 5 -> LowerOp]
<1>1. 0 \in Index /\ 1 \in Index /\ 2 \in Index
  <2>1. \A d \in 0 .. 2 : 3 * 0 + d \in Index
    BY PosesAre
  <2>2. 3 * 0 + 0 \in Index /\ 3 * 0 + 1 \in Index /\ 3 * 0 + 2 \in Index
    BY <2>1
  <2>3. QED BY <2>2
<1>2. PICK w \in Nat : w = Weight(0) /\ w > 0
  BY WeightIs
<1>3. PriorOps = PriorList(w)
  BY <1>2 DEF PriorOps, PriorList
<1>4. /\ Ins(0, 0, w) \in LowerOp /\ Ins(1, 1, w) \in LowerOp /\ Ins(2, 0, 0) \in LowerOp
      /\ Ins(2, 1, 0) \in LowerOp /\ Ins(2, 2, w) \in LowerOp
  BY <1>1, <1>2, OpIs
<1>5. PriorOps \in [1 .. 5 -> LowerOp]
  BY <1>3, <1>4 DEF PriorList
<1>6. QED BY <1>1, <1>2, <1>3, <1>5

LEMMA PriorFills ==
  ASSUME NEW H, Built(H)
  PROVE  Built(AllDone(H, PriorOps)) /\ Fills(H, AllDone(H, PriorOps), Three(0))
<1>1. \A u \in Three(0) : u \in Diagonal(PriorOps, 5)
  <2>1. PICK w : w = Weight(0)
    OBVIOUS
  <2>2. /\ PriorOps[1] = Ins(0, 0, w) /\ PriorOps[2] = Ins(1, 1, w)
        /\ PriorOps[5] = Ins(2, 2, w)
    BY <2>1, PriorOpsAre DEF PriorList
  <2>3. 1 \in 1 .. 5 /\ 2 \in 1 .. 5 /\ 5 \in 1 .. 5
    OBVIOUS
  <2>4. Three(0) = {0, 1, 2}
    BY DEF Three
  <2>5. QED BY <2>2, <2>3, <2>4, PriorOpsAre DEF Diagonal, Ins
<1>2. Built(AllDone(H, PriorOps)) /\ Fills(H, AllDone(H, PriorOps), Diagonal(PriorOps, 5))
  <2>1. 5 \in Nat
    OBVIOUS
  <2>2. QED BY <2>1, AllDoneFills, PriorOpsAre
<1>3. QED BY <1>1, <1>2 DEF Fills

(* The thirteen operations of odometry edge i, whose poses have their      *)
(* coordinates from f and from t on.                                       *)
OdometryList(f, t, w, x, y) ==
  << Add(f, f, w), Add(f + 1, f + 1, w), Ins(f + 2, f, x), Ins(f + 2, f + 1, y),
     Add(f + 2, f + 2, w), Ins(t, f, w), Ins(t, t, w), Ins(t + 1, f + 1, w),
     Ins(t + 1, t + 1, w), Ins(t, f + 2, x), Ins(t + 1, f + 2, y),
     Ins(t + 2, f + 2, w), Ins(t + 2, t + 2, w) >>

OdometryAt(i, s, f, t, w, x, y) ==
  /\ f = 3 * (i - 1) /\ t = 3 * i /\ t = f + 3 /\ w = Weight(i) /\ w > 0
  /\ x = Yaw(i, s, 0) /\ y = Yaw(i, s, 1)
  /\ t \in Index /\ t + 1 \in Index /\ t + 2 \in Index
  /\ OdometryOps(i, s) = OdometryList(f, t, w, x, y)
  /\ OdometryOps(i, s) \in [1 .. 13 -> LowerOp]

LEMMA OdometryOpsAre ==
  ASSUME NEW i \in 1 .. NrOfPoses - 1, NEW s
  PROVE  \E f \in Nat, t \in Nat, w \in Nat, x \in Nat, y \in Nat :
           OdometryAt(i, s, f, t, w, x, y)
<1>1. PICK f \in Nat, t \in Nat, w \in Nat, x \in Nat, y \in Nat :
        /\ f = 3 * (i - 1) /\ t = 3 * i /\ w = Weight(i) /\ w > 0
        /\ x = Yaw(i, s, 0) /\ y = Yaw(i, s, 1)
  <2>1. i \in Nat /\ 3 * (i - 1) \in Nat /\ 3 * i \in Nat
    BY PosesAre
  <2>2. QED BY <2>1, WeightIs, YawIs
<1>2. t = f + 3
  BY <1>1
<1>3. /\ f \in Index /\ f + 1 \in Index /\ f + 2 \in Index
      /\ t \in Index /\ t + 1 \in Index /\ t + 2 \in Index
  <2>1. i \in Nat /\ i < NrOfPoses /\ i - 1 \in Nat /\ i - 1 < NrOfPoses
    BY PosesAre
  <2>2. \A d \in 0 .. 2 : 3 * i + d \in Index /\ 3 * (i - 1) + d \in Index
    BY <2>1, PosesAre
  <2>3. /\ f + 0 \in Index /\ f + 1 \in Index /\ f + 2 \in Index
        /\ t + 0 \in Index /\ t + 1 \in Index /\ t + 2 \in Index
    BY <1>1, <2>2
  <2>4. f + 0 = f /\ t + 0 = t
    OBVIOUS
  <2>5. QED BY <2>3, <2>4
<1> DEFINE ops == OdometryOps(i, s)
<1>4. ops = OdometryList(f, t, w, x, y)
  BY <1>1 DEF OdometryOps, OdometryList
<1> HIDE DEF ops
<1>5. /\ Add(f, f, w) \in LowerOp /\ Add(f + 1, f + 1, w) \in LowerOp
      /\ Ins(f + 2, f, x) \in LowerOp /\ Ins(f + 2, f + 1, y) \in LowerOp
      /\ Add(f + 2, f + 2, w) \in LowerOp
  BY <1>1, <1>3, OpIs
<1>6. /\ Ins(t, f, w) \in LowerOp /\ Ins(t, t, w) \in LowerOp
      /\ Ins(t + 1, f + 1, w) \in LowerOp /\ Ins(t + 1, t + 1, w) \in LowerOp
      /\ Ins(t, f + 2, x) \in LowerOp /\ Ins(t + 1, f + 2, y) \in LowerOp
      /\ Ins(t + 2, f + 2, w) \in LowerOp /\ Ins(t + 2, t + 2, w) \in LowerOp
  BY <1>1, <1>2, <1>3, OpIs
<1>7. ops \in [1 .. 13 -> LowerOp]
  BY <1>4, <1>5, <1>6 DEF OdometryList
<1>8. QED BY <1>1, <1>2, <1>3, <1>4, <1>7 DEF ops, OdometryAt

LEMMA OdometryFills ==
  ASSUME NEW H, Built(H), NEW i \in 1 .. NrOfPoses - 1, NEW s
  PROVE  /\ Built(AllDone(H, OdometryOps(i, s)))
         /\ Fills(H, AllDone(H, OdometryOps(i, s)), Three(i))
<1> DEFINE ops == OdometryOps(i, s)
<1>1. PICK f \in Nat, t \in Nat, w \in Nat, x \in Nat, y \in Nat :
        OdometryAt(i, s, f, t, w, x, y)
  BY OdometryOpsAre
<1>2. \A u \in Three(i) : u \in Diagonal(ops, 13)
  <2>1. /\ ops[7] = Ins(t, t, w) /\ ops[9] = Ins(t + 1, t + 1, w)
        /\ ops[13] = Ins(t + 2, t + 2, w)
    BY <1>1 DEF OdometryList, OdometryAt
  <2>2. 7 \in 1 .. 13 /\ 9 \in 1 .. 13 /\ 13 \in 1 .. 13
    OBVIOUS
  <2>3. Three(i) = {t, t + 1, t + 2}
    BY <1>1 DEF Three, OdometryAt
  <2>4. QED BY <1>1, <2>1, <2>2, <2>3 DEF Diagonal, Ins, OdometryAt
<1>3. Built(AllDone(H, ops)) /\ Fills(H, AllDone(H, ops), Diagonal(ops, 13))
  <2>1. 13 \in Nat
    OBVIOUS
  <2>2. QED BY <1>1, <2>1, AllDoneFills DEF OdometryAt
<1>4. Built(AllDone(H, ops)) /\ Fills(H, AllDone(H, ops), Three(i))
  BY <1>2, <1>3 DEF Fills
<1>5. QED BY <1>4 DEF ops

(* The thirteen operations of a constraint.                                *)
ConstraintList(f, t, w, x, y) ==
  << Add(f, f, w), Add(t, t, w), Ins(f, t, w),
     Add(f + 1, f + 1, w), Add(t + 1, t + 1, w), Ins(f + 1, t + 1, w),
     Add(f + 2, f + 2, w), Add(t + 2, t + 2, w), Ins(f + 2, t + 2, w),
     Add(f + 2, f, x), Add(f + 2, f + 1, y), Ins(f + 2, t, x), Ins(f + 2, t + 1, y) >>

ConstraintAt(e, c, s, f, t, w, x, y) ==
  /\ f = 3 * c.from /\ t = 3 * c.to /\ t + 3 <= f /\ w = Weight(e) /\ w > 0
  /\ x = Yaw(e, s, 0) /\ y = Yaw(e, s, 1)
  /\ ConstraintOps(e, c, s) = ConstraintList(f, t, w, x, y)
  /\ ConstraintOps(e, c, s) \in [1 .. 13 -> LowerOp]

LEMMA ConstraintOpsAre ==
  ASSUME NEW e \in Nat, NEW c \in Constraint, NEW s
  PROVE  \E f \in Nat, t \in Nat, w \in Nat, x \in Nat, y \in Nat :
           ConstraintAt(e, c, s, f, t, w, x, y)
<1>1. c.from \in Nat /\ c.to \in Nat /\ c.from < NrOfPoses /\ c.to < c.from
      /\ c.to < NrOfPoses
  BY PosesAre DEF Constraint, Pose
<1>2. PICK f \in Nat, t \in Nat, w \in Nat, x \in Nat, y \in Nat :
        /\ f = 3 * c.from /\ t = 3 * c.to /\ w = Weight(e) /\ w > 0
        /\ x = Yaw(e, s, 0) /\ y = Yaw(e, s, 1)
  <2>1. 3 * c.from \in Nat /\ 3 * c.to \in Nat
    BY <1>1
  <2>2. QED BY <2>1, WeightIs, YawIs
<1>3. t + 3 <= f
  BY <1>1, <1>2
<1>4. \A d \in 0 .. 2 : f + d \in Index /\ t + d \in Index
  BY <1>1, <1>2, PosesAre
<1>5. /\ f \in Index /\ f + 1 \in Index /\ f + 2 \in Index
      /\ t \in Index /\ t + 1 \in Index /\ t + 2 \in Index
  <2>1. f + 0 \in Index /\ f + 1 \in Index /\ t + 0 \in Index /\ t + 1 \in Index
        /\ f + 2 \in Index /\ t + 2 \in Index
    BY <1>4
  <2>2. f + 0 = f /\ t + 0 = t
    OBVIOUS
  <2>3. QED BY <2>1, <2>2
<1>6. ConstraintOps(e, c, s) = ConstraintList(f, t, w, x, y)
  BY <1>2 DEF ConstraintOps, ConstraintList
<1>7. /\ Add(f, f, w) \in LowerOp /\ Add(f + 1, f + 1, w) \in LowerOp
      /\ Add(f + 2, f + 2, w) \in LowerOp /\ Add(t, t, w) \in LowerOp
      /\ Add(t + 1, t + 1, w) \in LowerOp /\ Add(t + 2, t + 2, w) \in LowerOp
  BY <1>2, <1>5, OpIs
<1>8. /\ Ins(f, t, w) \in LowerOp /\ Ins(f + 1, t + 1, w) \in LowerOp
      /\ Ins(f + 2, t + 2, w) \in LowerOp /\ Add(f + 2, f, x) \in LowerOp
      /\ Add(f + 2, f + 1, y) \in LowerOp /\ Ins(f + 2, t, x) \in LowerOp
      /\ Ins(f + 2, t + 1, y) \in LowerOp
  <2>1. t < f /\ t + 1 < f + 1 /\ t + 2 < f + 2 /\ f < f + 2 /\ f + 1 < f + 2
        /\ t < f + 2 /\ t + 1 < f + 2
    BY <1>3
  <2>2. QED BY <1>2, <1>5, <2>1, OpIs
<1>9. ConstraintOps(e, c, s) \in [1 .. 13 -> LowerOp]
  BY <1>6, <1>7, <1>8 DEF ConstraintList
<1>10. QED BY <1>2, <1>3, <1>6, <1>9 DEF ConstraintAt

LEMMA ConstraintFills ==
  ASSUME NEW H, Built(H), NEW e \in Nat, NEW c \in Constraint, NEW s
  PROVE  /\ Built(AllDone(H, ConstraintOps(e, c, s)))
         /\ Fills(H, AllDone(H, ConstraintOps(e, c, s)), {})
<1>1. ConstraintOps(e, c, s) \in [1 .. 13 -> LowerOp] /\ 13 \in Nat
  BY ConstraintOpsAre DEF ConstraintAt
<1>2. /\ Built(AllDone(H, ConstraintOps(e, c, s)))
      /\ Fills(H, AllDone(H, ConstraintOps(e, c, s)), Diagonal(ConstraintOps(e, c, s), 13))
  BY <1>1, AllDoneFills
<1>3. QED BY <1>2 DEF Fills

----------------------------------------------------------------------------
(* All edges, one after the other *)

OdometryStep(m, i, of) == AllDone(m, OdometryOps(i, of[i]))

OdometryChain(H, of) ==
  FoldLeft(LAMBDA m, i : OdometryStep(m, i, of), H, Upwards(1, NrOfPoses - 1))

LoopStep(m, k, edges, of) ==
  AllDone(m, ConstraintOps(NrOfPoses - 1 + k, edges[k], of[NrOfPoses - 1 + k]))

LoopChain(H, edges, of) ==
  FoldLeft(LAMBDA m, k : LoopStep(m, k, edges, of), H, Upwards(1, Len(edges)))

LEMMA BuildIs ==
  \A H, edges, of :
    build_H_and_b(H, edges, of) = LoopChain(OdometryChain(AllDone(H, PriorOps), of), edges, of)
BY DEF build_H_and_b, LoopChain, LoopStep, OdometryChain, OdometryStep

LEMMA UpwardsFromOne ==
  ASSUME NEW n \in Nat
  PROVE  DOMAIN Upwards(1, n) = 1 .. n /\ \A k \in 1 .. n : Upwards(1, n)[k] = k
<1>1. Upwards(1, n) = [h \in 1 .. n - 1 + 1 |-> 1 + h - 1]
  BY DEF Upwards
<1>2. n - 1 + 1 = n /\ \A h \in 1 .. n : 1 + h - 1 = h
  OBVIOUS
<1>3. QED BY <1>1, <1>2

LEMMA PosesLess == NrOfPoses - 1 \in Nat
BY PosesAre

LEMMA OdometryFold ==
  ASSUME NEW H, Built(H), NEW of
  PROVE  \E c \in [0 .. NrOfPoses - 1 -> BuiltMatrix] :
           /\ c[0] = H /\ c[NrOfPoses - 1] = OdometryChain(H, of)
           /\ \A k \in 1 .. NrOfPoses - 1 : c[k] = OdometryStep(c[k - 1], Upwards(1, NrOfPoses - 1)[k], of)
<1> DEFINE f == [p \in (BuiltMatrix) \X (1 .. NrOfPoses - 1) |-> OdometryStep(p[1], Upwards(1, NrOfPoses - 1)[p[2]], of)]
           P(g) == g = [s \in SUBSET (DOMAIN Upwards(1, NrOfPoses - 1)) |->
                          IF s = {} THEN H
                          ELSE OdometryStep(g[s \ {Max(s)}], Upwards(1, NrOfPoses - 1)[Max(s)], of)]
           h == CHOOSE g : P(g)
<1>1. NrOfPoses - 1 \in Nat /\ DOMAIN Upwards(1, NrOfPoses - 1) = 1 .. NrOfPoses - 1 /\ H \in BuiltMatrix
  BY PosesLess, UpwardsFromOne DEF BuiltMatrix, Built, Sorted
<1>2. \A a \in BuiltMatrix, k \in 1 .. NrOfPoses - 1 : OdometryStep(a, Upwards(1, NrOfPoses - 1)[k], of) \in BuiltMatrix
  <2> TAKE a \in BuiltMatrix, k \in 1 .. NrOfPoses - 1
  <2>1. Built(a) /\ Upwards(1, NrOfPoses - 1)[k] = k
    BY PosesLess, UpwardsFromOne DEF BuiltMatrix
  <2>2. Built(OdometryStep(a, k, of))
    BY <2>1, OdometryFills DEF OdometryStep
  <2>3. QED BY <2>1, <2>2 DEF BuiltMatrix, Built, Sorted
<1>3. OdometryChain(H, of) = h[DOMAIN Upwards(1, NrOfPoses - 1)]
  BY DEF OdometryChain, FoldLeft, MapThenFoldSet
<1>4. f \in [(BuiltMatrix) \X (1 .. NrOfPoses - 1) -> BuiltMatrix]
  BY <1>2
<1> HIDE DEF h
<1>5. P(h)
  <2>1. PICK g \in [SUBSET (1 .. NrOfPoses - 1) -> BuiltMatrix] : FoldOf(f, H, NrOfPoses - 1, g)
    BY <1>1, <1>4, FoldExists
  <2>2. ASSUME NEW s \in SUBSET (1 .. NrOfPoses - 1), s # {}
        PROVE  g[s] = OdometryStep(g[s \ {Max(s)}], Upwards(1, NrOfPoses - 1)[Max(s)], of)
    <3>1. Max(s) \in s
      BY <1>1, <2>2, GreatestIn
    <3>2. g[s \ {Max(s)}] \in BuiltMatrix
      OBVIOUS
    <3>3. g[s] = f[<<g[s \ {Max(s)}], Max(s)>>]
      BY <2>1, <2>2 DEF FoldOf
    <3>4. QED BY <3>1, <3>2, <3>3
  <2>3. g[{}] = H
    BY <2>1 DEF FoldOf
  <2>4. P(g)
    BY <1>1, <2>2, <2>3
  <2>5. QED BY <2>4 DEF h
<1>6. h[1 .. 0] = H
  BY <1>1, <1>5, Nothing
<1>7. ASSUME NEW k \in 1 .. NrOfPoses - 1, h[1 .. k - 1] \in BuiltMatrix
      PROVE  h[1 .. k] = f[<<h[1 .. k - 1], k>>]
  <2>1. Max(1 .. k) = k /\ (1 .. k) \ {k} = 1 .. k - 1 /\ 1 .. k # {}
        /\ 1 .. k \in SUBSET (1 .. NrOfPoses - 1)
    BY <1>1, FirstPlaces
  <2>2. h[1 .. k] = OdometryStep(h[1 .. k - 1], Upwards(1, NrOfPoses - 1)[k], of)
    BY <1>1, <1>5, <2>1
  <2>3. QED BY <1>7, <2>2
<1> HIDE DEF f
<1>8. PICK c \in [0 .. NrOfPoses - 1 -> BuiltMatrix] : Chain(c, f, H, NrOfPoses - 1, h[1 .. NrOfPoses - 1])
  <2>1. HasSteps(h, f, BuiltMatrix, NrOfPoses - 1)
    BY <1>7 DEF HasSteps
  <2>2. QED BY <1>1, <1>4, <1>6, <2>1, ChainOf
<1>9. \A k \in 1 .. NrOfPoses - 1 : c[k] = OdometryStep(c[k - 1], Upwards(1, NrOfPoses - 1)[k], of)
  <2> TAKE k \in 1 .. NrOfPoses - 1
  <2>1. c[k - 1] \in BuiltMatrix
    BY <1>1
  <2>2. QED BY <1>8, <2>1 DEF Chain, f
<1>10. QED BY <1>1, <1>3, <1>8, <1>9 DEF Chain

LEMMA OdometryChainFills ==
  ASSUME NEW H, Built(H), NEW of
  PROVE  /\ Built(OdometryChain(H, of))
         /\ Fills(H, OdometryChain(H, of), UNION {Three(p) : p \in 1 .. NrOfPoses - 1})
<1> DEFINE n == NrOfPoses - 1
           All(k) == UNION {Three(p) : p \in 1 .. k}
<1>1. PICK c \in [0 .. n -> BuiltMatrix] :
        /\ c[0] = H /\ c[n] = OdometryChain(H, of)
        /\ \A k \in 1 .. n : c[k] = OdometryStep(c[k - 1], Upwards(1, NrOfPoses - 1)[k], of)
  BY OdometryFold
<1>2. n \in Nat /\ \A k \in 1 .. n : Upwards(1, NrOfPoses - 1)[k] = k
  BY PosesLess, UpwardsFromOne
<1>3. \A k \in 1 .. n : k \in 1 .. NrOfPoses - 1
  OBVIOUS
<1> HIDE DEF n
<1> DEFINE T == {k \in 0 .. n : Fills(H, c[k], All(k))}
<1>4. 0 \in T
  <2>1. All(0) = {}
    BY Nothing
  <2>2. Fills(H, H, {})
    BY DEF Fills
  <2>3. 0 \in 0 .. n /\ Fills(H, c[0], All(0))
    <3>1. c[0] = H /\ 0 \in 0 .. n
      BY <1>1, <1>2
    <3>2. Fills(H, c[0], {})
      BY <2>2, <3>1
    <3> HIDE DEF All
    <3>3. QED BY <2>1, <3>1, <3>2
  <2>4. QED BY <2>3
<1>5. ASSUME NEW k \in 1 .. n, k - 1 \in T
      PROVE  k \in T
  <2>1. k - 1 \in 0 .. n /\ k \in 0 .. n
    BY <1>2
  <2>2. Built(c[k - 1])
    <3>1. c[k - 1] \in BuiltMatrix
      BY <2>1
    <3>2. QED BY <3>1 DEF BuiltMatrix
  <2>3. c[k] = AllDone(c[k - 1], OdometryOps(k, of[k]))
    BY <1>1, <1>2 DEF OdometryStep
  <2>4. Fills(c[k - 1], c[k], Three(k))
    BY <1>3, <2>2, <2>3, OdometryFills
  <2>5. Fills(H, c[k - 1], All(k - 1))
    BY <1>5
  <2>6. \A x : x \in 1 .. k <=> x \in 1 .. k - 1 \/ x = k
    BY <1>2
  <2>7. All(k) = All(k - 1) \cup Three(k)
    BY <2>6
  <2> HIDE DEF All
  <2>8. Fills(H, c[k], All(k))
    BY <2>4, <2>5, <2>7, FillsBoth
  <2>9. QED BY <2>1, <2>8
<1> HIDE DEF T
<1>6. \A k \in 0 .. n : k \in T
  BY <1>2, <1>4, <1>5, UpTo
<1>7. n \in 0 .. n
  BY <1>2
<1>8. Fills(H, c[n], All(n))
  BY <1>6, <1>7 DEF T
<1>9. Built(c[n])
  <2>1. c[n] \in BuiltMatrix
    BY <1>7
  <2>2. QED BY <2>1 DEF BuiltMatrix
<1>10. QED BY <1>1, <1>8, <1>9 DEF n

LoopSteps(c, H, edges, of) ==
  /\ c \in [0 .. Len(edges) -> BuiltMatrix]
  /\ c[0] = H /\ c[Len(edges)] = LoopChain(H, edges, of)
  /\ \A k \in 1 .. Len(edges) :
       c[k] = LoopStep(c[k - 1], Upwards(1, Len(edges))[k], edges, of)

LEMMA LoopFold ==
  ASSUME NEW H, Built(H), NEW edges \in Seq(Constraint), NEW of
  PROVE  \E c : LoopSteps(c, H, edges, of)
<1> DEFINE f == [p \in (BuiltMatrix) \X (1 .. Len(edges)) |-> LoopStep(p[1], Upwards(1, Len(edges))[p[2]], edges, of)]
           P(g) == g = [s \in SUBSET (DOMAIN Upwards(1, Len(edges))) |->
                          IF s = {} THEN H
                          ELSE LoopStep(g[s \ {Max(s)}], Upwards(1, Len(edges))[Max(s)], edges, of)]
           h == CHOOSE g : P(g)
<1>1. Len(edges) \in Nat /\ DOMAIN Upwards(1, Len(edges)) = 1 .. Len(edges) /\ H \in BuiltMatrix
  BY UpwardsFromOne DEF BuiltMatrix, Built, Sorted
<1>2. \A a \in BuiltMatrix, k \in 1 .. Len(edges) : LoopStep(a, Upwards(1, Len(edges))[k], edges, of) \in BuiltMatrix
  <2> TAKE a \in BuiltMatrix, k \in 1 .. Len(edges)
  <2>1. Built(a) /\ Upwards(1, Len(edges))[k] = k /\ edges[k] \in Constraint
    BY UpwardsFromOne DEF BuiltMatrix
  <2>2. NrOfPoses - 1 + k \in Nat
    BY PosesLess
  <2>3. Built(LoopStep(a, k, edges, of))
    BY <2>1, <2>2, ConstraintFills DEF LoopStep
  <2>4. QED BY <2>1, <2>3 DEF BuiltMatrix, Built, Sorted
<1>3. LoopChain(H, edges, of) = h[DOMAIN Upwards(1, Len(edges))]
  BY DEF LoopChain, FoldLeft, MapThenFoldSet
<1>4. f \in [(BuiltMatrix) \X (1 .. Len(edges)) -> BuiltMatrix]
  BY <1>2
<1> HIDE DEF h
<1>5. P(h)
  <2>1. PICK g \in [SUBSET (1 .. Len(edges)) -> BuiltMatrix] : FoldOf(f, H, Len(edges), g)
    BY <1>1, <1>4, FoldExists
  <2>2. ASSUME NEW s \in SUBSET (1 .. Len(edges)), s # {}
        PROVE  g[s] = LoopStep(g[s \ {Max(s)}], Upwards(1, Len(edges))[Max(s)], edges, of)
    <3>1. Max(s) \in s
      BY <1>1, <2>2, GreatestIn
    <3>2. g[s \ {Max(s)}] \in BuiltMatrix
      OBVIOUS
    <3>3. g[s] = f[<<g[s \ {Max(s)}], Max(s)>>]
      BY <2>1, <2>2 DEF FoldOf
    <3>4. QED BY <3>1, <3>2, <3>3
  <2>3. g[{}] = H
    BY <2>1 DEF FoldOf
  <2>4. P(g)
    BY <1>1, <2>2, <2>3
  <2>5. QED BY <2>4 DEF h
<1>6. h[1 .. 0] = H
  BY <1>1, <1>5, Nothing
<1>7. ASSUME NEW k \in 1 .. Len(edges), h[1 .. k - 1] \in BuiltMatrix
      PROVE  h[1 .. k] = f[<<h[1 .. k - 1], k>>]
  <2>1. Max(1 .. k) = k /\ (1 .. k) \ {k} = 1 .. k - 1 /\ 1 .. k # {}
        /\ 1 .. k \in SUBSET (1 .. Len(edges))
    BY <1>1, FirstPlaces
  <2>2. h[1 .. k] = LoopStep(h[1 .. k - 1], Upwards(1, Len(edges))[k], edges, of)
    BY <1>1, <1>5, <2>1
  <2>3. QED BY <1>7, <2>2
<1> HIDE DEF f
<1>8. PICK c \in [0 .. Len(edges) -> BuiltMatrix] : Chain(c, f, H, Len(edges), h[1 .. Len(edges)])
  <2>1. HasSteps(h, f, BuiltMatrix, Len(edges))
    BY <1>7 DEF HasSteps
  <2>2. QED BY <1>1, <1>4, <1>6, <2>1, ChainOf
<1>9. \A k \in 1 .. Len(edges) : c[k] = LoopStep(c[k - 1], Upwards(1, Len(edges))[k], edges, of)
  <2> TAKE k \in 1 .. Len(edges)
  <2>1. c[k - 1] \in BuiltMatrix
    BY <1>1
  <2>2. QED BY <1>8, <2>1 DEF Chain, f
<1>10. LoopSteps(c, H, edges, of)
  BY <1>1, <1>3, <1>8, <1>9 DEF Chain, LoopSteps
<1>11. QED BY <1>10

LEMMA LoopChainFills ==
  ASSUME NEW H, Built(H), NEW edges \in Seq(Constraint), NEW of
  PROVE  Built(LoopChain(H, edges, of)) /\ Fills(H, LoopChain(H, edges, of), {})
<1> DEFINE n == Len(edges)
<1>0. PICK c : LoopSteps(c, H, edges, of)
  BY LoopFold
<1>1. /\ c \in [0 .. n -> BuiltMatrix] /\ c[0] = H /\ c[n] = LoopChain(H, edges, of)
      /\ \A k \in 1 .. n : c[k] = LoopStep(c[k - 1], Upwards(1, Len(edges))[k], edges, of)
  BY <1>0 DEF LoopSteps
<1>2. n \in Nat /\ \A k \in 1 .. n : Upwards(1, Len(edges))[k] = k /\ edges[k] \in Constraint
  BY UpwardsFromOne
<1> HIDE DEF n
<1> DEFINE T == {k \in 0 .. n : Fills(H, c[k], {})}
<1>3. 0 \in T
  <2>1. Fills(H, H, {})
    BY DEF Fills
  <2>2. 0 \in 0 .. n /\ Fills(H, c[0], {})
    BY <1>1, <1>2, <2>1
  <2>3. QED BY <2>2
<1>4. ASSUME NEW k \in 1 .. n, k - 1 \in T
      PROVE  k \in T
  <2>1. k - 1 \in 0 .. n /\ k \in 0 .. n /\ NrOfPoses - 1 + k \in Nat
    BY <1>2, PosesLess
  <2>2. Built(c[k - 1])
    <3>1. c[k - 1] \in BuiltMatrix
      BY <1>1, <2>1
    <3>2. QED BY <3>1 DEF BuiltMatrix
  <2>3. c[k] = LoopStep(c[k - 1], k, edges, of)
    BY <1>1, <1>2
  <2>4. Fills(c[k - 1], c[k], {})
    BY <1>2, <2>1, <2>2, <2>3, ConstraintFills DEF LoopStep
  <2>5. Fills(H, c[k - 1], {})
    BY <1>4
  <2>6. Fills(H, c[k], {})
    BY <2>4, <2>5 DEF Fills
  <2>7. QED BY <2>1, <2>6
<1> HIDE DEF T
<1>5. \A k \in 0 .. n : k \in T
  BY <1>2, <1>3, <1>4, UpTo
<1>6. n \in 0 .. n
  BY <1>2
<1>7. Fills(H, c[n], {})
  BY <1>5, <1>6 DEF T
<1>8. Built(c[n])
  <2>1. c[n] \in BuiltMatrix
    BY <1>1, <1>6
  <2>2. QED BY <2>1 DEF BuiltMatrix
<1>9. QED BY <1>1, <1>7, <1>8

LEMMA EmptyBuilt == Built(EmptyCsr)
<1>1. \A a, col \in Index : ~Holds(EmptyCsr, a, col)
  <2>1. \A a \in Index : Row(EmptyCsr, a) \in SUBSET (0 .. Count(EmptyCsr) - 1)
    BY NoElement, RowIs
  <2>2. Count(EmptyCsr) = 0 /\ 0 .. 0 - 1 = {}
    BY DEF Count, EmptyCsr
  <2>3. QED BY <2>1, <2>2 DEF Holds
<1>2. \A u \in Index : get_element(EmptyCsr, u, u) >= 0
  BY NoElement
<1>3. QED BY <1>1, <1>2, NoElement DEF Built, Lower

(* H is in order and has an element for every unknown; it has room if a    *)
(* matrix that is full below its diagonal has.                             *)
LEMMA BuildResult ==
  ASSUME NEW edges \in Seq(Constraint), NEW of
  PROVE  LET H == build_H_and_b(EmptyCsr, edges, of)
         IN  /\ Sorted(H) /\ (RoomForFactor => ~H.overrun)
             /\ ~H.overrun => Decomposable(H)
<1>1. Built(EmptyCsr)
  BY EmptyBuilt
<1>2. PICK p : p = AllDone(EmptyCsr, PriorOps)
  OBVIOUS
<1>3. PICK m : m = OdometryChain(p, of)
  OBVIOUS
<1>4. PICK H : H = LoopChain(m, edges, of)
  OBVIOUS
<1>5. Built(p) /\ Fills(EmptyCsr, p, Three(0))
  BY <1>1, <1>2, PriorFills
<1>6. Built(m) /\ Fills(p, m, UNION {Three(k) : k \in 1 .. NrOfPoses - 1})
  BY <1>3, <1>5, OdometryChainFills
<1>7. Built(H) /\ Fills(m, H, {})
  BY <1>4, <1>6, LoopChainFills
<1>8. H = build_H_and_b(EmptyCsr, edges, of)
  BY <1>2, <1>3, <1>4, BuildIs
<1>9. ASSUME ~H.overrun, NEW u \in Index
      PROVE  get_element(H, u, u) > 0
  <2>1. ~m.overrun /\ ~p.overrun
    BY <1>6, <1>7, <1>9 DEF Fills
  <2>2. PICK k \in 0 .. NrOfPoses - 1 : u \in Three(k)
    <3>1. u \div 3 \in 0 .. NrOfPoses - 1 /\ u \in Three(u \div 3)
      BY PosesAre DEF Index, Three
    <3>2. QED BY <3>1
  <2>3. get_element(m, u, u) > 0
    <3>1. CASE k = 0
      <4>1. get_element(p, u, u) > 0
        BY <1>5, <2>1, <2>2, <3>1 DEF Fills
      <4>2. QED BY <1>6, <2>1, <4>1 DEF Fills
    <3>2. CASE k # 0
      <4>1. k \in 1 .. NrOfPoses - 1
        BY <3>2, PosesLess
      <4>2. u \in UNION {Three(h) : h \in 1 .. NrOfPoses - 1}
        BY <2>2, <4>1
      <4>3. QED BY <1>6, <2>1, <4>2 DEF Fills
    <3>3. QED BY <3>1, <3>2
  <2>4. QED BY <1>7, <1>9, <2>3 DEF Fills
<1>10. Sorted(H) /\ (RoomForFactor => ~H.overrun)
  BY <1>7 DEF Built
<1>11. QED BY <1>8, <1>9, <1>10 DEF Decomposable

----------------------------------------------------------------------------
(* The neighbours of an unknown in the order of their number of neighbours *)

Entry == [index : Index, neighbors : Nat]

SinkStep(n, heap, step) ==
  LET k == Largest(heap.s, n, heap.at)
  IN  [s |-> Swapped(heap.s, heap.at, k), at |-> k]

HeapAt(s, i) == [s |-> s, at |-> i]

Heap(s, n, i) ==
  FoldLeft(LAMBDA heap, step : SinkStep(n, heap, step), HeapAt(s, i), Upwards(1, n))

LEMMA HeapifyIs == \A s, n, i : heapify(s, n, i) = Heap(s, n, i).s
BY DEF heapify, Heap, HeapAt, SinkStep

LEMMA SwappedTyped ==
  ASSUME NEW n \in Nat, NEW s \in [1 .. n -> Entry], NEW i \in 1 .. n, NEW k \in 1 .. n
  PROVE  Swapped(s, i, k) \in [1 .. n -> Entry]
BY DEF Swapped

HeapState(last) == [s : [1 .. last -> Entry], at : 1 .. last]

LEMMA SinkTyped ==
  ASSUME NEW last \in Nat, NEW n \in 0 .. last, NEW heap \in HeapState(last), NEW step
  PROVE  SinkStep(n, heap, step) \in HeapState(last)
<1>1. heap.s \in [1 .. last -> Entry] /\ heap.at \in 1 .. last
  BY DEF HeapState
<1>2. PICK k : k = Largest(heap.s, n, heap.at)
  OBVIOUS
<1>3. k \in 1 .. last
  <2>1. k = heap.at \/ (k = 2 * heap.at /\ k <= n) \/ (k = 2 * heap.at + 1 /\ k <= n)
    BY <1>2 DEF Largest
  <2>2. QED BY <1>1, <2>1
<1>4. Swapped(heap.s, heap.at, k) \in [1 .. last -> Entry]
  BY <1>1, <1>3, SwappedTyped
<1>5. SinkStep(n, heap, step) = [s |-> Swapped(heap.s, heap.at, k), at |-> k]
  BY <1>2 DEF SinkStep
<1>6. QED BY <1>3, <1>4, <1>5 DEF HeapState

LEMMA HeapFold ==
  ASSUME NEW last \in Nat, NEW n \in 0 .. last, NEW s0 \in [1 .. last -> Entry], NEW i0 \in 1 .. last
  PROVE  \E c \in [0 .. n -> HeapState(last)] :
           /\ c[0] = HeapAt(s0, i0) /\ c[n] = Heap(s0, n, i0)
           /\ \A k \in 1 .. n : c[k] = SinkStep(n, c[k - 1], Upwards(1, n)[k])
<1> DEFINE f == [p \in (HeapState(last)) \X (1 .. n) |-> SinkStep(n, p[1], Upwards(1, n)[p[2]])]
           P(g) == g = [s \in SUBSET (DOMAIN Upwards(1, n)) |->
                          IF s = {} THEN HeapAt(s0, i0)
                          ELSE SinkStep(n, g[s \ {Max(s)}], Upwards(1, n)[Max(s)])]
           h == CHOOSE g : P(g)
<1>1. n \in Nat /\ DOMAIN Upwards(1, n) = 1 .. n /\ HeapAt(s0, i0) \in HeapState(last)
  BY UpwardsFromOne DEF HeapState, HeapAt
<1>2. \A a \in HeapState(last), k \in 1 .. n : SinkStep(n, a, Upwards(1, n)[k]) \in HeapState(last)
  BY SinkTyped
<1>3. Heap(s0, n, i0) = h[DOMAIN Upwards(1, n)]
  BY DEF Heap, FoldLeft, MapThenFoldSet
<1>4. f \in [(HeapState(last)) \X (1 .. n) -> HeapState(last)]
  BY <1>2
<1> HIDE DEF h
<1>5. P(h)
  <2>1. PICK g \in [SUBSET (1 .. n) -> HeapState(last)] : FoldOf(f, HeapAt(s0, i0), n, g)
    BY <1>1, <1>4, FoldExists
  <2>2. ASSUME NEW s \in SUBSET (1 .. n), s # {}
        PROVE  g[s] = SinkStep(n, g[s \ {Max(s)}], Upwards(1, n)[Max(s)])
    <3>1. Max(s) \in s
      BY <1>1, <2>2, GreatestIn
    <3>2. g[s \ {Max(s)}] \in HeapState(last)
      OBVIOUS
    <3>3. g[s] = f[<<g[s \ {Max(s)}], Max(s)>>]
      BY <2>1, <2>2 DEF FoldOf
    <3>4. QED BY <3>1, <3>2, <3>3
  <2>3. g[{}] = HeapAt(s0, i0)
    BY <2>1 DEF FoldOf
  <2>4. P(g)
    BY <1>1, <2>2, <2>3
  <2>5. QED BY <2>4 DEF h
<1>6. h[1 .. 0] = HeapAt(s0, i0)
  BY <1>1, <1>5, Nothing
<1>7. ASSUME NEW k \in 1 .. n, h[1 .. k - 1] \in HeapState(last)
      PROVE  h[1 .. k] = f[<<h[1 .. k - 1], k>>]
  <2>1. Max(1 .. k) = k /\ (1 .. k) \ {k} = 1 .. k - 1 /\ 1 .. k # {}
        /\ 1 .. k \in SUBSET (1 .. n)
    BY <1>1, FirstPlaces
  <2>2. h[1 .. k] = SinkStep(n, h[1 .. k - 1], Upwards(1, n)[k])
    BY <1>1, <1>5, <2>1
  <2>3. QED BY <1>7, <2>2
<1> HIDE DEF f
<1>8. PICK c \in [0 .. n -> HeapState(last)] : Chain(c, f, HeapAt(s0, i0), n, h[1 .. n])
  <2>1. HasSteps(h, f, HeapState(last), n)
    BY <1>7 DEF HasSteps
  <2>2. QED BY <1>1, <1>4, <1>6, <2>1, ChainOf
<1>9. \A k \in 1 .. n : c[k] = SinkStep(n, c[k - 1], Upwards(1, n)[k])
  <2> TAKE k \in 1 .. n
  <2>1. c[k - 1] \in HeapState(last)
    BY <1>1
  <2>2. QED BY <1>8, <2>1 DEF Chain, f
<1>10. QED BY <1>1, <1>3, <1>8, <1>9 DEF Chain

LEMMA HeapifyTyped ==
  ASSUME NEW last \in Nat, NEW n \in 0 .. last, NEW s \in [1 .. last -> Entry],
         NEW i \in 1 .. last
  PROVE  heapify(s, n, i) \in [1 .. last -> Entry]
<1>1. PICK c \in [0 .. n -> HeapState(last)] :
        /\ c[0] = HeapAt(s, i) /\ c[n] = Heap(s, n, i)
        /\ \A k \in 1 .. n : c[k] = SinkStep(n, c[k - 1], Upwards(1, n)[k])
  BY HeapFold
<1>2. c[n] \in HeapState(last)
  OBVIOUS
<1>3. c[n].s \in [1 .. last -> Entry]
  BY <1>2 DEF HeapState
<1>4. QED BY <1>1, <1>3, HeapifyIs

FirstHeap(s, last, half) ==
  FoldLeft(LAMBDA h, i : heapify(h, last, i), s, Downwards(half))

LEMMA DownwardsAre ==
  ASSUME NEW n \in Nat
  PROVE  DOMAIN Downwards(n) = 1 .. n /\ \A k \in 1 .. n : Downwards(n)[k] \in 1 .. n
BY DEF Downwards

LEMMA FirstHeapFold ==
  ASSUME NEW last \in Nat, NEW half \in 0 .. last, NEW s0 \in [1 .. last -> Entry]
  PROVE  \E c \in [0 .. half -> [1 .. last -> Entry]] :
           /\ c[0] = s0 /\ c[half] = FirstHeap(s0, last, half)
           /\ \A k \in 1 .. half : c[k] = heapify(c[k - 1], last, Downwards(half)[k])
<1> DEFINE f == [p \in ([1 .. last -> Entry]) \X (1 .. half) |-> heapify(p[1], last, Downwards(half)[p[2]])]
           P(g) == g = [s \in SUBSET (DOMAIN Downwards(half)) |->
                          IF s = {} THEN s0
                          ELSE heapify(g[s \ {Max(s)}], last, Downwards(half)[Max(s)])]
           h == CHOOSE g : P(g)
<1>1. half \in Nat /\ DOMAIN Downwards(half) = 1 .. half /\ s0 \in [1 .. last -> Entry]
  BY DownwardsAre
<1>2. \A a \in [1 .. last -> Entry], k \in 1 .. half : heapify(a, last, Downwards(half)[k]) \in [1 .. last -> Entry]
  <2> TAKE a \in [1 .. last -> Entry], k \in 1 .. half
  <2>1. PICK p \in 1 .. half : p = Downwards(half)[k]
    BY DownwardsAre
  <2>2. p \in 1 .. last /\ last \in 0 .. last
    OBVIOUS
  <2>3. heapify(a, last, p) \in [1 .. last -> Entry]
    BY <2>2, HeapifyTyped
  <2>4. QED BY <2>1, <2>3
<1>3. FirstHeap(s0, last, half) = h[DOMAIN Downwards(half)]
  BY DEF FirstHeap, FoldLeft, MapThenFoldSet
<1>4. f \in [([1 .. last -> Entry]) \X (1 .. half) -> [1 .. last -> Entry]]
  BY <1>2
<1> HIDE DEF h
<1>5. P(h)
  <2>1. PICK g \in [SUBSET (1 .. half) -> [1 .. last -> Entry]] : FoldOf(f, s0, half, g)
    BY <1>1, <1>4, FoldExists
  <2>2. ASSUME NEW s \in SUBSET (1 .. half), s # {}
        PROVE  g[s] = heapify(g[s \ {Max(s)}], last, Downwards(half)[Max(s)])
    <3>1. Max(s) \in s
      BY <1>1, <2>2, GreatestIn
    <3>2. g[s \ {Max(s)}] \in [1 .. last -> Entry]
      OBVIOUS
    <3>3. g[s] = f[<<g[s \ {Max(s)}], Max(s)>>]
      BY <2>1, <2>2 DEF FoldOf
    <3>4. QED BY <3>1, <3>2, <3>3
  <2>3. g[{}] = s0
    BY <2>1 DEF FoldOf
  <2>4. P(g)
    BY <1>1, <2>2, <2>3
  <2>5. QED BY <2>4 DEF h
<1>6. h[1 .. 0] = s0
  BY <1>1, <1>5, Nothing
<1>7. ASSUME NEW k \in 1 .. half, h[1 .. k - 1] \in [1 .. last -> Entry]
      PROVE  h[1 .. k] = f[<<h[1 .. k - 1], k>>]
  <2>1. Max(1 .. k) = k /\ (1 .. k) \ {k} = 1 .. k - 1 /\ 1 .. k # {}
        /\ 1 .. k \in SUBSET (1 .. half)
    BY <1>1, FirstPlaces
  <2>2. h[1 .. k] = heapify(h[1 .. k - 1], last, Downwards(half)[k])
    BY <1>1, <1>5, <2>1
  <2>3. QED BY <1>7, <2>2
<1> HIDE DEF f
<1>8. PICK c \in [0 .. half -> [1 .. last -> Entry]] : Chain(c, f, s0, half, h[1 .. half])
  <2>1. HasSteps(h, f, [1 .. last -> Entry], half)
    BY <1>7 DEF HasSteps
  <2>2. QED BY <1>1, <1>4, <1>6, <2>1, ChainOf
<1>9. \A k \in 1 .. half : c[k] = heapify(c[k - 1], last, Downwards(half)[k])
  <2> TAKE k \in 1 .. half
  <2>1. c[k - 1] \in [1 .. last -> Entry]
    BY <1>1
  <2>2. QED BY <1>8, <2>1 DEF Chain, f
<1>10. QED BY <1>1, <1>3, <1>8, <1>9 DEF Chain

SortStep(h, n) == heapify(Swapped(h, 1, n), n - 1, 1)

Sort(first, n) == FoldLeft(LAMBDA h, k : SortStep(h, k), first, Downwards(n))

LEMMA SortIs == \A s : heapsort_nodes(s) = Sort(FirstHeap(s, Len(s), Len(s) \div 2), Len(s))
BY DEF heapsort_nodes, Sort, SortStep, FirstHeap

LEMMA SortFold ==
  ASSUME NEW last \in Nat, NEW s0 \in [1 .. last -> Entry]
  PROVE  \E c \in [0 .. last -> [1 .. last -> Entry]] :
           /\ c[0] = s0 /\ c[last] = Sort(s0, last)
           /\ \A k \in 1 .. last : c[k] = SortStep(c[k - 1], Downwards(last)[k])
<1> DEFINE f == [p \in ([1 .. last -> Entry]) \X (1 .. last) |-> SortStep(p[1], Downwards(last)[p[2]])]
           P(g) == g = [s \in SUBSET (DOMAIN Downwards(last)) |->
                          IF s = {} THEN s0
                          ELSE SortStep(g[s \ {Max(s)}], Downwards(last)[Max(s)])]
           h == CHOOSE g : P(g)
<1>1. last \in Nat /\ DOMAIN Downwards(last) = 1 .. last /\ s0 \in [1 .. last -> Entry]
  BY DownwardsAre
<1>2. \A a \in [1 .. last -> Entry], k \in 1 .. last : SortStep(a, Downwards(last)[k]) \in [1 .. last -> Entry]
  <2> TAKE a \in [1 .. last -> Entry], k \in 1 .. last
  <2>1. PICK p \in 1 .. last : p = Downwards(last)[k]
    BY DownwardsAre
  <2>2. 1 \in 1 .. last /\ p - 1 \in 0 .. last
    OBVIOUS
  <2>3. Swapped(a, 1, p) \in [1 .. last -> Entry]
    BY <2>2, SwappedTyped
  <2>4. SortStep(a, p) \in [1 .. last -> Entry]
    BY <2>2, <2>3, HeapifyTyped DEF SortStep
  <2>5. QED BY <2>1, <2>4
<1>3. Sort(s0, last) = h[DOMAIN Downwards(last)]
  BY DEF Sort, FoldLeft, MapThenFoldSet
<1>4. f \in [([1 .. last -> Entry]) \X (1 .. last) -> [1 .. last -> Entry]]
  BY <1>2
<1> HIDE DEF h
<1>5. P(h)
  <2>1. PICK g \in [SUBSET (1 .. last) -> [1 .. last -> Entry]] : FoldOf(f, s0, last, g)
    BY <1>1, <1>4, FoldExists
  <2>2. ASSUME NEW s \in SUBSET (1 .. last), s # {}
        PROVE  g[s] = SortStep(g[s \ {Max(s)}], Downwards(last)[Max(s)])
    <3>1. Max(s) \in s
      BY <1>1, <2>2, GreatestIn
    <3>2. g[s \ {Max(s)}] \in [1 .. last -> Entry]
      OBVIOUS
    <3>3. g[s] = f[<<g[s \ {Max(s)}], Max(s)>>]
      BY <2>1, <2>2 DEF FoldOf
    <3>4. QED BY <3>1, <3>2, <3>3
  <2>3. g[{}] = s0
    BY <2>1 DEF FoldOf
  <2>4. P(g)
    BY <1>1, <2>2, <2>3
  <2>5. QED BY <2>4 DEF h
<1>6. h[1 .. 0] = s0
  BY <1>1, <1>5, Nothing
<1>7. ASSUME NEW k \in 1 .. last, h[1 .. k - 1] \in [1 .. last -> Entry]
      PROVE  h[1 .. k] = f[<<h[1 .. k - 1], k>>]
  <2>1. Max(1 .. k) = k /\ (1 .. k) \ {k} = 1 .. k - 1 /\ 1 .. k # {}
        /\ 1 .. k \in SUBSET (1 .. last)
    BY <1>1, FirstPlaces
  <2>2. h[1 .. k] = SortStep(h[1 .. k - 1], Downwards(last)[k])
    BY <1>1, <1>5, <2>1
  <2>3. QED BY <1>7, <2>2
<1> HIDE DEF f
<1>8. PICK c \in [0 .. last -> [1 .. last -> Entry]] : Chain(c, f, s0, last, h[1 .. last])
  <2>1. HasSteps(h, f, [1 .. last -> Entry], last)
    BY <1>7 DEF HasSteps
  <2>2. QED BY <1>1, <1>4, <1>6, <2>1, ChainOf
<1>9. \A k \in 1 .. last : c[k] = SortStep(c[k - 1], Downwards(last)[k])
  <2> TAKE k \in 1 .. last
  <2>1. c[k - 1] \in [1 .. last -> Entry]
    BY <1>1
  <2>2. QED BY <1>8, <2>1 DEF Chain, f
<1>10. QED BY <1>1, <1>3, <1>8, <1>9 DEF Chain

LEMMA SortedNodes ==
  ASSUME NEW s \in Seq(Entry)
  PROVE  heapsort_nodes(s) \in [1 .. Len(s) -> Entry]
<1>1. PICK last \in Nat : last = Len(s) /\ s \in [1 .. last -> Entry]
  OBVIOUS
<1>2. PICK half \in 0 .. last : half = Len(s) \div 2
  BY <1>1
<1>3. PICK first : first = FirstHeap(s, last, half)
  OBVIOUS
<1>4. first \in [1 .. last -> Entry]
  <2>1. PICK c \in [0 .. half -> [1 .. last -> Entry]] :
          /\ c[0] = s /\ c[half] = FirstHeap(s, last, half)
          /\ \A k \in 1 .. half : c[k] = heapify(c[k - 1], last, Downwards(half)[k])
    BY <1>1, FirstHeapFold
  <2>2. half \in 0 .. half
    OBVIOUS
  <2>3. c[half] \in [1 .. last -> Entry]
    BY <2>2
  <2>4. QED BY <1>3, <2>1, <2>3
<1>5. PICK d \in [0 .. last -> [1 .. last -> Entry]] :
        /\ d[0] = first /\ d[last] = Sort(first, last)
        /\ \A k \in 1 .. last : d[k] = SortStep(d[k - 1], Downwards(last)[k])
  BY <1>4, SortFold
<1>6. d[last] \in [1 .. last -> Entry]
  <2>1. last \in 0 .. last
    OBVIOUS
  <2>2. QED BY <2>1
<1>7. QED BY <1>1, <1>2, <1>3, <1>5, <1>6, SortIs

----------------------------------------------------------------------------
(* The neighbours of an unknown *)

JoinStep(m, C, line, k) ==
  IF m.col_idx[k] = C THEN line
  ELSE Append(line, [index |-> m.col_idx[k], neighbors |-> nodes[m.col_idx[k]].neighbors])

Line(m, C) == FoldLeft(LAMBDA line, k : JoinStep(m, C, line, k), <<>>, RowPlaces(m, C))

LEMMA InLineIs == \A m, C : InLine(m, C) = Line(m, C)
BY DEF InLine, Line, JoinStep, RowPlaces

Marks == [Index -> [neighbors : Nat, visited : BOOLEAN]]

LEMMA LineFold ==
  ASSUME NEW m, Sorted(m), NEW C \in Index, nodes \in Marks
  PROVE  \E c \in [0 .. RowLength(m, C) -> Seq(Entry)] :
           /\ c[0] = <<>> /\ c[RowLength(m, C)] = Line(m, C)
           /\ \A k \in 1 .. RowLength(m, C) : c[k] = JoinStep(m, C, c[k - 1], RowPlaces(m, C)[k])
<1> DEFINE f == [p \in (Seq(Entry)) \X (1 .. RowLength(m, C)) |-> JoinStep(m, C, p[1], RowPlaces(m, C)[p[2]])]
           P(g) == g = [s \in SUBSET (DOMAIN RowPlaces(m, C)) |->
                          IF s = {} THEN <<>>
                          ELSE JoinStep(m, C, g[s \ {Max(s)}], RowPlaces(m, C)[Max(s)])]
           h == CHOOSE g : P(g)
<1>1. RowLength(m, C) \in Nat /\ DOMAIN RowPlaces(m, C) = 1 .. RowLength(m, C) /\ <<>> \in Seq(Entry)
  BY RowPlacesAre
<1>2. \A a \in Seq(Entry), k \in 1 .. RowLength(m, C) : JoinStep(m, C, a, RowPlaces(m, C)[k]) \in Seq(Entry)
  <2> TAKE a \in Seq(Entry), k \in 1 .. RowLength(m, C)
  <2>1. PICK p \in Row(m, C) : p = RowPlaces(m, C)[k]
    BY RowPlacesAre
  <2>2. p \in 0 .. Count(m) - 1
    BY RowIs
  <2>3. PICK u \in Index : u = m.col_idx[p]
    BY <2>2, Entries
  <2>4. nodes[u].neighbors \in Nat
    BY DEF Marks
  <2>5. [index |-> u, neighbors |-> nodes[u].neighbors] \in Entry
    BY <2>4 DEF Entry
  <2>6. JoinStep(m, C, a, p) \in Seq(Entry)
    BY <2>3, <2>5 DEF JoinStep
  <2>7. QED BY <2>1, <2>6
<1>3. Line(m, C) = h[DOMAIN RowPlaces(m, C)]
  BY DEF Line, FoldLeft, MapThenFoldSet
<1>4. f \in [(Seq(Entry)) \X (1 .. RowLength(m, C)) -> Seq(Entry)]
  BY <1>2
<1> HIDE DEF h
<1>5. P(h)
  <2>1. PICK g \in [SUBSET (1 .. RowLength(m, C)) -> Seq(Entry)] : FoldOf(f, <<>>, RowLength(m, C), g)
    BY <1>1, <1>4, FoldExists
  <2>2. ASSUME NEW s \in SUBSET (1 .. RowLength(m, C)), s # {}
        PROVE  g[s] = JoinStep(m, C, g[s \ {Max(s)}], RowPlaces(m, C)[Max(s)])
    <3>1. Max(s) \in s
      BY <1>1, <2>2, GreatestIn
    <3>2. g[s \ {Max(s)}] \in Seq(Entry)
      OBVIOUS
    <3>3. g[s] = f[<<g[s \ {Max(s)}], Max(s)>>]
      BY <2>1, <2>2 DEF FoldOf
    <3>4. QED BY <3>1, <3>2, <3>3
  <2>3. g[{}] = <<>>
    BY <2>1 DEF FoldOf
  <2>4. P(g)
    BY <1>1, <2>2, <2>3
  <2>5. QED BY <2>4 DEF h
<1>6. h[1 .. 0] = <<>>
  BY <1>1, <1>5, Nothing
<1>7. ASSUME NEW k \in 1 .. RowLength(m, C), h[1 .. k - 1] \in Seq(Entry)
      PROVE  h[1 .. k] = f[<<h[1 .. k - 1], k>>]
  <2>1. Max(1 .. k) = k /\ (1 .. k) \ {k} = 1 .. k - 1 /\ 1 .. k # {}
        /\ 1 .. k \in SUBSET (1 .. RowLength(m, C))
    BY <1>1, FirstPlaces
  <2>2. h[1 .. k] = JoinStep(m, C, h[1 .. k - 1], RowPlaces(m, C)[k])
    BY <1>1, <1>5, <2>1
  <2>3. QED BY <1>7, <2>2
<1> HIDE DEF f
<1>8. PICK c \in [0 .. RowLength(m, C) -> Seq(Entry)] : Chain(c, f, <<>>, RowLength(m, C), h[1 .. RowLength(m, C)])
  <2>1. HasSteps(h, f, Seq(Entry), RowLength(m, C))
    BY <1>7 DEF HasSteps
  <2>2. QED BY <1>1, <1>4, <1>6, <2>1, ChainOf
<1>9. \A k \in 1 .. RowLength(m, C) : c[k] = JoinStep(m, C, c[k - 1], RowPlaces(m, C)[k])
  <2> TAKE k \in 1 .. RowLength(m, C)
  <2>1. c[k - 1] \in Seq(Entry)
    BY <1>1
  <2>2. QED BY <1>8, <2>1 DEF Chain, f
<1>10. QED BY <1>1, <1>3, <1>8, <1>9 DEF Chain

LEMMA LineTyped ==
  ASSUME Sorted(sp_mat0), Sorted(sp_mat1), NEW C \in Index, nodes \in Marks
  PROVE  nodes_line(C) \in Seq(Entry)
<1>1. ASSUME NEW m, Sorted(m)
      PROVE  InLine(m, C) \in Seq(Entry)
  <2>1. PICK c \in [0 .. RowLength(m, C) -> Seq(Entry)] : c[RowLength(m, C)] = Line(m, C)
    BY <1>1, LineFold
  <2>2. RowLength(m, C) \in 0 .. RowLength(m, C)
    <3>1. RowLength(m, C) \in Nat
      BY <1>1, RowPlacesAre
    <3>2. QED BY <3>1
  <2>3. c[RowLength(m, C)] \in Seq(Entry)
    BY <2>2
  <2>4. QED BY <2>1, <2>3, InLineIs
<1>2. InLine(sp_mat0, C) \in Seq(Entry) /\ InLine(sp_mat1, C) \in Seq(Entry)
  BY <1>1
<1>3. QED BY <1>2 DEF nodes_line

----------------------------------------------------------------------------
(* The places of the queue and the unknowns *)

LEMMA IndexSize == IsFiniteSet(Index) /\ Cardinality(Index) = N
<1>1. N \in Nat /\ N - 1 \in Int /\ 0 \in Int /\ N > 0
  BY Sizes
<1>2. /\ IsFiniteSet(0 .. N - 1)
      /\ Cardinality(0 .. N - 1) = IF 0 > N - 1 THEN 0 ELSE (N - 1) - 0 + 1
  BY <1>1, FS_Interval
<1>3. QED BY <1>1, <1>2 DEF Index

LEMMA FirstSize ==
  ASSUME NEW n \in Nat
  PROVE  IsFiniteSet(0 .. n - 1) /\ Cardinality(0 .. n - 1) = n
<1>1. n - 1 \in Int /\ 0 \in Int
  OBVIOUS
<1>2. /\ IsFiniteSet(0 .. n - 1)
      /\ Cardinality(0 .. n - 1) = IF 0 > n - 1 THEN 0 ELSE (n - 1) - 0 + 1
  BY <1>1, FS_Interval
<1>3. QED BY <1>2

(* Different unknowns in n places, and one more.                           *)
LEMMA Fits ==
  ASSUME NEW n \in Nat, NEW f, \A k \in 0 .. n - 1 : f[k] \in Index,
         \A k, m \in 0 .. n - 1 : f[k] = f[m] => k = m
  PROVE  n <= N
<1> DEFINE g == [k \in 0 .. n - 1 |-> f[k]]
<1>1. SUFFICES ASSUME N < n PROVE FALSE
  BY Sizes
<1>2. g \in [0 .. n - 1 -> Index]
  OBVIOUS
<1>3. Cardinality(Index) < Cardinality(0 .. n - 1)
  BY <1>1, IndexSize, FirstSize
<1> HIDE DEF g
<1>4. PICK x \in 0 .. n - 1, y \in 0 .. n - 1 : x # y /\ g[x] = g[y]
  BY <1>2, <1>3, IndexSize, FirstSize, FS_PigeonHole
<1>5. QED BY <1>4 DEF g

LEMMA FitsOneMore ==
  ASSUME NEW n \in Nat, NEW f, \A k \in 0 .. n - 1 : f[k] \in Index,
         \A k, m \in 0 .. n - 1 : f[k] = f[m] => k = m,
         NEW i \in Index, \A k \in 0 .. n - 1 : f[k] # i
  PROVE  n < N
<1> DEFINE g == [k \in 0 .. n |-> IF k = n THEN i ELSE f[k]]
<1>1. \A k \in 0 .. n : k = n \/ k \in 0 .. n - 1
  OBVIOUS
<1>2. \A k \in 0 .. n : g[k] \in Index
  BY <1>1
<1>3. \A k, m \in 0 .. n : g[k] = g[m] => k = m
  BY <1>1
<1> HIDE DEF g
<1>4. n + 1 - 1 = n /\ n + 1 \in Nat
  OBVIOUS
<1>5. PICK p \in Nat : p = n + 1 /\ p - 1 = n
  BY <1>4
<1>6. p <= N
  BY <1>2, <1>3, <1>5, Fits
<1>7. QED BY <1>5, <1>6, Sizes

(* With fewer places one is missing.                                       *)
LEMMA OneIsMissing ==
  ASSUME NEW n \in Nat, n < N, NEW f
  PROVE  \E i \in Index : \A k \in 0 .. n - 1 : f[k] # i
<1> DEFINE g == [i \in Index |-> CHOOSE k \in 0 .. n - 1 : f[k] = i]
<1>1. SUFFICES ASSUME \A i \in Index : \E k \in 0 .. n - 1 : f[k] = i PROVE FALSE
  OBVIOUS
<1>2. \A i \in Index : g[i] \in 0 .. n - 1 /\ f[g[i]] = i
  BY <1>1
<1>3. g \in [Index -> 0 .. n - 1]
  BY <1>2
<1>4. Cardinality(0 .. n - 1) < Cardinality(Index)
  BY IndexSize, FirstSize
<1> HIDE DEF g
<1>5. PICK x \in Index, y \in Index : x # y /\ g[x] = g[y]
  BY <1>3, <1>4, IndexSize, FirstSize, FS_PigeonHole
<1>6. QED BY <1>2, <1>5

----------------------------------------------------------------------------
(* The queue *)

LEMMA QueueIs ==
  ASSUME NEW queue, NEW marks, NEW n \in Nat, QueueInv(queue, marks, n)
  PROVE  /\ queue.size \in Nat /\ n + queue.size <= N /\ n + queue.size \in Nat
         /\ queue.nodes \in [0 .. MAX_SIZE - 1 -> Index]
         /\ queue = [nodes |-> queue.nodes, head |-> queue.head, tail |-> queue.tail,
                     size |-> queue.size]
         /\ n < MAX_SIZE => queue.head = n
         /\ n + queue.size < MAX_SIZE => queue.tail = n + queue.size
         /\ marks \in Marks
         /\ \A k \in 0 .. n + queue.size - 1 : k \in 0 .. MAX_SIZE - 1 /\ queue.nodes[k] \in Index
         /\ \A k, m \in 0 .. n + queue.size - 1 : queue.nodes[k] = queue.nodes[m] => k = m
         /\ \A i \in Index :
              marks[i].visited <=> \E k \in 0 .. n + queue.size - 1 : queue.nodes[k] = i
<1>1. /\ queue \in Queue /\ n + queue.size <= N
      /\ queue.head = n % MAX_SIZE /\ queue.tail = (n + queue.size) % MAX_SIZE
      /\ marks \in Marks
      /\ \A k, m \in 0 .. n + queue.size - 1 : queue.nodes[k] = queue.nodes[m] => k = m
      /\ \A i \in Index :
           marks[i].visited <=> \E k \in 0 .. n + queue.size - 1 : queue.nodes[k] = i
  <2>1. queue \in Queue
    BY DEF QueueInv
  <2>2. n + queue.size <= N
    BY DEF QueueInv
  <2>3. queue.head = n % MAX_SIZE
    BY DEF QueueInv
  <2>4. queue.tail = (n + queue.size) % MAX_SIZE
    BY DEF QueueInv
  <2>5. marks \in Marks
    BY DEF QueueInv, Marks
  <2>10. queue.size \in Nat /\ n + queue.size - 1 \in Int
    BY <2>1, Sizes DEF Queue
  <2>6. \A k, m \in 0 .. n + queue.size - 1 : queue.nodes[k] = queue.nodes[m] => k = m
    BY <2>10 DEF QueueInv
  <2>7. \A i \in Index :
           marks[i].visited <=> \E k \in 0 .. n + queue.size - 1 : queue.nodes[k] = i
    BY <2>10 DEF QueueInv
  <2>8. QED BY <2>1, <2>2, <2>3, <2>4, <2>5, <2>6, <2>7
<1>2. /\ queue.size \in Nat /\ queue.nodes \in [0 .. MAX_SIZE - 1 -> Index]
      /\ queue = [nodes |-> queue.nodes, head |-> queue.head, tail |-> queue.tail,
                  size |-> queue.size]
  BY <1>1, Sizes DEF Queue
<1>3. PICK joined \in Nat : joined = n + queue.size
  BY <1>2
<1>4. MAX_SIZE \in Nat /\ MAX_SIZE > 0 /\ N \in Nat /\ N <= MAX_SIZE
  BY Sizes
<1>5. \A x \in Nat : x < MAX_SIZE => x % MAX_SIZE = x
  BY <1>4
<1>6. \A k \in 0 .. joined - 1 : k \in 0 .. MAX_SIZE - 1 /\ queue.nodes[k] \in Index
  <2> TAKE k \in 0 .. joined - 1
  <2>1. k \in 0 .. MAX_SIZE - 1
    BY <1>1, <1>3, <1>4
  <2>2. QED BY <1>2, <2>1
<1>7. /\ n < MAX_SIZE => queue.head = n
      /\ joined < MAX_SIZE => queue.tail = joined
  BY <1>1, <1>3, <1>5
<1>8. QED BY <1>1, <1>2, <1>3, <1>6, <1>7

(* The result of a push when there is a place.                             *)
LEMMA PushIs ==
  ASSUME NEW queue, NEW i, queue = [nodes |-> queue.nodes, head |-> queue.head,
                                    tail |-> queue.tail, size |-> queue.size],
         queue.size # MAX_SIZE
  PROVE  push_to_queue(queue, i) =
           [nodes |-> [queue.nodes EXCEPT ![queue.tail] = i], head |-> queue.head,
            tail |-> (queue.tail + 1) % MAX_SIZE, size |-> queue.size + 1]
<1> DEFINE a == queue.nodes
           h == queue.head
           t == queue.tail
           s == queue.size
<1>1. push_to_queue(queue, i) =
        [queue EXCEPT !.nodes[t] = i, !.tail = (@ + 1) % MAX_SIZE, !.size = @ + 1]
  BY DEF push_to_queue, is_full
<1>2. queue = [nodes |-> a, head |-> h, tail |-> t, size |-> s]
  OBVIOUS
<1> HIDE DEF a, h, t, s
<1>3. push_to_queue(queue, i) =
        [nodes |-> [a EXCEPT ![t] = i], head |-> h, tail |-> (t + 1) % MAX_SIZE, size |-> s + 1]
  BY <1>1, <1>2
<1>4. QED BY <1>3 DEF a, h, t, s

(* An unknown that was not visited joins the queue, which has a place.     *)
LEMMA JoinKeeps ==
  ASSUME NEW queue, NEW marks, NEW n \in Nat, QueueInv(queue, marks, n),
         NEW i \in Index, ~marks[i].visited
  PROVE  LET r == push_to_queue(queue, i)
         IN  /\ QueueInv(r, [marks EXCEPT ![i].visited = TRUE], n)
             /\ \A k \in 0 .. n - 1 : r.nodes[k] = queue.nodes[k]
<1> DEFINE joined == n + queue.size
           r == push_to_queue(queue, i)
           new == [marks EXCEPT ![i].visited = TRUE]
<1>1. /\ queue.size \in Nat /\ joined <= N /\ joined \in Nat
      /\ queue.nodes \in [0 .. MAX_SIZE - 1 -> Index]
      /\ queue = [nodes |-> queue.nodes, head |-> queue.head, tail |-> queue.tail,
                  size |-> queue.size]
      /\ n < MAX_SIZE => queue.head = n
      /\ joined < MAX_SIZE => queue.tail = joined
      /\ marks \in Marks
      /\ \A k \in 0 .. joined - 1 : k \in 0 .. MAX_SIZE - 1 /\ queue.nodes[k] \in Index
      /\ \A k, m \in 0 .. joined - 1 : queue.nodes[k] = queue.nodes[m] => k = m
      /\ \A u \in Index :
           marks[u].visited <=> \E k \in 0 .. joined - 1 : queue.nodes[k] = u
  BY QueueIs
<1>2. queue.head \in 0 .. MAX_SIZE - 1 /\ queue.head = n % MAX_SIZE
  BY DEF QueueInv, Queue
<1>3. MAX_SIZE \in Nat /\ MAX_SIZE > 0 /\ N \in Nat /\ N <= MAX_SIZE
  BY Sizes
<1>4. PICK a \in [0 .. MAX_SIZE - 1 -> Index] : a = queue.nodes
  BY <1>1
<1>5. PICK t \in Nat : t = joined
  BY <1>1
<1>6. \A k \in 0 .. t - 1 : a[k] # i
  BY <1>1, <1>4, <1>5
<1>7. t < N
  <2>1. \A k \in 0 .. t - 1 : a[k] \in Index
    BY <1>1, <1>4, <1>5
  <2>2. \A k, m \in 0 .. t - 1 : a[k] = a[m] => k = m
    BY <1>1, <1>4, <1>5
  <2>3. QED BY <1>6, <2>1, <2>2, FitsOneMore
<1>8. queue.tail = t /\ queue.size # MAX_SIZE /\ queue.size + 1 \in 0 .. MAX_SIZE
      /\ n + (queue.size + 1) = t + 1 /\ n <= t
  BY <1>1, <1>3, <1>5, <1>7
<1>9. r = [nodes |-> [a EXCEPT ![t] = i], head |-> queue.head, tail |-> (t + 1) % MAX_SIZE,
           size |-> queue.size + 1]
  BY <1>1, <1>4, <1>8, PushIs
<1>10. PICK b2 : b2 = [a EXCEPT ![t] = i]
  OBVIOUS
<1>11. /\ b2 \in [0 .. MAX_SIZE - 1 -> Index] /\ b2[t] = i
       /\ \A k \in 0 .. t - 1 : b2[k] = a[k]
  <2>1. t \in 0 .. MAX_SIZE - 1 /\ \A k \in 0 .. t - 1 : k \in 0 .. MAX_SIZE - 1 /\ k # t
    BY <1>3, <1>7
  <2>2. QED BY <1>10, <2>1
<1>12. r.nodes = b2 /\ r.head = queue.head /\ r.tail = (t + 1) % MAX_SIZE
       /\ r.size = queue.size + 1
  BY <1>9, <1>10
<1>13. r \in Queue
  <2>1. (t + 1) % MAX_SIZE \in 0 .. MAX_SIZE - 1
    BY <1>3
  <2>2. r = [nodes |-> b2, head |-> queue.head, tail |-> (t + 1) % MAX_SIZE,
             size |-> queue.size + 1]
    BY <1>9, <1>10
  <2> HIDE DEF r
  <2>3. QED BY <1>2, <1>8, <1>11, <2>1, <2>2 DEF Queue
<1>14. /\ new \in Marks /\ new[i].visited
       /\ \A u \in Index : u # i => (new[u].visited <=> marks[u].visited)
  <2>1. marks \in [Index -> [neighbors : Nat, visited : BOOLEAN]]
    BY <1>1 DEF Marks
  <2>2. PICK m : m = marks[i]
    OBVIOUS
  <2>3. m \in [neighbors : Nat, visited : BOOLEAN]
    BY <2>1, <2>2
  <2>4. PICK m2 : m2 = [m EXCEPT !.visited = TRUE]
    OBVIOUS
  <2>5. m2 \in [neighbors : Nat, visited : BOOLEAN] /\ m2.visited = TRUE
    BY <2>3, <2>4
  <2>6. new = [marks EXCEPT ![i] = m2]
    BY <2>2, <2>4
  <2>7. /\ \A u \in Index : new[u] = IF u = i THEN m2 ELSE marks[u]
        /\ DOMAIN new = Index
    BY <2>1, <2>6
  <2>8. new \in Marks
    BY <2>1, <2>5, <2>6 DEF Marks
  <2>9. QED BY <2>5, <2>7, <2>8
<1> HIDE DEF r, new
<1>15. n + r.size = t + 1
  BY <1>8, <1>12
<1>16. \A k : k \in 0 .. (t + 1) - 1 <=> k \in 0 .. t - 1 \/ k = t
  OBVIOUS
<1>17. \A k, m \in 0 .. (t + 1) - 1 : b2[k] = b2[m] => k = m
  <2> TAKE k, m \in 0 .. (t + 1) - 1
  <2>1. CASE k = t /\ m = t
    BY <2>1
  <2>2. CASE k = t /\ m \in 0 .. t - 1
    BY <1>6, <1>11, <2>2
  <2>3. CASE k \in 0 .. t - 1 /\ m = t
    BY <1>6, <1>11, <2>3
  <2>4. CASE k \in 0 .. t - 1 /\ m \in 0 .. t - 1
    BY <1>1, <1>4, <1>5, <1>11, <2>4
  <2>5. QED BY <1>16, <2>1, <2>2, <2>3, <2>4
<1>18. ASSUME NEW u \in Index
       PROVE  new[u].visited <=> \E k \in 0 .. (t + 1) - 1 : b2[k] = u
  <2>1. CASE u = i
    BY <1>11, <1>14, <1>16, <2>1
  <2>2. CASE u # i
    <3>1. new[u].visited <=> \E k \in 0 .. t - 1 : a[k] = u
      BY <1>1, <1>4, <1>5, <1>14, <2>2
    <3>2. QED BY <1>11, <1>16, <2>2, <3>1
  <2>3. QED BY <2>1, <2>2
<1>19. QueueInv(r, new, n)
  <2>1. t + 1 <= N
    BY <1>3, <1>7
  <2>2. n + r.size <= N /\ r.tail = (n + r.size) % MAX_SIZE /\ r.head = n % MAX_SIZE
    BY <1>2, <1>12, <1>15, <2>1
  <2>3. /\ \A k, m \in 0 .. (n + r.size) - 1 : r.nodes[k] = r.nodes[m] => k = m
        /\ \A u \in Index :
             new[u].visited <=> \E k \in 0 .. (n + r.size) - 1 : r.nodes[k] = u
    BY <1>12, <1>15, <1>17, <1>18
  <2>4. new \in [Index -> [neighbors : Nat, visited : BOOLEAN]]
    BY <1>14 DEF Marks
  <2>5. QED BY <1>13, <2>2, <2>3, <2>4 DEF QueueInv
<1>20. \A k \in 0 .. n - 1 : r.nodes[k] = queue.nodes[k]
  <2>1. \A k \in 0 .. n - 1 : k \in 0 .. t - 1
    BY <1>8
  <2>2. QED BY <1>4, <1>11, <1>12, <2>1
<1>21. QED BY <1>19, <1>20 DEF r, new

----------------------------------------------------------------------------
(* The steps of the ordering *)

(* The states of the queue and the marks while neighbors join; what has    *)
(* left the queue stays as it was in queue0.                               *)
ListState(n, queue0) ==
  {l \in [queue : Queue, nodes : Marks] :
     /\ QueueInv(l.queue, l.nodes, n)
     /\ \A k \in 0 .. n - 1 : l.queue.nodes[k] = queue0.nodes[k]}

LEMMA VisitKeeps ==
  ASSUME NEW n \in Nat, NEW queue0, NEW l \in ListState(n, queue0), NEW entry \in Entry
  PROVE  Visit(l, entry) \in ListState(n, queue0)
<1>1. PICK i \in Index : i = entry.index
  BY DEF Entry
<1>2. PICK queue \in Queue, marks \in Marks : l = [queue |-> queue, nodes |-> marks]
  BY DEF ListState
<1>3. QueueInv(queue, marks, n) /\ \A k \in 0 .. n - 1 : queue.nodes[k] = queue0.nodes[k]
  BY <1>2 DEF ListState
<1>4. CASE marks[i].visited
  BY <1>1, <1>2, <1>4 DEF Visit
<1>5. CASE ~marks[i].visited
  <2>1. PICK r : r = push_to_queue(queue, i)
    OBVIOUS
  <2>2. PICK new : new = [marks EXCEPT ![i].visited = TRUE]
    OBVIOUS
  <2>3. QueueInv(r, new, n) /\ \A k \in 0 .. n - 1 : r.nodes[k] = queue.nodes[k]
    BY <1>3, <1>5, <2>1, <2>2, JoinKeeps
  <2>4. Visit(l, entry) = [queue |-> r, nodes |-> new]
    BY <1>1, <1>2, <1>5, <2>1, <2>2 DEF Visit
  <2>5. r \in Queue /\ new \in Marks
    BY <2>3 DEF QueueInv, Marks
  <2>6. \A k \in 0 .. n - 1 : r.nodes[k] = queue0.nodes[k]
    BY <1>3, <2>3
  <2>7. QED BY <2>3, <2>4, <2>5, <2>6 DEF ListState
<1>6. QED BY <1>4, <1>5

Visited(l, s) == FoldLeft(Visit, l, s)

LEMMA VisitFold ==
  ASSUME NEW n0 \in Nat, NEW queue0, NEW l0 \in ListState(n0, queue0), NEW last \in Nat,
         NEW s0 \in [1 .. last -> Entry]
  PROVE  \E c \in [0 .. last -> ListState(n0, queue0)] :
           /\ c[0] = l0 /\ c[last] = Visited(l0, s0)
           /\ \A k \in 1 .. last : c[k] = Visit(c[k - 1], s0[k])
<1> DEFINE f == [p \in (ListState(n0, queue0)) \X (1 .. last) |-> Visit(p[1], s0[p[2]])]
           P(g) == g = [s \in SUBSET (DOMAIN s0) |->
                          IF s = {} THEN l0
                          ELSE Visit(g[s \ {Max(s)}], s0[Max(s)])]
           h == CHOOSE g : P(g)
<1>1. last \in Nat /\ DOMAIN s0 = 1 .. last /\ l0 \in ListState(n0, queue0)
  OBVIOUS
<1>2. \A a \in ListState(n0, queue0), k \in 1 .. last : Visit(a, s0[k]) \in ListState(n0, queue0)
  BY VisitKeeps
<1>3. Visited(l0, s0) = h[DOMAIN s0]
  BY DEF Visited, FoldLeft, MapThenFoldSet
<1>4. f \in [(ListState(n0, queue0)) \X (1 .. last) -> ListState(n0, queue0)]
  BY <1>2
<1> HIDE DEF h
<1>5. P(h)
  <2>1. PICK g \in [SUBSET (1 .. last) -> ListState(n0, queue0)] : FoldOf(f, l0, last, g)
    BY <1>1, <1>4, FoldExists
  <2>2. ASSUME NEW s \in SUBSET (1 .. last), s # {}
        PROVE  g[s] = Visit(g[s \ {Max(s)}], s0[Max(s)])
    <3>1. Max(s) \in s
      BY <1>1, <2>2, GreatestIn
    <3>2. g[s \ {Max(s)}] \in ListState(n0, queue0)
      OBVIOUS
    <3>3. g[s] = f[<<g[s \ {Max(s)}], Max(s)>>]
      BY <2>1, <2>2 DEF FoldOf
    <3>4. QED BY <3>1, <3>2, <3>3
  <2>3. g[{}] = l0
    BY <2>1 DEF FoldOf
  <2>4. P(g)
    BY <1>1, <2>2, <2>3
  <2>5. QED BY <2>4 DEF h
<1>6. h[1 .. 0] = l0
  BY <1>1, <1>5, Nothing
<1>7. ASSUME NEW k \in 1 .. last, h[1 .. k - 1] \in ListState(n0, queue0)
      PROVE  h[1 .. k] = f[<<h[1 .. k - 1], k>>]
  <2>1. Max(1 .. k) = k /\ (1 .. k) \ {k} = 1 .. k - 1 /\ 1 .. k # {}
        /\ 1 .. k \in SUBSET (1 .. last)
    BY <1>1, FirstPlaces
  <2>2. h[1 .. k] = Visit(h[1 .. k - 1], s0[k])
    BY <1>1, <1>5, <2>1
  <2>3. QED BY <1>7, <2>2
<1> HIDE DEF f
<1>8. PICK c \in [0 .. last -> ListState(n0, queue0)] : Chain(c, f, l0, last, h[1 .. last])
  <2>1. HasSteps(h, f, ListState(n0, queue0), last)
    BY <1>7 DEF HasSteps
  <2>2. QED BY <1>1, <1>4, <1>6, <2>1, ChainOf
<1>9. \A k \in 1 .. last : c[k] = Visit(c[k - 1], s0[k])
  <2> TAKE k \in 1 .. last
  <2>1. c[k - 1] \in ListState(n0, queue0)
    BY <1>1
  <2>2. QED BY <1>8, <2>1 DEF Chain, f
<1>10. QED BY <1>1, <1>3, <1>8, <1>9 DEF Chain

LEMMA VisitedKeeps ==
  ASSUME NEW n0 \in Nat, NEW queue0, NEW l0 \in ListState(n0, queue0), NEW last \in Nat,
         NEW s0 \in [1 .. last -> Entry]
  PROVE  Visited(l0, s0) \in ListState(n0, queue0)
<1>1. PICK c \in [0 .. last -> ListState(n0, queue0)] :
        /\ c[0] = l0 /\ c[last] = Visited(l0, s0)
        /\ \A k \in 1 .. last : c[k] = Visit(c[k - 1], s0[k])
  BY VisitFold
<1>2. last \in 0 .. last
  OBVIOUS
<1>3. QED BY <1>1, <1>2

LEMMA CountedIs ==
  ASSUME NEW m, Sorted(m)
  PROVE  count_all_neighbors(m) \in Marks
<1>1. ASSUME NEW i \in Index PROVE Counted(m, i) \in Nat
  <2> DEFINE S == {k \in Elements(m) :
                     m.col_idx[k] < RowOf(m, k) /\ i \in {m.col_idx[k], RowOf(m, k)}}
  <2>1. PICK top \in Int : top = m.row_ptr[m.max_line] - 1
    BY Entries DEF Sorted
  <2>2. IsFiniteSet(0 .. top)
    <3>1. 0 \in Int
      OBVIOUS
    <3>2. QED BY <3>1, FS_Interval
  <2>3. S \in SUBSET (0 .. top)
    BY <2>1 DEF Elements
  <2> HIDE DEF S
  <2>4. IsFiniteSet(S)
    BY <2>2, <2>3, FS_Subset
  <2>5. Cardinality(S) \in Nat
    BY <2>4, FS_CardinalityType
  <2>6. QED BY <2>5 DEF S, Counted
<1>2. \A i \in Unknown : [neighbors |-> Counted(m, i), visited |-> FALSE]
        \in [neighbors : Nat, visited : BOOLEAN]
  BY <1>1 DEF Unknown
<1>3. QED BY <1>2 DEF count_all_neighbors, Marks, Unknown

LEMMA StartOrderKeeps ==
  ASSUME Sorted(sp_mat0), rcm_start
  PROVE  Sorted(sp_mat1') /\ OrderInv'
<1>1. Sorted(sp_mat1')
  <2>1. sp_mat1' = transpose_lower_triangular_in_place(sp_mat0)
    BY DEF rcm_start, transpose_lower_triangular_in_place, init_sp_mat
  <2>2. Sorted(transpose_lower_triangular_in_place(sp_mat0))
    BY TransposeResult
  <2>3. QED BY <2>1, <2>2
<1>2. MAX_SIZE \in Nat /\ 0 < MAX_SIZE /\ 0 < N /\ 0 \in Index
  BY Sizes DEF Index
<1>3. nodes' \in Marks /\ \A i \in Index : nodes'[i].visited = FALSE
  <2>1. nodes' = count_all_neighbors(sp_mat0)
    BY DEF rcm_start
  <2>2. QED BY <2>1, CountedIs DEF count_all_neighbors, Unknown
<1>4. q' \in Queue /\ q'.size = 0 /\ q'.head = 0 /\ q'.tail = 0
  <2>1. q' = init_queue
    BY DEF rcm_start
  <2>2. QED BY <1>2, <2>1 DEF init_queue, Queue
<1>5. perm_index' = 0
  BY DEF rcm_start
<1>6. 0 % MAX_SIZE = 0
  <2>1. \A x \in Nat : x < MAX_SIZE => x % MAX_SIZE = x
    BY <1>2
  <2>2. QED BY <1>2, <2>1
<1>7. QueueInv(q', nodes', 0)
  <2>1. nodes' \in [Index -> [neighbors : Nat, visited : BOOLEAN]]
    BY <1>3 DEF Marks
  <2>2. 0 + q'.size = 0
    BY <1>4
  <2>3. PICK joined : joined = 0 + q'.size
    OBVIOUS
  <2>4. joined = 0
    BY <2>2, <2>3
  <2>5. /\ \A k, m \in 0 .. joined - 1 : q'.nodes[k] = q'.nodes[m] => k = m
        /\ \A i \in Index : nodes'[i].visited <=> \E k \in 0 .. joined - 1 : q'.nodes[k] = i
    BY <1>3, <2>4
  <2>6. joined <= N
    BY <1>2, <2>4, Sizes
  <2>7. q'.head = 0 % MAX_SIZE /\ q'.tail = joined % MAX_SIZE
    BY <1>4, <1>6, <2>4, Zenon
  <2>8. QED BY <1>4, <2>1, <2>3, <2>5, <2>6, <2>7 DEF QueueInv
<1>8. OrderInv'
  <2>1. \A k \in 0 .. perm_index' - 1 : FALSE
    BY <1>5
  <2>2. QED BY <1>5, <1>7, <2>1 DEF OrderInv
<1>9. QED BY <1>1, <1>8

LEMMA RootKeeps ==
  ASSUME OrderInv, rcm_root
  PROVE  OrderInv'
<1>1. PICK n \in Nat : n = perm_index /\ QueueInv(q, nodes, n)
  BY DEF OrderInv
<1>2. q.size = 0 /\ n < N
  BY <1>1 DEF rcm_root, is_empty
<1>3. n + q.size - 1 = n - 1
  BY <1>2
<1>4. nodes \in Marks
      /\ \A i \in Index : nodes[i].visited <=> \E k \in 0 .. n - 1 : q.nodes[k] = i
  <2>1. /\ nodes \in Marks
        /\ \A i \in Index :
             nodes[i].visited <=> \E k \in 0 .. n + q.size - 1 : q.nodes[k] = i
    BY <1>1, QueueIs
  <2>2. QED BY <1>3, <2>1
<1>5. PICK free \in Index : \A k \in 0 .. n - 1 : q.nodes[k] # free
  BY <1>2, OneIsMissing
<1>6. Unvisited \in SUBSET Index /\ free \in Unvisited
      /\ \A i \in Unvisited : ~nodes[i].visited
  BY <1>4, <1>5 DEF Unvisited, Unknown
<1> DEFINE T == {nodes[i].neighbors : i \in Unvisited}
           S == {i \in Unvisited : \A k \in Unvisited : nodes[i].neighbors <= nodes[k].neighbors}
<1>7. \A i \in Unvisited : nodes[i].neighbors \in Nat
  BY <1>4, <1>6 DEF Marks
<1>8. T \in SUBSET Nat /\ T # {}
  BY <1>6, <1>7
<1>9. Min(T) \in T /\ \A x \in T : Min(T) <= x
  BY <1>8, HasLeast
<1>10. PICK i \in Unvisited : nodes[i].neighbors = Min(T)
  BY <1>9
<1>11. i \in S
  BY <1>9, <1>10
<1>12. S \in SUBSET Nat /\ S # {} /\ S \in SUBSET Unvisited
  BY <1>6, <1>11, Sizes
<1>13. PICK root \in Unvisited : root = get_min_order_unvisited
  <2> HIDE DEF S
  <2>1. Min(S) \in S
    BY <1>12, HasLeast
  <2>2. get_min_order_unvisited = Min(S)
    BY DEF get_min_order_unvisited, S
  <2>3. QED BY <1>12, <2>1, <2>2
<1>14. /\ QueueInv(push_to_queue(q, root), [nodes EXCEPT ![root].visited = TRUE], n)
       /\ \A k \in 0 .. n - 1 : push_to_queue(q, root).nodes[k] = q.nodes[k]
  <2>1. root \in Index /\ ~nodes[root].visited
    BY <1>6, <1>13
  <2>2. QED BY <1>1, <2>1, JoinKeeps
<1>15. q' = push_to_queue(q, root) /\ nodes' = [nodes EXCEPT ![root].visited = TRUE]
       /\ perm' = perm /\ perm_index' = perm_index
  BY <1>13 DEF rcm_root
<1>16. QueueInv(q', nodes', n) /\ \A k \in 0 .. n - 1 : q'.nodes[k] = q.nodes[k]
  BY <1>14, <1>15
<1>17. QED BY <1>1, <1>15, <1>16 DEF OrderInv

LEMMA PopKeeps ==
  ASSUME OrderInv, rcm_pop, Sorted(sp_mat0), Sorted(sp_mat1),
         perm \in [0 .. MAX_SIZE - 1 -> Index]
  PROVE  OrderInv' /\ perm' \in [0 .. MAX_SIZE - 1 -> Index]
<1>1. PICK n \in Nat : n = perm_index /\ QueueInv(q, nodes, n)
  BY DEF OrderInv
<1>2. \A k \in 0 .. n - 1 : perm[k] = q.nodes[k]
  BY <1>1 DEF OrderInv
<1>3. /\ q.size \in Nat /\ n + q.size <= N /\ n + q.size \in Nat
      /\ q.nodes \in [0 .. MAX_SIZE - 1 -> Index]
      /\ q = [nodes |-> q.nodes, head |-> q.head, tail |-> q.tail, size |-> q.size]
      /\ n < MAX_SIZE => q.head = n
      /\ nodes \in Marks
      /\ \A k, m \in 0 .. n + q.size - 1 : q.nodes[k] = q.nodes[m] => k = m
      /\ \A i \in Index :
           nodes[i].visited <=> \E k \in 0 .. n + q.size - 1 : q.nodes[k] = i
  BY <1>1, QueueIs
<1>4. q \in Queue /\ q.tail = (n + q.size) % MAX_SIZE
  BY <1>1 DEF QueueInv
<1>5. MAX_SIZE \in Nat /\ MAX_SIZE > 0 /\ N \in Nat /\ N <= MAX_SIZE
  BY Sizes
<1>6. q.size > 0
  BY <1>3 DEF rcm_pop, is_empty
<1>7. n < MAX_SIZE /\ n \in 0 .. MAX_SIZE - 1 /\ q.head = n /\ n + 1 \in Nat
      /\ q.size - 1 \in 0 .. MAX_SIZE /\ (n + 1) + (q.size - 1) = n + q.size
  BY <1>3, <1>5, <1>6
<1>8. PICK up \in Nat : up = n + 1
  BY <1>7
<1>9. PICK left \in 0 .. MAX_SIZE : left = q.size - 1
  BY <1>7
<1>10. PICK a \in [0 .. MAX_SIZE - 1 -> Index] : a = q.nodes
  BY <1>3
<1>11. PICK t \in 0 .. MAX_SIZE - 1 : t = q.tail
  BY <1>4 DEF Queue
<1>12. PICK h \in 0 .. MAX_SIZE - 1 : h = (n + 1) % MAX_SIZE
  BY <1>5
<1>13. Popped(q) = [nodes |-> a, head |-> h, tail |-> t, size |-> left]
  <2>1. q = [nodes |-> a, head |-> n, tail |-> t, size |-> q.size]
    BY <1>3, <1>7, <1>10, <1>11
  <2>2. Popped(q) = [q EXCEPT !.head = (n + 1) % MAX_SIZE, !.size = q.size - 1]
    BY <1>7 DEF Popped
  <2>3. PICK z : z = q.size
    OBVIOUS
  <2>4. Popped(q) = [q EXCEPT !.head = h, !.size = left]
    BY <1>9, <1>12, <2>2
  <2>5. PICK q0 : q0 = q
    OBVIOUS
  <2>6. q0 = [nodes |-> a, head |-> n, tail |-> t, size |-> z] /\ Popped(q) = [q0 EXCEPT !.head = h, !.size = left]
    BY <2>1, <2>3, <2>4, <2>5
  <2>7. QED BY <2>6
<1>14. QueueInv(Popped(q), nodes, up)
  <2>1. Popped(q) \in Queue
    BY <1>13 DEF Queue
  <2>2. PICK joined \in Nat : joined = n + q.size
    BY <1>3
  <2>3. up + Popped(q).size = joined /\ joined <= N
    BY <1>3, <1>7, <1>8, <1>9, <1>13, <2>2
  <2>4. Popped(q).head = up % MAX_SIZE /\ Popped(q).tail = joined % MAX_SIZE
    BY <1>4, <1>8, <1>11, <1>12, <1>13, <2>2
  <2>5. /\ \A k, m \in 0 .. joined - 1 : a[k] = a[m] => k = m
        /\ \A i \in Index : nodes[i].visited <=> \E k \in 0 .. joined - 1 : a[k] = i
    BY <1>3, <1>10, <2>2
  <2>6. Popped(q).nodes = a
    BY <1>13
  <2>7. nodes \in [Index -> [neighbors : Nat, visited : BOOLEAN]]
    BY <1>3 DEF Marks
  <2>8. PICK queue : queue = Popped(q)
    OBVIOUS
  <2>9. QueueInv(queue, nodes, up)
    BY <2>1, <2>3, <2>4, <2>5, <2>6, <2>7, <2>8, Zenon DEF QueueInv
  <2>10. QED BY <2>8, <2>9
<1>15. PICK list0 : list0 = [queue |-> Popped(q), nodes |-> nodes]
  OBVIOUS
<1>16. list0 \in ListState(up, q)
  <2>1. Popped(q) \in Queue
    BY <1>14 DEF QueueInv
  <2>2. Popped(q).nodes = q.nodes
    BY <1>10, <1>13
  <2>3. QED BY <1>3, <1>14, <1>15, <2>1, <2>2 DEF ListState
<1>17. First(q) = a[n] /\ First(q) \in Index
  BY <1>7, <1>10 DEF First
<1>18. PICK line \in Seq(Entry) : line = nodes_line(First(q))
  BY <1>3, <1>17, LineTyped
<1>19. PICK last \in Nat : last = Len(line)
  OBVIOUS
<1>20. PICK s0 \in [1 .. last -> Entry] : s0 = heapsort_nodes(line)
  BY <1>19, SortedNodes
<1>21. PICK list : list = Visited(list0, s0)
  OBVIOUS
<1>22. list \in ListState(up, q)
  BY <1>8, <1>16, <1>21, VisitedKeeps
<1>23. q' = list.queue /\ nodes' = list.nodes /\ perm_index' = up
       /\ perm' = [perm EXCEPT ![n] = a[n]]
  <2>1. list = FoldLeft(Visit, [queue |-> Popped(q), nodes |-> nodes],
                        heapsort_nodes(nodes_line(First(q))))
    BY <1>15, <1>18, <1>20, <1>21 DEF Visited
  <2>2. QED BY <1>1, <1>8, <1>17, <2>1 DEF rcm_pop
<1>24. QueueInv(q', nodes', up) /\ \A k \in 0 .. up - 1 : q'.nodes[k] = q.nodes[k]
  BY <1>22, <1>23 DEF ListState
<1>25. perm' \in [0 .. MAX_SIZE - 1 -> Index]
  BY <1>17, <1>23
<1>26. \A k \in 0 .. up - 1 : perm'[k] = a[k]
  <2> TAKE k \in 0 .. up - 1
  <2>1. k \in 0 .. MAX_SIZE - 1 /\ (k = n \/ k \in 0 .. n - 1)
    BY <1>5, <1>7, <1>8
  <2>2. CASE k = n
    BY <1>23, <2>1, <2>2
  <2>3. CASE k \in 0 .. n - 1
    <3>1. k # n /\ perm[k] = a[k]
      BY <1>2, <1>10, <2>3
    <3>2. QED BY <1>23, <2>1, <3>1
  <2>4. QED BY <2>1, <2>2, <2>3
<1>27. QED BY <1>10, <1>23, <1>24, <1>25, <1>26 DEF OrderInv

LEMMA ReverseKeeps ==
  ASSUME OrderInv, rcm_reverse, perm \in [0 .. MAX_SIZE - 1 -> Index]
  PROVE  Permutation(perm') /\ perm' \in [0 .. MAX_SIZE - 1 -> Index]
<1>1. QueueInv(q, nodes, N) /\ \A k \in 0 .. N - 1 : perm[k] = q.nodes[k]
  BY DEF OrderInv, rcm_reverse
<1>2. q.size = 0
  BY DEF rcm_reverse, is_empty
<1>3. N \in Nat /\ N <= MAX_SIZE /\ MAX_SIZE \in Nat
  BY Sizes
<1>4. \A k, m \in 0 .. N - 1 : q.nodes[k] = q.nodes[m] => k = m
  <2>1. \A k, m \in 0 .. N + q.size - 1 : q.nodes[k] = q.nodes[m] => k = m
    BY <1>1, <1>3, QueueIs
  <2>2. N + q.size - 1 = N - 1
    BY <1>2, <1>3
  <2>3. QED BY <2>1, <2>2
<1>5. \A i \in Index : N - 1 - i \in 0 .. N - 1 /\ N - 1 - i \in 0 .. MAX_SIZE - 1
                       /\ i \in 0 .. MAX_SIZE - 1 /\ i < N
  BY <1>3 DEF Index
<1>6. perm' = [i \in 0 .. MAX_SIZE - 1 |-> IF i < N THEN perm[N - 1 - i] ELSE perm[i]]
  BY DEF rcm_reverse
<1>7. \A i \in Index : perm'[i] = perm[N - 1 - i]
  BY <1>5, <1>6
<1>8. perm' \in [0 .. MAX_SIZE - 1 -> Index]
  <2>1. \A i \in 0 .. MAX_SIZE - 1 : i < N => N - 1 - i \in 0 .. MAX_SIZE - 1
    BY <1>3
  <2>2. QED BY <1>6, <2>1
<1>9. Permutation(perm')
  <2>1. ASSUME NEW i \in Index, NEW k \in Index, perm'[i] = perm'[k] PROVE i = k
    <3>1. q.nodes[N - 1 - i] = q.nodes[N - 1 - k]
      BY <1>1, <1>5, <1>7, <2>1
    <3>2. N - 1 - i = N - 1 - k
      BY <1>4, <1>5, <3>1
    <3>3. QED BY <1>3, <3>2, Sizes
  <2>2. QED BY <2>1 DEF Permutation
<1>10. QED BY <1>8, <1>9

----------------------------------------------------------------------------
(* An element that comes into the factor *)

LEMMA FactorFrom ==
  ASSUME NEW m, Sorted(m), LastIsLast(m), ~m.overrun,
         \A a, col \in Index : Holds(m, a, col) => get_element(m, a, col) # 0 /\ col <= a
  PROVE  Factor(m)
<1>1. ASSUME NEW a \in Index, NEW k \in Row(m, a)
      PROVE  m.data[k] # 0 /\ m.col_idx[k] <= a
  <2>1. k \in 0 .. Count(m) - 1
    BY RowIs
  <2>2. PICK col \in Index : col = m.col_idx[k]
    BY <2>1, Entries
  <2>3. Holds(m, a, col) /\ get_element(m, a, col) = m.data[k]
    BY <2>2, HoldsIff, ReadIs
  <2>4. QED BY <2>2, <2>3
<1>2. QED BY <1>1 DEF Factor

(* r is m with an element more.                                            *)
With(m, r, i, u, value) ==
  /\ Factor(r) /\ r.max_line > 0
  /\ \A a, col \in Index :
       get_element(r, a, col) = IF a = i /\ col = u THEN value ELSE get_element(m, a, col)

LEMMA GrownIsWith ==
  ASSUME NEW m, Factor(m), NEW i \in Index, NEW u \in Index, u <= i, NEW value \in Int,
         value # 0, NEW r, Sorted(r), LastIsLast(r), ~r.overrun, Grown(m, r, i, u, value),
         \A a, col \in Index :
           get_element(r, a, col) = IF a = i /\ col = u THEN value ELSE get_element(m, a, col)
  PROVE  With(m, r, i, u, value)
<1>1. ASSUME NEW a \in Index, NEW col \in Index, Holds(r, a, col)
      PROVE  get_element(r, a, col) # 0 /\ col <= a
  <2>1. Holds(m, a, col) \/ (a = i /\ col = u)
    BY <1>1 DEF Grown
  <2>2. Holds(m, a, col) => get_element(m, a, col) # 0 /\ col <= a
    BY FactorHolds
  <2>3. QED BY <2>1, <2>2
<1>2. Factor(r)
  BY <1>1, FactorFrom
<1>3. r.max_line > 0
  BY DEF Grown
<1>4. QED BY <1>2, <1>3 DEF With

LEMMA InsertsDiagonal ==
  ASSUME NEW m, Factor(m), NEW i \in Index, NEW value \in Int, value # 0,
         Count(m) < MAX_SIZE_SP_MAT
  PROVE  With(m, insert_element(m, i, i, value), i, i, value)
<1>1. PICK r : r = insert_element(m, i, i, value)
  OBVIOUS
<1>2. Sorted(m) /\ LastIsLast(m) /\ ~m.overrun
  BY DEF Factor
<1>3. /\ Sorted(r) /\ LastIsLast(r)
      /\ ~r.overrun => \A a, col \in Index : get_element(r, a, col) =
           IF value # 0 /\ a = i /\ col = i THEN value ELSE get_element(m, a, col)
      /\ Grown(m, r, i, i, value)
  BY <1>1, <1>2, InsertResult
<1>4. ~r.overrun
  <2>1. Count(m) \in Nat /\ MAX_SIZE_SP_MAT \in Nat
    BY <1>2, Entries, Sizes
  <2>2. QED BY <1>2, <1>3, <2>1 DEF Grown
<1>5. i <= i
  BY Sizes
<1>6. \A a, col \in Index :
        get_element(r, a, col) = IF a = i /\ col = i THEN value ELSE get_element(m, a, col)
  BY <1>3, <1>4
<1>7. With(m, r, i, i, value)
  BY <1>3, <1>4, <1>5, <1>6, GrownIsWith
<1>8. QED BY <1>1, <1>7

LEMMA LinksElement ==
  ASSUME NEW m, Factor(m), m.max_line > 0, NEW i \in Index, NEW u \in Index, u <= i,
         NEW value \in Int, value # 0, get_element(m, i, u) = 0,
         Count(m) < MAX_SIZE_SP_MAT
  PROVE  With(m, Linked(ArraysWritten(m, i, u, value), i, u), i, u, value)
<1>1. PICK r : r = Linked(ArraysWritten(m, i, u, value), i, u)
  OBVIOUS
<1>2. Sorted(m) /\ LastIsLast(m) /\ ~m.overrun
  BY DEF Factor
<1>3. PICK at \in Nat : Inserted(m, r, i, u, value, at)
  <2>1. ~Holds(m, i, u)
    BY FactorHolds
  <2>2. CASE i * N + u <= m.max_order
    BY <1>1, <1>2, <2>1, <2>2, InsertInside
  <2>3. CASE ~(i * N + u <= m.max_order)
    <3>1. Started(m) = m
      BY DEF Started, Factor, Sorted, CsrMatrix
    <3>2. Inserted(m, Linked(ArraysWritten(Started(m), i, u, value), i, u), i, u, value, Count(m))
      BY <1>2, <2>3, <3>1, InsertLast
    <3>3. Count(m) \in Nat
      BY <1>2, Entries
    <3>4. QED BY <1>1, <3>1, <3>2, <3>3
  <2>4. QED BY <2>2, <2>3
<1>4. Sorted(r) /\ LastIsLast(r)
  BY <1>2, <1>3, InsertedSorted
<1>5. Grown(m, r, i, u, value)
  BY <1>2, <1>3, InsertedGrows
<1>6. ~r.overrun
  BY <1>2, <1>3 DEF Inserted
<1>7. \A a, col \in Index :
        get_element(r, a, col) = IF a = i /\ col = u THEN value ELSE get_element(m, a, col)
  BY <1>2, <1>3, InsertedReads
<1>8. With(m, r, i, u, value)
  BY <1>4, <1>5, <1>6, <1>7, GrownIsWith
<1>9. QED BY <1>1, <1>8

(* A matrix that grows in column u and not before it.                      *)
LEMMA ElementStays ==
  ASSUME NEW m, NEW r, NEW u \in Index, NEW i \in Index, NEW k \in Index, k <= u, NEW h, NEW p,
         \A a, col \in Index : col < u => get_element(r, a, col) = get_element(m, a, col)
  PROVE  CholeskyElement(r, h, p, i, k) = CholeskyElement(m, h, p, i, k)
<1>1. \A c \in 0 .. k - 1 : c \in Index /\ c < u
  BY Sizes DEF Index
<1>2. \A c \in 0 .. k - 1 : get_element(r, i, c) = get_element(m, i, c)
                            /\ get_element(r, k, c) = get_element(m, k, c)
  BY <1>1
<1>3. {c \in 0 .. k - 1 : get_element(r, i, c) # 0 /\ get_element(r, k, c) # 0}
        = {c \in 0 .. k - 1 : get_element(m, i, c) # 0 /\ get_element(m, k, c) # 0}
  BY <1>2
<1>4. QED BY <1>3 DEF CholeskyElement

LEMMA PartStays ==
  ASSUME NEW m, NEW r, NEW h, NEW p, NEW i \in Index, NEW u \in Index, NEW value,
         FactorUpTo(m, h, p, u), With(m, r, i, u, value)
  PROVE  /\ FactorUpTo(r, h, p, u)
         /\ \A a \in Index : CholeskyElement(r, h, p, a, u) = CholeskyElement(m, h, p, a, u)
<1>1. /\ Factor(r) /\ r.max_line > 0
      /\ \A a, col \in Index :
           get_element(r, a, col) = IF a = i /\ col = u THEN value ELSE get_element(m, a, col)
  BY DEF With
<1>2. \A x \in Index : x \in Nat /\ x < N
  BY Sizes
<1>3. \A a, col \in Index : col < u => get_element(r, a, col) = get_element(m, a, col)
  BY <1>1, <1>2
<1>4. \A a \in Index : CholeskyElement(r, h, p, a, u) = CholeskyElement(m, h, p, a, u)
  BY <1>2, <1>3, ElementStays
<1>5. ASSUME NEW c \in 0 .. u - 1 PROVE ColumnDone(r, h, p, c)
  <2>1. ColumnDone(m, h, p, c)
    BY <1>5 DEF FactorUpTo
  <2>2. c \in Index /\ c < u /\ c <= u
    BY <1>2, <1>5, Sizes DEF Index
  <2>3. ASSUME NEW a \in c .. N - 1
        PROVE  get_element(r, a, c) = CholeskyElement(r, h, p, a, c)
    <3>1. a \in Index
      BY <1>2, <2>2, <2>3, Sizes DEF Index
    <3>2. get_element(r, a, c) = get_element(m, a, c)
      BY <1>3, <2>2, <3>1
    <3>3. CholeskyElement(r, h, p, a, c) = CholeskyElement(m, h, p, a, c)
      BY <1>3, <2>2, <3>1, ElementStays
    <3>4. QED BY <2>1, <2>3, <3>2, <3>3 DEF ColumnDone
  <2>4. QED BY <2>3 DEF ColumnDone
<1>6. ASSUME NEW c \in u + 1 .. N - 1, NEW a \in Index PROVE get_element(r, a, c) = 0
  <2>1. c \in Index /\ c # u
    BY <1>2 DEF Index
  <2>2. get_element(m, a, c) = 0
    BY <1>6 DEF FactorUpTo
  <2>3. QED BY <1>1, <2>1, <2>2
<1>7. FactorUpTo(r, h, p, u)
  BY <1>1, <1>5, <1>6 DEF FactorUpTo
<1>8. QED BY <1>4, <1>7

----------------------------------------------------------------------------
(* The rows of a core *)

(* RowsInv, for the pending elements from the given place on.              *)
RowsFrom(own, rows, new, first, f, w) ==
  /\ rows \subseteq own
  /\ \A i \in rows : f[i] = 0
  /\ \A x \in DOMAIN new :
       /\ new[x][1] \in own \ rows
       /\ new[x][2] # 0 /\ new[x][2] = w[new[x][1]]
  /\ \A x, y \in DOMAIN new : new[x][1] = new[y][1] => x = y
  /\ \A x \in first .. Len(new) : f[new[x][1]] = 0
  /\ \A i \in own : \/ i \in rows
                    \/ \E x \in first .. Len(new) : new[x][1] = i
                    \/ f[i] = w[i]

LEMMA RowsInvIs ==
  ASSUME NEW own, NEW state, NEW f, NEW w
  PROVE  /\ state.pc = "link" =>
              (RowsInv(own, state, f, w) <=> RowsFrom(own, state.rows, state.new, 2, f, w))
         /\ state.pc # "link" =>
              (RowsInv(own, state, f, w) <=> RowsFrom(own, state.rows, state.new, 1, f, w))
<1>1. CASE state.pc = "link"
  BY <1>1, Zenon DEF RowsInv, RowsFrom
<1>2. CASE state.pc # "link"
  BY <1>2, Zenon DEF RowsInv, RowsFrom
<1>3. QED BY <1>1, <1>2

LEMMA ListIs ==
  ASSUME NEW new \in NewElements
  PROVE  /\ Len(new) \in Nat /\ DOMAIN new = 1 .. Len(new)
         /\ \A x \in 1 .. Len(new) : new[x][1] \in Index /\ new[x][2] \in Int
<1>1. Len(new) \in Nat /\ DOMAIN new = 1 .. Len(new)
  BY DEF NewElements
<1>2. ASSUME NEW x \in 1 .. Len(new) PROVE new[x][1] \in Index /\ new[x][2] \in Int
  <2>1. new[x] \in Index \X Int
    BY <1>1, <1>2 DEF NewElements
  <2>2. QED BY <2>1
<1>3. QED BY <1>1, <1>2

LEMMA RowsAgree ==
  ASSUME NEW own, NEW rows, NEW new \in NewElements, NEW first \in 1 .. 2, NEW f, NEW w,
         RowsFrom(own, rows, new, first, f, w), NEW g, \A i \in own : g[i] = f[i]
  PROVE  RowsFrom(own, rows, new, first, g, w)
<1>1. PICK last \in Nat : last = Len(new) /\ DOMAIN new = 1 .. last
  BY ListIs
<1>2. /\ rows \subseteq own
      /\ \A i \in rows : f[i] = 0
      /\ \A x \in DOMAIN new :
           /\ new[x][1] \in own \ rows
           /\ new[x][2] # 0 /\ new[x][2] = w[new[x][1]]
      /\ \A x, y \in DOMAIN new : new[x][1] = new[y][1] => x = y
      /\ \A x \in first .. last : f[new[x][1]] = 0
      /\ \A i \in own : \/ i \in rows
                        \/ \E x \in first .. last : new[x][1] = i
                        \/ f[i] = w[i]
  BY <1>1 DEF RowsFrom
<1>3. \A i \in rows : g[i] = 0
  BY <1>2
<1>4. \A x \in first .. last : g[new[x][1]] = 0
  <2>1. \A x \in first .. last : x \in DOMAIN new
    BY <1>1
  <2>2. QED BY <1>2, <2>1
<1>5. \A i \in own : \/ i \in rows
                     \/ \E x \in first .. last : new[x][1] = i
                     \/ g[i] = w[i]
  BY <1>2
<1>6. QED BY <1>1, <1>2, <1>3, <1>4, <1>5 DEF RowsFrom

LEMMA RowsBegin ==
  ASSUME NEW own, NEW f, NEW w, \A i \in own : f[i] = 0
  PROVE  RowsFrom(own, own, <<>>, 1, f, w)
BY DEF RowsFrom

(* A core that has no rows and no new elements left has done its own.      *)
LEMMA RowsEnd ==
  ASSUME NEW own, NEW f, NEW w, RowsFrom(own, {}, <<>>, 1, f, w)
  PROVE  \A i \in own : f[i] = w[i]
BY DEF RowsFrom

LEMMA RowComputed ==
  ASSUME NEW own \in SUBSET Index, NEW rows, NEW new \in NewElements, NEW f, NEW w,
         RowsFrom(own, rows, new, 1, f, w), NEW i \in rows, w[i] \in Int
  PROVE  /\ w[i] = 0 => RowsFrom(own, rows \ {i}, new, 1, f, w)
         /\ w[i] # 0 => RowsFrom(own, rows \ {i}, Append(new, <<i, w[i]>>), 1, f, w)
<1>1. PICK last \in Nat : last = Len(new) /\ DOMAIN new = 1 .. last
  BY ListIs
<1>2. /\ rows \subseteq own
      /\ \A k \in rows : f[k] = 0
      /\ \A x \in 1 .. last :
           /\ new[x][1] \in own \ rows
           /\ new[x][2] # 0 /\ new[x][2] = w[new[x][1]]
      /\ \A x, y \in 1 .. last : new[x][1] = new[y][1] => x = y
      /\ \A x \in 1 .. last : f[new[x][1]] = 0
      /\ \A k \in own : \/ k \in rows
                        \/ \E x \in 1 .. last : new[x][1] = k
                        \/ f[k] = w[k]
  BY <1>1 DEF RowsFrom
<1>3. CASE w[i] = 0
  <2>1. \A k \in own : \/ k \in rows \ {i}
                       \/ \E x \in 1 .. last : new[x][1] = k
                       \/ f[k] = w[k]
    BY <1>2, <1>3
  <2>2. /\ rows \ {i} \subseteq own
        /\ \A k \in rows \ {i} : f[k] = 0
        /\ \A x \in 1 .. last :
             /\ new[x][1] \in own \ (rows \ {i})
             /\ new[x][2] # 0 /\ new[x][2] = w[new[x][1]]
    BY <1>2
  <2>3. QED BY <1>1, <1>2, <1>3, <2>1, <2>2 DEF RowsFrom
<1>4. CASE w[i] # 0
  <2>1. PICK more : more = Append(new, <<i, w[i]>>)
    OBVIOUS
  <2>2. PICK next \in Nat : next = last + 1
    OBVIOUS
  <2>3. i \in Index
    BY <1>2
  <2>4. /\ Len(more) = next /\ DOMAIN more = 1 .. next
        /\ \A x \in 1 .. last : more[x] = new[x]
        /\ more[next] = <<i, w[i]>>
    BY <1>1, <2>1, <2>2, <2>3 DEF NewElements
  <2>5. more[next][1] = i /\ more[next][2] = w[i]
    BY <2>4
  <2>6. \A x \in 1 .. next : x = next \/ x \in 1 .. last
    BY <2>2
  <2>7. \A x \in 1 .. last : x \in 1 .. next
    BY <2>2
  <2>8. /\ rows \ {i} \subseteq own
        /\ \A k \in rows \ {i} : f[k] = 0
    BY <1>2
  <2>9. \A x \in 1 .. next :
          /\ more[x][1] \in own \ (rows \ {i})
          /\ more[x][2] # 0 /\ more[x][2] = w[more[x][1]]
    BY <1>2, <1>4, <2>4, <2>5, <2>6
  <2>10. ASSUME NEW x \in 1 .. next, NEW y \in 1 .. next, more[x][1] = more[y][1]
         PROVE  x = y
    <3>1. CASE x \in 1 .. last /\ y \in 1 .. last
      BY <1>2, <2>4, <2>10, <3>1
    <3>2. CASE x \in 1 .. last /\ y = next
      BY <1>2, <2>4, <2>5, <2>10, <3>2
    <3>3. CASE x = next /\ y \in 1 .. last
      BY <1>2, <2>4, <2>5, <2>10, <3>3
    <3>4. QED BY <2>6, <3>1, <3>2, <3>3
  <2>11. \A x \in 1 .. next : f[more[x][1]] = 0
    BY <1>2, <2>4, <2>5, <2>6
  <2>12. ASSUME NEW k \in own
         PROVE  \/ k \in rows \ {i}
                \/ \E x \in 1 .. next : more[x][1] = k
                \/ f[k] = w[k]
    <3>1. CASE k = i
      <4>1. next \in 1 .. next
        BY <2>2
      <4>2. QED BY <2>5, <3>1, <4>1
    <3>2. CASE k # i
      BY <1>2, <2>4, <2>7, <3>2
    <3>3. QED BY <3>1, <3>2
  <2>13. RowsFrom(own, rows \ {i}, more, 1, f, w)
    BY <2>4, <2>8, <2>9, <2>10, <2>11, <2>12 DEF RowsFrom
  <2>14. QED BY <1>4, <2>1, <2>13
<1>5. QED BY <1>3, <1>4

(* The first of the new elements comes into the factor.                    *)
LEMMA RowInserted ==
  ASSUME NEW own, NEW rows, NEW new \in NewElements, new # <<>>, NEW f, NEW w,
         RowsFrom(own, rows, new, 1, f, w), NEW g, g[new[1][1]] = new[1][2],
         \A i \in own : i # new[1][1] => g[i] = f[i]
  PROVE  RowsFrom(own, rows, new, 2, g, w)
<1>1. PICK last \in Nat : last = Len(new) /\ DOMAIN new = 1 .. last
  BY ListIs
<1>2. /\ rows \subseteq own
      /\ \A k \in rows : f[k] = 0
      /\ \A x \in 1 .. last :
           /\ new[x][1] \in own \ rows
           /\ new[x][2] # 0 /\ new[x][2] = w[new[x][1]]
      /\ \A x, y \in 1 .. last : new[x][1] = new[y][1] => x = y
      /\ \A x \in 1 .. last : f[new[x][1]] = 0
      /\ \A k \in own : \/ k \in rows
                        \/ \E x \in 1 .. last : new[x][1] = k
                        \/ f[k] = w[k]
  BY <1>1 DEF RowsFrom
<1>3. last > 0 /\ 1 \in 1 .. last
  <2>1. last # 0
    BY <1>1 DEF NewElements
  <2>2. QED BY <2>1
<1>4. \A x \in 1 .. last : x = 1 \/ x \in 2 .. last
  OBVIOUS
<1>5. \A x \in 2 .. last : x \in 1 .. last /\ x # 1 /\ new[x][1] # new[1][1]
  BY <1>2, <1>3
<1>6. \A k \in rows : g[k] = 0
  BY <1>2, <1>3
<1>7. \A x \in 2 .. last : g[new[x][1]] = 0
  BY <1>2, <1>5
<1>8. ASSUME NEW k \in own
      PROVE  \/ k \in rows
             \/ \E x \in 2 .. last : new[x][1] = k
             \/ g[k] = w[k]
  <2>1. CASE k = new[1][1]
    BY <1>2, <1>3, <2>1
  <2>2. CASE k # new[1][1]
    BY <1>2, <1>4, <2>2
  <2>3. QED BY <2>1, <2>2
<1>9. QED BY <1>1, <1>2, <1>6, <1>7, <1>8 DEF RowsFrom

LEMMA TailIs ==
  ASSUME NEW new \in NewElements, new # <<>>
  PROVE  /\ Tail(new) \in NewElements /\ Len(Tail(new)) = Len(new) - 1
         /\ Len(new) - 1 \in Nat
         /\ \A x \in 1 .. Len(new) - 1 : Tail(new)[x] = new[x + 1]
BY DEF NewElements

(* It is linked, and the core goes on to the next.                         *)
LEMMA RowLinked ==
  ASSUME NEW own, NEW rows, NEW new \in NewElements, new # <<>>, NEW f, NEW w,
         RowsFrom(own, rows, new, 2, f, w)
  PROVE  RowsFrom(own, rows, Tail(new), 1, f, w)
<1>1. PICK last \in Nat : last = Len(new) /\ DOMAIN new = 1 .. last
  BY ListIs
<1>2. /\ rows \subseteq own
      /\ \A k \in rows : f[k] = 0
      /\ \A x \in 1 .. last :
           /\ new[x][1] \in own \ rows
           /\ new[x][2] # 0 /\ new[x][2] = w[new[x][1]]
      /\ \A x, y \in 1 .. last : new[x][1] = new[y][1] => x = y
      /\ \A x \in 2 .. last : f[new[x][1]] = 0
      /\ \A k \in own : \/ k \in rows
                        \/ \E x \in 2 .. last : new[x][1] = k
                        \/ f[k] = w[k]
  BY <1>1 DEF RowsFrom
<1>3. PICK less \in NewElements : less = Tail(new)
  BY TailIs
<1>4. PICK left \in Nat : left = last - 1
  BY <1>1, TailIs
<1>5. Len(less) = left /\ DOMAIN less = 1 .. left
      /\ \A x \in 1 .. left : less[x] = new[x + 1] /\ x + 1 \in 2 .. last /\ x + 1 \in 1 .. last
  BY <1>1, <1>3, <1>4, TailIs, ListIs
<1>6. \A x \in 2 .. last : \E y \in 1 .. left : x = y + 1
  <2> TAKE x \in 2 .. last
  <2>1. x - 1 \in 1 .. left /\ x = (x - 1) + 1
    BY <1>4
  <2>2. QED BY <2>1
<1>7. \A x \in 1 .. left :
        /\ less[x][1] \in own \ rows
        /\ less[x][2] # 0 /\ less[x][2] = w[less[x][1]]
        /\ f[less[x][1]] = 0
  BY <1>2, <1>5
<1>8. ASSUME NEW x \in 1 .. left, NEW y \in 1 .. left, less[x][1] = less[y][1]
      PROVE  x = y
  <2>1. x + 1 = y + 1
    BY <1>2, <1>5, <1>8
  <2>2. QED BY <2>1
<1>9. \A k \in own : \/ k \in rows
                     \/ \E x \in 1 .. left : less[x][1] = k
                     \/ f[k] = w[k]
  <2> TAKE k \in own
  <2>1. CASE \E x \in 2 .. last : new[x][1] = k
    <3>1. PICK x \in 2 .. last : new[x][1] = k
      BY <2>1
    <3>2. PICK y \in 1 .. left : x = y + 1
      BY <1>6
    <3>3. less[y] = new[x]
      BY <1>5, <3>2
    <3>4. QED BY <3>1, <3>3
  <2>2. QED BY <1>2, <2>1
<1>10. RowsFrom(own, rows, less, 1, f, w)
  BY <1>2, <1>5, <1>7, <1>8, <1>9 DEF RowsFrom
<1>11. QED BY <1>3, <1>10

----------------------------------------------------------------------------
(* The steps of the cores while they add up *)

CoresTyped == core \in [Core -> CoreState]

LEMMA CoreGoes ==
  ASSUME CoresTyped, NEW c \in Core, NEW state \in CoreState,
         core' = [core EXCEPT ![c] = state]
  PROVE  /\ CoresTyped' /\ core'[c] = state
         /\ \A d \in Core : d # c => core'[d] = core[d]
BY DEF CoresTyped

(* Where a core can be.                                                    *)
PcOf == {"idle", "sum", "enter_sum", "add", "summed", "rows", "computed", "enter", "insert",
         "link", "inserted"}

StateOf(p, s0, r, n) == [pc |-> p, sum |-> s0, rows |-> r, new |-> n]

LEMMA StateTyped ==
  ASSUME NEW p \in PcOf, NEW s0 \in Nat, NEW r \in SUBSET Index, NEW n \in NewElements
  PROVE  StateOf(p, s0, r, n) \in CoreState
BY DEF CoreState, PcOf, StateOf

(* A core goes on, with a new sum, with other rows and new elements, or    *)
(* with other new elements.                                                *)
WithPc(old, p2) == [old EXCEPT !.pc = p2]
WithPcSum(old, p2, s2) == [old EXCEPT !.pc = p2, !.sum = s2]
WithPcRowsNew(old, p2, r2, n2) == [old EXCEPT !.pc = p2, !.rows = r2, !.new = n2]
WithNewPc(old, n2, p2) == [old EXCEPT !.new = n2, !.pc = p2]

LEMMA PcSet ==
  ASSUME NEW p, NEW s0, NEW r, NEW n, NEW old, old = StateOf(p, s0, r, n), NEW p2
  PROVE  WithPc(old, p2) = StateOf(p2, s0, r, n)
BY DEF StateOf, WithPc

LEMMA PcSumSet ==
  ASSUME NEW p, NEW s0, NEW r, NEW n, NEW old, old = StateOf(p, s0, r, n), NEW p2, NEW s2
  PROVE  WithPcSum(old, p2, s2) = StateOf(p2, s2, r, n)
<1>1. [old EXCEPT !.pc = p2, !.sum = s2] = [[old EXCEPT !.pc = p2] EXCEPT !.sum = s2]
  OBVIOUS
<1>2. PICK mid : mid = [old EXCEPT !.pc = p2]
  OBVIOUS
<1>3. mid = StateOf(p2, s0, r, n)
  BY <1>2, PcSet DEF WithPc
<1>4. [mid EXCEPT !.sum = s2] = StateOf(p2, s2, r, n)
  BY ONLY <1>3 DEF StateOf
<1>5. QED BY <1>1, <1>2, <1>4 DEF WithPcSum

LEMMA PcRowsNewSet ==
  ASSUME NEW p, NEW s0, NEW r, NEW n, NEW old, old = StateOf(p, s0, r, n), NEW p2, NEW r2, NEW n2
  PROVE  WithPcRowsNew(old, p2, r2, n2) = StateOf(p2, s0, r2, n2)
<1>1. [old EXCEPT !.pc = p2, !.rows = r2, !.new = n2]
        = [[[old EXCEPT !.pc = p2] EXCEPT !.rows = r2] EXCEPT !.new = n2]
  OBVIOUS
<1>2. PICK mid : mid = [old EXCEPT !.pc = p2]
  OBVIOUS
<1>3. mid = StateOf(p2, s0, r, n)
  BY <1>2, PcSet DEF WithPc
<1>4. PICK mid2 : mid2 = [mid EXCEPT !.rows = r2]
  OBVIOUS
<1>5. mid2 = StateOf(p2, s0, r2, n)
  BY ONLY <1>3, <1>4 DEF StateOf
<1>6. [mid2 EXCEPT !.new = n2] = StateOf(p2, s0, r2, n2)
  BY ONLY <1>5 DEF StateOf
<1>7. QED BY <1>1, <1>2, <1>4, <1>6 DEF WithPcRowsNew

LEMMA NewPcSet ==
  ASSUME NEW p, NEW s0, NEW r, NEW n, NEW old, old = StateOf(p, s0, r, n), NEW p2, NEW n2
  PROVE  WithNewPc(old, n2, p2) = StateOf(p2, s0, r, n2)
<1>1. [old EXCEPT !.new = n2, !.pc = p2] = [[old EXCEPT !.new = n2] EXCEPT !.pc = p2]
  OBVIOUS
<1>2. PICK mid : mid = [old EXCEPT !.new = n2]
  OBVIOUS
<1>3. mid = StateOf(p, s0, r, n2)
  BY <1>2 DEF StateOf
<1>4. [mid EXCEPT !.pc = p2] = StateOf(p2, s0, r, n2)
  BY <1>3, PcSet DEF WithPc
<1>5. QED BY <1>1, <1>2, <1>4 DEF WithNewPc

LEMMA FieldsOf ==
  ASSUME NEW p, NEW s0, NEW r, NEW n
  PROVE  /\ StateOf(p, s0, r, n).pc = p /\ StateOf(p, s0, r, n).sum = s0
         /\ StateOf(p, s0, r, n).rows = r /\ StateOf(p, s0, r, n).new = n
BY DEF StateOf

LEMMA StateHas ==
  ASSUME NEW old \in CoreState
  PROVE  \E p \in PcOf, s0 \in Nat, r \in SUBSET Index, n \in NewElements : old = StateOf(p, s0, r, n)
BY DEF CoreState, PcOf, StateOf

LEMMA StateIs ==
  ASSUME CoresTyped, NEW c \in Core
  PROVE  /\ core[c] \in CoreState
         /\ \E s0 \in Nat, r \in SUBSET Index, n \in NewElements :
              core[c] = StateOf(core[c].pc, s0, r, n) /\ core[c].sum = s0
<1>1. core[c] \in CoreState
  BY DEF CoresTyped
<1>2. PICK p \in PcOf, s0 \in Nat, r \in SUBSET Index, n \in NewElements :
        core[c] = StateOf(p, s0, r, n)
  BY <1>1, StateHas
<1>3. core[c].pc = p /\ core[c].sum = s0
  BY <1>2, FieldsOf
<1>4. QED BY <1>1, <1>2, <1>3

(* While nobody links, the factor is complete.                             *)
LEMMA SumComplete ==
  ASSUME SumInv
  PROVE  Complete = L_L1 /\ ~ColumnInv
<1>1. \A c \in Core : core[c].pc \in {"sum", "enter_sum", "add", "summed"}
  BY DEF SumInv, AllAt
<1>2. At("link") = {}
  BY <1>1 DEF At
<1>3. 0 \in Core
  BY CoresAssumption DEF Core
<1>4. ~ColumnInv
  BY <1>1, <1>3 DEF ColumnInv, AllAt
<1>5. QED BY <1>2, <1>4 DEF Complete

Summing(c, state) ==
  /\ L_L1' = L_L1 /\ H_L1' = H_L1 /\ j' = j /\ perm' = perm
  /\ core' = [core EXCEPT ![c] = state]
  /\ state \in CoreState /\ state.pc \in {"sum", "enter_sum", "add", "summed"}

LEMMA SummingKeeps ==
  ASSUME CoresTyped, TeamInv, SumInv, NEW c \in Core, NEW state, Summing(c, state), SumInv'
  PROVE  TeamInv' /\ CoresTyped'
<1>1. CoresTyped' /\ core'[c] = state
      /\ \A d \in Core : d # c => core'[d] = core[d]
  BY CoreGoes DEF Summing
<1>2. Complete = L_L1
  BY SumComplete
<1>3. Complete' = L_L1'
  <2>1. \A d \in Core : core'[d].pc \in {"sum", "enter_sum", "add", "summed"}
    BY DEF SumInv, AllAt
  <2>2. At("link")' = {}
    BY <2>1 DEF At
  <2>3. QED BY <2>2 DEF Complete
<1>4. Complete' = Complete /\ H_L1' = H_L1 /\ perm' = perm /\ j' = j
  BY <1>2, <1>3 DEF Summing
<1>5. QED BY <1>1, <1>4 DEF TeamInv

LEMMA SumShareKeeps ==
  ASSUME CoresTyped, TeamInv, NEW c \in Core, SumShare(c), perm' = perm
  PROVE  TeamInv' /\ CoresTyped'
<1>1. core[c].pc = "sum"
  BY DEF SumShare
<1>2. SumInv
  BY <1>1 DEF TeamInv, ColumnInv, AllAt
<1>3. PICK sum \in Nat : sum = SumOf(Squared(L_L1, c, j))
  BY SumIs
<1>4. PICK sum0 \in Nat, rows \in SUBSET Index, new \in NewElements :
        core[c] = StateOf(core[c].pc, sum0, rows, new)
  BY StateIs
<1>5. PICK state : state = StateOf("enter_sum", sum, rows, new)
  OBVIOUS
<1>6. state \in CoreState /\ state.pc = "enter_sum" /\ state.sum = sum
  <2>1. "enter_sum" \in PcOf
    BY DEF PcOf
  <2>2. QED BY <1>5, <2>1, StateTyped, FieldsOf
<1>7. core' = [core EXCEPT ![c] = state]
  <2>1. PICK old : old = core[c]
    OBVIOUS
  <2>2. core' = [core EXCEPT ![c] = WithPcSum(old, "enter_sum", sum)]
    BY <1>3, <2>1 DEF SumShare, Squared, WithPcSum
  <2>3. PICK pc0 : pc0 = core[c].pc
    OBVIOUS
  <2>4. old = StateOf(pc0, sum0, rows, new)
    BY <1>4, <2>1, <2>3
  <2>5. \A p2, s2 : WithPcSum(old, p2, s2) = StateOf(p2, s2, rows, new)
    BY <2>4, PcSumSet
  <2>6. QED BY <1>5, <2>2, <2>5
<1>8. Summing(c, state) /\ sum_global' = sum_global
  BY <1>6, <1>7 DEF SumShare, Summing
<1>9. core'[c] = state /\ \A d \in Core : d # c => core'[d] = core[d]
  BY <1>6, <1>7, CoreGoes
<1>10. SumInv'
  <2>1. AllAt({"sum", "enter_sum", "add", "summed"})'
    BY <1>2, <1>6, <1>9 DEF SumInv, AllAt
  <2>2. AtMostOne({"add"})'
    BY <1>2, <1>6, <1>9 DEF SumInv, AtMostOne
  <2>3. At("summed")' = At("summed")
    BY <1>1, <1>6, <1>9 DEF At
  <2>4. \A d \in Core :
          /\ core'[d].pc = "enter_sum" => core'[d].sum = SumOf(Squared(L_L1, d, j))
          /\ core'[d].pc = "add" => core'[d].sum = sum_global + SumOf(Squared(L_L1, d, j))
    BY <1>2, <1>3, <1>6, <1>9 DEF SumInv
  <2>5. L_L1' = L_L1 /\ j' = j
    BY <1>8 DEF Summing
  <2>6. QED BY <1>2, <1>8, <2>1, <2>2, <2>3, <2>4, <2>5 DEF SumInv
<1>11. QED BY <1>2, <1>8, <1>10, SummingKeeps

LEMMA EnterSumKeeps ==
  ASSUME CoresTyped, TeamInv, NEW c \in Core, EnterSum(c), perm' = perm
  PROVE  TeamInv' /\ CoresTyped'
<1>1. core[c].pc = "enter_sum" /\ At("add") = {}
  BY DEF EnterSum
<1>2. SumInv
  BY <1>1 DEF TeamInv, ColumnInv, AllAt
<1>3. PICK sum \in Nat : sum = core[c].sum + sum_global
  <2>1. sum_global \in Nat
    BY <1>2, SumIs DEF SumInv
  <2>2. core[c].sum \in Nat
    BY StateIs
  <2>3. QED BY <2>1, <2>2
<1>4. PICK sum0 \in Nat, rows \in SUBSET Index, new \in NewElements :
        core[c] = StateOf(core[c].pc, sum0, rows, new)
  BY StateIs
<1>5. PICK state : state = StateOf("add", sum, rows, new)
  OBVIOUS
<1>6. state \in CoreState /\ state.pc = "add" /\ state.sum = sum
  <2>1. "add" \in PcOf
    BY DEF PcOf
  <2>2. QED BY <1>5, <2>1, StateTyped, FieldsOf
<1>7. core' = [core EXCEPT ![c] = state]
  <2>1. PICK old : old = core[c]
    OBVIOUS
  <2>2. core' = [core EXCEPT ![c] = WithPcSum(old, "add", sum)]
    BY <1>3, <2>1 DEF EnterSum, WithPcSum
  <2>3. PICK pc0 : pc0 = core[c].pc
    OBVIOUS
  <2>4. old = StateOf(pc0, sum0, rows, new)
    BY <1>4, <2>1, <2>3
  <2>5. \A p2, s2 : WithPcSum(old, p2, s2) = StateOf(p2, s2, rows, new)
    BY <2>4, PcSumSet
  <2>6. QED BY <1>5, <2>2, <2>5
<1>8. Summing(c, state) /\ sum_global' = sum_global
  BY <1>6, <1>7 DEF EnterSum, Summing
<1>9. core'[c] = state /\ \A d \in Core : d # c => core'[d] = core[d]
  BY <1>6, <1>7, CoreGoes
<1>10. SumInv'
  <2>1. AllAt({"sum", "enter_sum", "add", "summed"})'
    BY <1>2, <1>6, <1>9 DEF SumInv, AllAt
  <2>2. AtMostOne({"add"})'
    <3>1. \A d \in Core : core[d].pc # "add"
      BY <1>1 DEF At
    <3>2. QED BY <1>9, <3>1 DEF AtMostOne
  <2>3. At("summed")' = At("summed")
    BY <1>1, <1>6, <1>9 DEF At
  <2>4. sum = sum_global + SumOf(Squared(L_L1, c, j))
    <3>1. sum_global \in Nat /\ core[c].sum = SumOf(Squared(L_L1, c, j))
      BY <1>1, <1>2, SumIs DEF SumInv
    <3>2. QED BY <1>3, <3>1, SumIs
  <2>5. \A d \in Core :
          /\ core'[d].pc = "enter_sum" => core'[d].sum = SumOf(Squared(L_L1, d, j))
          /\ core'[d].pc = "add" => core'[d].sum = sum_global + SumOf(Squared(L_L1, d, j))
    BY <1>2, <1>6, <1>9, <2>4 DEF SumInv
  <2>6. L_L1' = L_L1 /\ j' = j
    BY <1>8 DEF Summing
  <2>7. QED BY <1>2, <1>8, <2>1, <2>2, <2>3, <2>5, <2>6 DEF SumInv
<1>11. QED BY <1>2, <1>8, <1>10, SummingKeeps

(* What different cores square are different columns.                      *)
Squares(m, cs, k) == UNION {Squared(m, c, k) : c \in cs}

LEMMA SquaresAre ==
  ASSUME NEW m, NEW cs, NEW k
  PROVE  \A i : i \in Squares(m, cs, k) <=> \E c \in cs : i \in Squared(m, c, k)
BY DEF Squares

LEMMA SquaresApart ==
  ASSUME NEW m, NEW k \in Index, NEW c \in Core, NEW cs \in SUBSET Core, c \notin cs
  PROVE  /\ Squares(m, cs, k) \cap Squared(m, c, k) = {}
         /\ Squares(m, cs \cup {c}, k) = Squares(m, cs, k) \cup Squared(m, c, k)
<1>1. \A d \in Core : Squared(m, d, k) \subseteq Share(d, k)
  BY DEF Squared
<1>2. \A d \in cs : Share(d, k) \cap Share(c, k) = {}
  <2>1. k \in Nat
    BY Sizes
  <2>2. \A d, e \in Core : d # e => Share(d, k) \cap Share(e, k) = {}
    BY <2>1, Shares
  <2>3. QED BY <2>2
<1>3. ASSUME NEW i \in Squares(m, cs, k), i \in Squared(m, c, k) PROVE FALSE
  <2>1. PICK d \in cs : i \in Squared(m, d, k)
    BY <1>3, SquaresAre
  <2>2. i \in Share(d, k) /\ i \in Share(c, k)
    BY <1>1, <1>3, <2>1
  <2>3. QED BY <1>2, <2>2
<1>4. \A i : i \in Squares(m, cs \cup {c}, k)
               <=> i \in Squares(m, cs, k) \/ i \in Squared(m, c, k)
  BY SquaresAre
<1>5. QED BY <1>3, <1>4

LEMMA AddSumKeeps ==
  ASSUME CoresTyped, TeamInv, NEW c \in Core, AddSum(c), perm' = perm
  PROVE  TeamInv' /\ CoresTyped'
<1>1. core[c].pc = "add"
  BY DEF AddSum
<1>2. SumInv /\ j \in Index
  BY <1>1 DEF TeamInv, ColumnInv, AllAt
<1>3. PICK sum \in Nat, rows \in SUBSET Index, new \in NewElements :
        core[c] = StateOf("add", sum, rows, new)
  BY <1>1, StateIs
<1>4. PICK state : state = StateOf("summed", sum, rows, new)
  OBVIOUS
<1>5. state \in CoreState /\ state.pc = "summed"
  <2>1. "summed" \in PcOf
    BY DEF PcOf
  <2>2. QED BY <1>4, <2>1, StateTyped, FieldsOf
<1>6. core' = [core EXCEPT ![c] = state]
  <2>1. PICK old : old = core[c]
    OBVIOUS
  <2>2. core' = [core EXCEPT ![c] = WithPc(old, "summed")]
    BY <2>1 DEF AddSum, WithPc
  <2>3. WithPc(old, "summed") = state
    BY <1>3, <1>4, <2>1, PcSet
  <2>4. QED BY <2>2, <2>3
<1>7. Summing(c, state)
  BY <1>5, <1>6 DEF AddSum, Summing
<1>8. core'[c] = state /\ \A d \in Core : d # c => core'[d] = core[d]
  BY <1>5, <1>6, CoreGoes
<1>9. \A d \in Core : d # c => core[d].pc # "add"
  BY <1>1, <1>2 DEF SumInv, AtMostOne
<1>10. SumInv'
  <2>1. AllAt({"sum", "enter_sum", "add", "summed"})'
    BY <1>2, <1>5, <1>8 DEF SumInv, AllAt
  <2>2. \A d \in Core : core'[d].pc # "add"
    BY <1>5, <1>8, <1>9
  <2>3. AtMostOne({"add"})'
    BY <2>2 DEF AtMostOne
  <2>4. c \notin At("summed") /\ At("summed") \in SUBSET Core
        /\ At("summed")' = At("summed") \cup {c}
    BY <1>1, <1>5, <1>8 DEF At
  <2>5. PICK s0 \in SUBSET Core : s0 = At("summed") /\ c \notin s0
    BY <2>4
  <2>6. sum_global' = SumOf(Squares(L_L1, s0 \cup {c}, j))
    <3>1. /\ Squares(L_L1, s0, j) \cap Squared(L_L1, c, j) = {}
          /\ Squares(L_L1, s0 \cup {c}, j) = Squares(L_L1, s0, j) \cup Squared(L_L1, c, j)
      BY <1>2, <2>5, SquaresApart
    <3>2. sum_global' = sum_global + SumOf(Squared(L_L1, c, j))
      BY <1>1, <1>2 DEF AddSum, SumInv
    <3>3. sum_global = SumOf(Squares(L_L1, s0, j))
      BY <1>2, <2>5 DEF SumInv, Squares
    <3>4. QED BY <3>1, <3>2, <3>3, SumOfBoth
  <2>7. \A d \in Core :
          core'[d].pc = "enter_sum" => core'[d].sum = SumOf(Squared(L_L1, d, j))
    BY <1>2, <1>5, <1>8 DEF SumInv
  <2>8. L_L1' = L_L1 /\ j' = j
    BY <1>7 DEF Summing
  <2>9. \A i \in Index : get_element(L_L1', i, j') = 0
    BY <1>2, <2>8 DEF SumInv
  <2>10. sum_global' = SumOf(Squares(L_L1', At("summed")', j'))
    BY <2>4, <2>5, <2>6, <2>8
  <2>11. QED BY <2>1, <2>2, <2>3, <2>7, <2>8, <2>9, <2>10 DEF SumInv, Squares
<1>11. QED BY <1>2, <1>7, <1>10, SummingKeeps

----------------------------------------------------------------------------
(* The steps of the cores while they compute *)

LEMMA RowsOfAre ==
  ASSUME j \in Index
  PROVE  /\ \A c \in Core : RowsOf(c) \in SUBSET Index /\ \A i \in RowsOf(c) : j < i
         /\ \A i \in j + 1 .. N - 1 : \E c \in Core : i \in RowsOf(c)
         /\ \A c, d \in Core : c # d => RowsOf(c) \cap RowsOf(d) = {}
<1>1. PICK n \in Nat : n = N - j - 1
  BY Sizes DEF Index
<1>2. j \in Nat /\ N \in Nat
  BY Sizes
<1>3. /\ \A c \in Core : Share(c, n) \in SUBSET (0 .. n - 1)
      /\ \A k \in 0 .. n - 1 : \E c \in Core : k \in Share(c, n)
      /\ \A c, d \in Core : c # d => Share(c, n) \cap Share(d, n) = {}
  BY Shares
<1>4. \A c : RowsOf(c) = {j + 1 + k : k \in Share(c, n)}
  BY <1>1 DEF RowsOf
<1>5. ASSUME NEW c \in Core, NEW i \in RowsOf(c)
      PROVE  i \in Index /\ j < i /\ i - j - 1 \in Share(c, n)
  <2>1. PICK k \in Share(c, n) : i = j + 1 + k
    BY <1>4
  <2>2. k \in 0 .. n - 1
    BY <1>3
  <2>3. i - j - 1 = k
    BY <1>2, <2>1, <2>2
  <2>4. QED BY <1>1, <1>2, <2>1, <2>2, <2>3 DEF Index
<1>6. ASSUME NEW i \in j + 1 .. N - 1
      PROVE  \E c \in Core : i \in RowsOf(c)
  <2>1. PICK k \in 0 .. n - 1 : i = j + 1 + k
    <3>1. i - j - 1 \in 0 .. n - 1 /\ i = j + 1 + (i - j - 1)
      BY <1>1, <1>2
    <3>2. QED BY <3>1
  <2>2. PICK c \in Core : k \in Share(c, n)
    BY <1>3
  <2>3. QED BY <1>4, <2>1, <2>2
<1>7. ASSUME NEW c \in Core, NEW d \in Core, c # d PROVE RowsOf(c) \cap RowsOf(d) = {}
  BY <1>3, <1>5, <1>7
<1>8. QED BY <1>5, <1>6, <1>7

(* What is to hold of each core.                                           *)
CoreOk(own, state, f, w) ==
  /\ RowsInv(own, state, f, w)
  /\ state.pc = "rows" <=> state.rows # {}
  /\ state.pc \in {"insert", "link"} => state.new # <<>>
  /\ state.pc = "inserted" => state.new = <<>>

LEMMA CoreIsOk ==
  ASSUME ColumnInv, NEW c \in Core
  PROVE  CoreOk(RowsOf(c), core[c], Present(Complete, j), Wanted(Complete, H_L1, perm, j))
BY DEF ColumnInv, CoreOk

Inserting == {"enter", "insert", "link", "inserted"}

ColumnPlaces == AllAt({"rows", "computed"}) \/ AllAt(Inserting)

(* A core goes on while nobody links, and the factor stays as it is.       *)
LEMMA QuietKeeps ==
  ASSUME CoresTyped, TeamInv, ColumnInv, At("link") = {}, NEW c \in Core,
         NEW state \in CoreState, core' = [core EXCEPT ![c] = state], state.pc # "link",
         L_L1' = L_L1, H_L1' = H_L1, j' = j, perm' = perm,
         ColumnPlaces', AtMostOne({"insert", "link"})',
         CoreOk(RowsOf(c), state, Present(L_L1, j), Wanted(L_L1, H_L1, perm, j))
  PROVE  TeamInv' /\ CoresTyped'
<1>1. CoresTyped' /\ core'[c] = state
      /\ \A d \in Core : d # c => core'[d] = core[d]
  BY CoreGoes
<1>2. Complete = L_L1
  BY DEF Complete
<1>3. At("link")' = {}
  BY <1>1 DEF At
<1>4. Complete' = L_L1'
  BY <1>3 DEF Complete
<1>5. \A d : RowsOf(d)' = RowsOf(d)
  BY DEF RowsOf
<1>6. ASSUME NEW d \in Core
      PROVE  CoreOk(RowsOf(d)', core'[d], Present(Complete', j'), Wanted(Complete', H_L1', perm', j'))
  <2>1. CASE d = c
    BY <1>1, <1>4, <1>5, <2>1
  <2>2. CASE d # c
    <3>1. CoreOk(RowsOf(d), core[d], Present(L_L1, j), Wanted(L_L1, H_L1, perm, j))
      BY <1>2, CoreIsOk
    <3>2. QED BY <1>1, <1>4, <1>5, <2>2, <3>1
  <2>3. QED BY <2>1, <2>2
<1>7. /\ Complete'.max_line > 0
      /\ Present(Complete', j')[j'] = Wanted(Complete', H_L1', perm', j')[j']
  BY <1>2, <1>4 DEF ColumnInv
<1>8. ColumnInv'
  BY <1>6, <1>7 DEF ColumnInv, CoreOk, ColumnPlaces, Inserting
<1>9. FactorUpTo(Complete', H_L1', perm', j')
  BY <1>2, <1>4 DEF TeamInv
<1>10. QED BY <1>1, <1>8, <1>9 DEF TeamInv

LEMMA ElementIs ==
  ASSUME NEW h, Sorted(h), NEW a \in Index, NEW k \in Index, NEW cols
  PROVE  /\ Element(get_element_sym(h, a, k), SumOf(cols)) \in Int
         /\ get_element_sym(h, a, k) > 0 => Element(get_element_sym(h, a, k), SumOf(cols)) > 0
<1>1. PICK x \in Int : x = get_element_sym(h, a, k)
  BY ReadInt DEF get_element_sym
<1>2. PICK y \in Nat : y = Bit(N) /\ y > 0
  BY BitIs, Sizes
<1>3. PICK z \in Nat : z = SumOf(cols)
  BY SumIs
<1>4. x * y + z \in Int /\ (x > 0 => x * y + z > 0)
  BY <1>2
<1>5. QED BY <1>1, <1>2, <1>3, <1>4 DEF Element

LEMMA RowElement ==
  ASSUME NEW m, Factor(m), NEW h, NEW p, NEW i \in Index, NEW k \in Index
  PROVE  Element(get_element_sym(h, p[i], p[k]), SumOf(sparse_dot_product(m, k, i, k - 1)))
           = CholeskyElement(m, h, p, i, k)
<1>1. Sorted(m) /\ k - 1 \in Int /\ k \in Nat /\ k < N
  BY Sizes DEF Factor
<1>2. PICK top \in Int : top = k - 1
  BY <1>1
<1>3. /\ sparse_dot_product(m, k, i, top) \in SUBSET Index
      /\ \A c \in Index : c \in sparse_dot_product(m, k, i, top) <=>
           c <= top /\ Holds(m, k, c) /\ Holds(m, i, c)
  BY <1>1, DotIs
<1>4. PICK T : T = {c \in 0 .. k - 1 : get_element(m, i, c) # 0 /\ get_element(m, k, c) # 0}
  OBVIOUS
<1>5. \A c : c \in 0 .. k - 1 <=> c \in Index /\ c <= top
  BY <1>1, <1>2, Sizes DEF Index
<1>6. \A c \in Index : (get_element(m, i, c) # 0 <=> Holds(m, i, c))
                       /\ (get_element(m, k, c) # 0 <=> Holds(m, k, c))
  BY FactorHolds
<1>7. sparse_dot_product(m, k, i, top) = T
  BY <1>3, <1>4, <1>5, <1>6
<1>8. QED BY <1>2, <1>4, <1>7 DEF CholeskyElement

LEMMA ComputeRowKeeps ==
  ASSUME CoresTyped, TeamInv, NEW c \in Core, ComputeRow(c), perm' = perm, Sorted(H_L1),
         perm \in [0 .. MAX_SIZE - 1 -> Index]
  PROVE  TeamInv' /\ CoresTyped'
<1>1. core[c].pc = "rows"
  BY DEF ComputeRow
<1>2. ColumnInv /\ j \in Index
  BY <1>1 DEF TeamInv, SumInv, AllAt
<1>3. AllAt({"rows", "computed"})
  BY <1>1, <1>2 DEF ColumnInv, AllAt
<1>4. At("link") = {}
  BY <1>3 DEF AllAt, At
<1>5. Complete = L_L1 /\ Factor(L_L1)
  BY <1>4 DEF Complete, TeamInv, FactorUpTo
<1>6. PICK own \in SUBSET Index : own = RowsOf(c)
  BY <1>2, RowsOfAre
<1>7. PICK f : f = Present(L_L1, j)
  OBVIOUS
<1>8. PICK w : w = Wanted(L_L1, H_L1, perm, j)
  OBVIOUS
<1>9. CoreOk(own, core[c], f, w)
  BY <1>2, <1>5, <1>6, <1>7, <1>8, CoreIsOk
<1>10. PICK sum0 \in Nat, rows \in SUBSET Index, new \in NewElements :
         core[c] = StateOf("rows", sum0, rows, new)
  BY <1>1, StateIs
<1>11. core[c].rows = rows /\ core[c].new = new
  BY <1>10, FieldsOf
<1>12. rows # {}
  BY <1>1, <1>9, <1>11 DEF CoreOk
<1>13. RowsFrom(own, rows, new, 1, f, w)
  <2>1. RowsInv(own, core[c], f, w)
    BY <1>9 DEF CoreOk
  <2>2. QED BY <1>1, <1>11, <2>1, RowsInvIs
<1>14. PICK i \in rows : i = Min(core[c].rows) /\ i \in Index
  <2>1. rows \in SUBSET Nat
    BY Sizes
  <2>2. Min(rows) \in rows
    BY <1>12, <2>1, HasLeast
  <2>3. QED BY <1>11, <2>2
<1>15. PICK element :
         element = Element(get_element_sym(H_L1, perm[i], perm[j]),
                           SumOf(sparse_dot_product(L_L1, j, i, j - 1)))
  OBVIOUS
<1>16. w[i] = element /\ w[i] \in Int
  <2>1. element = CholeskyElement(L_L1, H_L1, perm, i, j)
    BY <1>2, <1>5, <1>14, <1>15, RowElement
  <2>2. w[i] = CholeskyElement(L_L1, H_L1, perm, i, j)
    BY <1>8, <1>14 DEF Wanted
  <2>3. perm[i] \in Index /\ perm[j] \in Index
    BY <1>2, <1>14, Sizes DEF Index
  <2>4. element \in Int
    BY <1>15, <2>3, ElementIs
  <2>5. QED BY <2>1, <2>2, <2>4
<1>17. PICK left \in SUBSET Index : left = rows \ {i}
  BY <1>10
<1>18. PICK more \in NewElements : more = IF w[i] = 0 THEN new ELSE Append(new, <<i, w[i]>>)
  <2>1. PICK S : S = Index \X Int
    OBVIOUS
  <2>2. PICK pair \in S : pair = <<i, w[i]>>
    BY <1>14, <1>16, <2>1
  <2>3. new \in Seq(S)
    BY <2>1 DEF NewElements
  <2>4. Append(new, pair) \in Seq(S)
    BY <2>3
  <2>5. Append(new, <<i, w[i]>>) \in NewElements
    BY <2>1, <2>2, <2>4 DEF NewElements
  <2>6. QED BY <2>5
<1>19. RowsFrom(own, left, more, 1, f, w)
  <2>1. /\ w[i] = 0 => RowsFrom(own, rows \ {i}, new, 1, f, w)
        /\ w[i] # 0 => RowsFrom(own, rows \ {i}, Append(new, <<i, w[i]>>), 1, f, w)
    BY <1>13, <1>14, <1>16, RowComputed
  <2>2. QED BY <1>17, <1>18, <2>1
<1>20. PICK pc2 \in {"rows", "computed"} : pc2 = RowsOrBarrier(left)
  BY DEF RowsOrBarrier
<1>21. PICK state : state = StateOf(pc2, sum0, left, more)
  OBVIOUS
<1>22. state \in CoreState /\ state.pc = pc2 /\ state.rows = left /\ state.new = more
  <2>1. pc2 \in PcOf
    BY DEF PcOf
  <2>2. QED BY <1>21, <2>1, StateTyped, FieldsOf
<1>23. core' = [core EXCEPT ![c] = state]
  <2>1. PICK old : old = core[c]
    OBVIOUS
  <2>2. core' = [core EXCEPT ![c] = WithPcRowsNew(old, pc2, left, more)]
    <3>1. old.rows = rows /\ old.new = new
      BY <1>11, <2>1
    <3>2. core' = [core EXCEPT
             ![c] = [old EXCEPT !.pc = pc2, !.rows = left,
                                !.new = IF w[i] = 0 THEN old.new ELSE Append(old.new, <<i, w[i]>>)]]
      BY <1>11, <1>14, <1>15, <1>16, <1>17, <1>20, <2>1 DEF ComputeRow
    <3>3. QED BY <1>18, <3>1, <3>2 DEF WithPcRowsNew
  <2>3. old = StateOf("rows", sum0, rows, new)
    BY <1>10, <2>1
  <2>4. \A p2, r2, n2 : WithPcRowsNew(old, p2, r2, n2) = StateOf(p2, sum0, r2, n2)
    BY <2>3, PcRowsNewSet
  <2>5. QED BY <1>21, <2>2, <2>4
<1>24. CoreOk(own, state, f, w)
  <2>1. RowsInv(own, state, f, w)
    BY <1>19, <1>20, <1>22, RowsInvIs
  <2>2. state.pc = "rows" <=> state.rows # {}
    BY <1>20, <1>22 DEF RowsOrBarrier
  <2>3. QED BY <1>20, <1>22, <2>1, <2>2 DEF CoreOk
<1>25. \A d \in Core : core'[d].pc \in {"rows", "computed"}
  <2>1. core'[c] = state /\ \A d \in Core : d # c => core'[d] = core[d]
    BY <1>22, <1>23, CoreGoes
  <2>2. QED BY <1>3, <1>20, <1>22, <2>1 DEF AllAt
<1>26. ColumnPlaces' /\ AtMostOne({"insert", "link"})'
  BY <1>25 DEF ColumnPlaces, AllAt, AtMostOne
<1>27. L_L1' = L_L1 /\ H_L1' = H_L1 /\ j' = j
  BY DEF ComputeRow
<1>28. state.pc # "link"
  BY <1>20, <1>22
<1>29. CoreOk(RowsOf(c), state, Present(L_L1, j), Wanted(L_L1, H_L1, perm, j))
  BY <1>6, <1>7, <1>8, <1>24
<1>30. QED BY <1>2, <1>4, <1>22, <1>23, <1>26, <1>27, <1>28, <1>29, QuietKeeps

LEMMA EnterInsertKeeps ==
  ASSUME CoresTyped, TeamInv, NEW c \in Core, EnterInsert(c), perm' = perm
  PROVE  TeamInv' /\ CoresTyped'
<1>1. core[c].pc = "enter" /\ At("link") = {} /\ At("insert") = {}
  BY DEF EnterInsert, NobodyInserts
<1>2. ColumnInv /\ j \in Index
  BY <1>1 DEF TeamInv, SumInv, AllAt
<1>3. AllAt(Inserting)
  BY <1>1, <1>2 DEF ColumnInv, AllAt, Inserting
<1>4. Complete = L_L1
  BY <1>1 DEF Complete
<1>5. PICK own : own = RowsOf(c)
  OBVIOUS
<1>6. PICK f : f = Present(L_L1, j)
  OBVIOUS
<1>7. PICK w : w = Wanted(L_L1, H_L1, perm, j)
  OBVIOUS
<1>8. CoreOk(own, core[c], f, w)
  BY <1>2, <1>4, <1>5, <1>6, <1>7, CoreIsOk
<1>9. PICK sum0 \in Nat, rows \in SUBSET Index, new \in NewElements :
        core[c] = StateOf("enter", sum0, rows, new)
  BY <1>1, StateIs
<1>10. core[c].rows = rows /\ core[c].new = new
  BY <1>9, FieldsOf
<1>11. rows = {}
  BY <1>1, <1>8, <1>10 DEF CoreOk
<1>12. RowsFrom(own, rows, new, 1, f, w)
  <2>1. RowsInv(own, core[c], f, w)
    BY <1>8 DEF CoreOk
  <2>2. QED BY <1>1, <1>10, <2>1, RowsInvIs
<1>13. PICK pc2 \in {"insert", "inserted"} : pc2 = IF new = <<>> THEN "inserted" ELSE "insert"
  OBVIOUS
<1>14. PICK state : state = StateOf(pc2, sum0, rows, new)
  OBVIOUS
<1>15. state \in CoreState /\ state.pc = pc2 /\ state.rows = rows /\ state.new = new
  <2>1. pc2 \in PcOf
    BY DEF PcOf
  <2>2. QED BY <1>14, <2>1, StateTyped, FieldsOf
<1>16. core' = [core EXCEPT ![c] = state]
  <2>1. PICK old : old = core[c]
    OBVIOUS
  <2>2. core' = [core EXCEPT ![c] = WithPc(old, pc2)]
    BY <1>10, <1>13, <2>1 DEF EnterInsert, WithPc
  <2>3. old = StateOf("enter", sum0, rows, new)
    BY <1>9, <2>1
  <2>4. \A p2 : WithPc(old, p2) = StateOf(p2, sum0, rows, new)
    BY <2>3, PcSet
  <2>5. QED BY <1>14, <2>2, <2>4
<1>17. CoreOk(own, state, f, w)
  <2>1. RowsInv(own, state, f, w)
    BY <1>12, <1>13, <1>15, RowsInvIs
  <2>2. state.pc # "rows" /\ state.rows = {} /\ state.pc # "link"
    BY <1>11, <1>13, <1>15
  <2>3. /\ state.pc = "insert" => state.new # <<>>
        /\ state.pc = "inserted" => state.new = <<>>
    BY <1>13, <1>15
  <2>4. QED BY <2>1, <2>2, <2>3 DEF CoreOk
<1>18. core'[c] = state /\ \A d \in Core : d # c => core'[d] = core[d]
  BY <1>15, <1>16, CoreGoes
<1>19. ColumnPlaces'
  <2>1. \A d \in Core : core'[d].pc \in Inserting
    BY <1>3, <1>13, <1>15, <1>18 DEF AllAt, Inserting
  <2>2. QED BY <2>1 DEF ColumnPlaces, AllAt
<1>20. AtMostOne({"insert", "link"})'
  <2>1. \A d \in Core : d # c => core'[d].pc \notin {"insert", "link"}
    BY <1>1, <1>18 DEF At
  <2>2. QED BY <2>1 DEF AtMostOne
<1>21. L_L1' = L_L1 /\ H_L1' = H_L1 /\ j' = j
  BY DEF EnterInsert
<1>22. state.pc # "link"
  BY <1>13, <1>15
<1>23. CoreOk(RowsOf(c), state, Present(L_L1, j), Wanted(L_L1, H_L1, perm, j))
  BY <1>5, <1>6, <1>7, <1>17
<1>24. QED BY <1>1, <1>2, <1>15, <1>16, <1>19, <1>20, <1>21, <1>22, <1>23, QuietKeeps

----------------------------------------------------------------------------
(* The steps of the cores while they insert *)

(* A column after an element has come into it.                             *)
LEMMA ColumnAfter ==
  ASSUME NEW m, NEW r, NEW h, NEW p, NEW i \in Index, NEW u \in Index, NEW value,
         FactorUpTo(m, h, p, u), With(m, r, i, u, value)
  PROVE  /\ Wanted(r, h, p, u) = Wanted(m, h, p, u)
         /\ Present(r, u)[i] = value
         /\ \A a \in Index : a # i => Present(r, u)[a] = Present(m, u)[a]
<1>1. \A a \in Index : CholeskyElement(r, h, p, a, u) = CholeskyElement(m, h, p, a, u)
  BY PartStays
<1>2. Wanted(r, h, p, u) = Wanted(m, h, p, u)
  BY <1>1 DEF Wanted
<1>3. \A a \in Index :
        get_element(r, a, u) = IF a = i THEN value ELSE get_element(m, a, u)
  BY DEF With
<1>4. QED BY <1>2, <1>3 DEF Present

LEMMA InsertArraysKeeps ==
  ASSUME CoresTyped, TeamInv, NEW c \in Core, InsertArrays(c), perm' = perm,
         Count(L_L1) < MAX_SIZE_SP_MAT
  PROVE  TeamInv' /\ CoresTyped'
<1>1. core[c].pc = "insert"
  BY DEF InsertArrays
<1>2. ColumnInv /\ j \in Index
  BY <1>1 DEF TeamInv, SumInv, AllAt
<1>3. AllAt(Inserting) /\ AtMostOne({"insert", "link"})
  BY <1>1, <1>2 DEF ColumnInv, AllAt, Inserting
<1>4. \A d \in Core : d # c => core[d].pc \notin {"insert", "link"}
  BY <1>1, <1>3 DEF AtMostOne
<1>5. At("link") = {}
  BY <1>1, <1>4 DEF At
<1>6. Complete = L_L1 /\ L_L1.max_line > 0
  BY <1>2, <1>5 DEF Complete, ColumnInv
<1>7. FactorUpTo(L_L1, H_L1, perm, j) /\ Factor(L_L1)
  BY <1>6 DEF TeamInv, FactorUpTo
<1>8. PICK f : f = Present(L_L1, j)
  OBVIOUS
<1>9. PICK w : w = Wanted(L_L1, H_L1, perm, j)
  OBVIOUS
<1>10. \A d \in Core : CoreOk(RowsOf(d), core[d], f, w)
  BY <1>2, <1>6, <1>8, <1>9, CoreIsOk
<1>11. PICK sum0 \in Nat, rows \in SUBSET Index, new \in NewElements :
         core[c] = StateOf("insert", sum0, rows, new)
  BY <1>1, StateIs
<1>12. core[c].rows = rows /\ core[c].new = new
  BY <1>11, FieldsOf
<1>13. new # <<>> /\ rows = {}
  BY <1>1, <1>10, <1>12 DEF CoreOk
<1>14. RowsFrom(RowsOf(c), rows, new, 1, f, w)
  <2>1. RowsInv(RowsOf(c), core[c], f, w)
    BY <1>10 DEF CoreOk
  <2>2. QED BY <1>1, <1>12, <2>1, RowsInvIs
<1>15. PICK row, value : row = new[1][1] /\ value = new[1][2]
  OBVIOUS
<1>16. /\ row \in RowsOf(c) /\ row \in Index /\ j < row /\ j <= row
       /\ value \in Int /\ value # 0
       /\ value = w[row] /\ f[row] = 0
  <2>1. 1 \in DOMAIN new /\ 1 \in 1 .. Len(new)
    BY <1>13, ListIs DEF NewElements
  <2>2. row \in RowsOf(c) /\ value # 0 /\ value = w[row] /\ f[row] = 0
    BY <1>14, <1>15, <2>1 DEF RowsFrom
  <2>3. row \in Index /\ value \in Int
    BY <1>15, <2>1, ListIs
  <2>4. j < row
    BY <1>2, <2>2, RowsOfAre
  <2>5. j <= row
    BY <1>2, <2>3, <2>4, Sizes
  <2>6. QED BY <2>2, <2>3, <2>4, <2>5
<1>17. PICK r : r = Linked(ArraysWritten(L_L1, row, j, value), row, j)
  OBVIOUS
<1>18. With(L_L1, r, row, j, value)
  <2>1. get_element(L_L1, row, j) = 0
    BY <1>8, <1>16 DEF Present
  <2>2. QED BY <1>2, <1>6, <1>7, <1>16, <1>17, <2>1, LinksElement
<1>19. PICK state : state = StateOf("link", sum0, rows, new)
  OBVIOUS
<1>20. state \in CoreState /\ state.pc = "link" /\ state.rows = rows /\ state.new = new
  <2>1. "link" \in PcOf
    BY DEF PcOf
  <2>2. QED BY <1>19, <2>1, StateTyped, FieldsOf
<1>21. core' = [core EXCEPT ![c] = state]
  <2>1. PICK old : old = core[c]
    OBVIOUS
  <2>2. core' = [core EXCEPT ![c] = WithPc(old, "link")]
    BY <2>1 DEF InsertArrays, WithPc
  <2>3. old = StateOf("insert", sum0, rows, new)
    BY <1>11, <2>1
  <2>4. \A p2 : WithPc(old, p2) = StateOf(p2, sum0, rows, new)
    BY <2>3, PcSet
  <2>5. QED BY <1>19, <2>2, <2>4
<1>22. CoresTyped' /\ core'[c] = state
       /\ \A d \in Core : d # c => core'[d] = core[d]
  BY <1>20, <1>21, CoreGoes
<1>23. L_L1' = ArraysWritten(L_L1, row, j, value) /\ H_L1' = H_L1 /\ j' = j
  BY <1>12, <1>15 DEF InsertArrays
<1>24. Complete' = r
  <2>1. c \in At("link")'
    BY <1>20, <1>22 DEF At
  <2>2. \A d \in Core : core'[d].pc = "link" <=> d = c
    BY <1>4, <1>20, <1>22
  <2>3. (CHOOSE d \in Core : core'[d].pc = "link") = c
    BY <2>2
  <2>4. At("link")' # {}
    BY <2>1
  <2>5. Complete' = Linked(L_L1', core'[c].new[1][1], j')
    BY <2>3, <2>4 DEF Complete
  <2>6. core'[c].new[1][1] = row
    BY <1>15, <1>20, <1>22
  <2>7. QED BY <1>17, <1>23, <2>5, <2>6
<1>25. PICK g : g = Present(r, j)
  OBVIOUS
<1>26. /\ Wanted(r, H_L1, perm, j) = w /\ g[row] = value
       /\ \A a \in Index : a # row => g[a] = f[a]
  BY <1>2, <1>7, <1>8, <1>9, <1>16, <1>18, <1>25, ColumnAfter
<1>27. FactorUpTo(r, H_L1, perm, j)
  BY <1>2, <1>7, <1>16, <1>18, PartStays
<1>28. ASSUME NEW d \in Core
       PROVE  CoreOk(RowsOf(d), core'[d], g, w)
  <2>1. CASE d = c
    <3>1. \A i \in RowsOf(c) : i # new[1][1] => g[i] = f[i]
      BY <1>2, <1>15, <1>26, RowsOfAre
    <3>2. RowsFrom(RowsOf(c), rows, new, 2, g, w)
      BY <1>13, <1>14, <1>15, <1>26, <3>1, RowInserted
    <3>3. RowsInv(RowsOf(c), state, g, w)
      BY <1>20, <3>2, RowsInvIs
    <3>4. CoreOk(RowsOf(c), state, g, w)
      BY <1>13, <1>20, <3>3 DEF CoreOk
    <3>5. QED BY <1>22, <2>1, <3>4
  <2>2. CASE d # c
    <3>1. PICK sum1 \in Nat, rows1 \in SUBSET Index, new1 \in NewElements :
            core[d] = StateOf(core[d].pc, sum1, rows1, new1)
      BY StateIs
    <3>2. core[d].rows = rows1 /\ core[d].new = new1
      BY <3>1, FieldsOf
    <3>3. core[d].pc # "link" /\ CoreOk(RowsOf(d), core[d], f, w)
      BY <1>4, <1>10, <2>2
    <3>4. RowsFrom(RowsOf(d), rows1, new1, 1, f, w)
      <4>1. RowsInv(RowsOf(d), core[d], f, w)
        BY <3>3 DEF CoreOk
      <4>2. QED BY <3>2, <3>3, <4>1, RowsInvIs
    <3>5. \A i \in RowsOf(d) : g[i] = f[i]
      <4>1. RowsOf(d) \in SUBSET Index /\ RowsOf(c) \cap RowsOf(d) = {}
        BY <1>2, <2>2, RowsOfAre
      <4>2. QED BY <1>16, <1>26, <4>1
    <3>6. RowsFrom(RowsOf(d), rows1, new1, 1, g, w)
      <4>1. 1 \in 1 .. 2
        OBVIOUS
      <4>2. QED BY <3>4, <3>5, <4>1, RowsAgree
    <3>7. RowsInv(RowsOf(d), core[d], g, w)
      BY <3>2, <3>3, <3>6, RowsInvIs
    <3>8. CoreOk(RowsOf(d), core[d], g, w)
      BY <3>3, <3>7 DEF CoreOk
    <3>9. QED BY <1>22, <2>2, <3>8
  <2>3. QED BY <2>1, <2>2
<1>29. /\ r.max_line > 0
       /\ g[j] = w[j]
  <2>1. r.max_line > 0
    BY <1>18 DEF With
  <2>2. f[j] = w[j]
    BY <1>2, <1>6, <1>8, <1>9 DEF ColumnInv
  <2>3. j # row
    BY <1>2, <1>16, Sizes
  <2>4. QED BY <1>2, <1>26, <2>1, <2>2, <2>3
<1>30. \A d : RowsOf(d)' = RowsOf(d)
  BY <1>23 DEF RowsOf
<1>31. ColumnPlaces' /\ AtMostOne({"insert", "link"})'
  <2>1. \A d \in Core : core'[d].pc \in Inserting
    BY <1>3, <1>20, <1>22 DEF AllAt, Inserting
  <2>2. \A d \in Core : d # c => core'[d].pc \notin {"insert", "link"}
    BY <1>4, <1>22
  <2>3. QED BY <2>1, <2>2 DEF ColumnPlaces, AllAt, AtMostOne
<1>32. /\ Present(Complete', j') = g
       /\ Wanted(Complete', H_L1', perm', j') = w
  BY <1>23, <1>24, <1>25, <1>26
<1>33. ColumnInv'
  <2>1. \A d \in Core :
          CoreOk(RowsOf(d)', core'[d], Present(Complete', j'), Wanted(Complete', H_L1', perm', j'))
    BY <1>28, <1>30, <1>32
  <2>2. /\ Complete'.max_line > 0
        /\ Present(Complete', j')[j'] = Wanted(Complete', H_L1', perm', j')[j']
    BY <1>23, <1>24, <1>29, <1>32
  <2>3. QED BY <1>31, <2>1, <2>2 DEF ColumnInv, CoreOk, ColumnPlaces, Inserting
<1>34. FactorUpTo(Complete', H_L1', perm', j')
  BY <1>23, <1>24, <1>27
<1>35. QED BY <1>2, <1>22, <1>23, <1>33, <1>34 DEF TeamInv

LEMMA InsertPointersKeeps ==
  ASSUME CoresTyped, TeamInv, NEW c \in Core, InsertPointers(c), perm' = perm
  PROVE  TeamInv' /\ CoresTyped'
<1>1. core[c].pc = "link"
  BY DEF InsertPointers
<1>2. ColumnInv /\ j \in Index
  BY <1>1 DEF TeamInv, SumInv, AllAt
<1>3. AllAt(Inserting) /\ AtMostOne({"insert", "link"})
  BY <1>1, <1>2 DEF ColumnInv, AllAt, Inserting
<1>4. \A d \in Core : d # c => core[d].pc \notin {"insert", "link"}
  BY <1>1, <1>3 DEF AtMostOne
<1>5. PICK r : r = Complete
  OBVIOUS
<1>6. PICK f : f = Present(r, j)
  OBVIOUS
<1>7. PICK w : w = Wanted(r, H_L1, perm, j)
  OBVIOUS
<1>8. \A d \in Core : CoreOk(RowsOf(d), core[d], f, w)
  BY <1>2, <1>5, <1>6, <1>7, CoreIsOk
<1>9. PICK sum0 \in Nat, rows \in SUBSET Index, new \in NewElements :
        core[c] = StateOf("link", sum0, rows, new)
  BY <1>1, StateIs
<1>10. core[c].rows = rows /\ core[c].new = new
  BY <1>9, FieldsOf
<1>11. new # <<>> /\ rows = {}
  BY <1>1, <1>8, <1>10 DEF CoreOk
<1>12. RowsFrom(RowsOf(c), rows, new, 2, f, w)
  <2>1. RowsInv(RowsOf(c), core[c], f, w)
    BY <1>8 DEF CoreOk
  <2>2. QED BY <1>1, <1>10, <2>1, RowsInvIs
<1>13. PICK pc2 \in {"insert", "inserted"} :
         pc2 = IF Len(new) = 1 THEN "inserted" ELSE "insert"
  OBVIOUS
<1>14. PICK less \in NewElements : less = Tail(new)
  BY <1>11, TailIs
<1>15. pc2 = "insert" => less # <<>>
  <2>1. ASSUME pc2 = "insert", less = <<>> PROVE FALSE
    <3>1. Len(less) = Len(new) - 1 /\ Len(new) - 1 \in Nat /\ Len(new) \in Nat
      BY <1>11, <1>14, TailIs, ListIs
    <3>2. Len(less) = 0
      BY <2>1
    <3>3. Len(new) = 1
      BY <3>1, <3>2
    <3>4. QED BY <1>13, <2>1, <3>3
  <2>2. QED BY <2>1
<1>16. pc2 = "inserted" => less = <<>>
  <2>1. ASSUME pc2 = "inserted" PROVE less = <<>>
    <3>1. Len(new) = 1
      BY <1>13, <2>1
    <3>2. Len(less) = 0
      BY <1>11, <1>14, <3>1, TailIs
    <3>3. QED BY <1>14, <3>2 DEF NewElements
  <2>2. QED BY <2>1
<1>17. PICK state : state = StateOf(pc2, sum0, rows, less)
  OBVIOUS
<1>18. state \in CoreState /\ state.pc = pc2 /\ state.rows = rows /\ state.new = less
  <2>1. pc2 \in PcOf
    BY DEF PcOf
  <2>2. QED BY <1>17, <2>1, StateTyped, FieldsOf
<1>19. core' = [core EXCEPT ![c] = state]
  <2>1. PICK old : old = core[c]
    OBVIOUS
  <2>2. core' = [core EXCEPT ![c] = WithNewPc(old, less, pc2)]
    BY <1>10, <1>13, <1>14, <2>1 DEF InsertPointers, WithNewPc
  <2>3. old = StateOf("link", sum0, rows, new)
    BY <1>9, <2>1
  <2>4. \A n2, p2 : WithNewPc(old, n2, p2) = StateOf(p2, sum0, rows, n2)
    BY <2>3, NewPcSet
  <2>5. QED BY <1>17, <2>2, <2>4
<1>20. CoresTyped' /\ core'[c] = state
       /\ \A d \in Core : d # c => core'[d] = core[d]
  BY <1>18, <1>19, CoreGoes
<1>21. H_L1' = H_L1 /\ j' = j
  BY DEF InsertPointers
<1>22. Complete' = r
  <2>1. \A d \in Core : core[d].pc = "link" <=> d = c
    BY <1>1, <1>4
  <2>2. (CHOOSE d \in Core : core[d].pc = "link") = c
    BY <2>1
  <2>3. At("link") # {}
    BY <1>1 DEF At
  <2>4. Complete = Linked(L_L1, core[c].new[1][1], j)
    BY <2>2, <2>3 DEF Complete
  <2>5. L_L1' = r
    BY <1>5, <2>4 DEF InsertPointers
  <2>6. \A d \in Core : core'[d].pc # "link"
    BY <1>4, <1>13, <1>18, <1>20
  <2>7. At("link")' = {}
    BY <2>6 DEF At
  <2>8. QED BY <2>5, <2>7 DEF Complete
<1>23. ASSUME NEW d \in Core
       PROVE  CoreOk(RowsOf(d), core'[d], f, w)
  <2>1. CASE d = c
    <3>1. RowsFrom(RowsOf(c), rows, less, 1, f, w)
      BY <1>11, <1>12, <1>14, RowLinked
    <3>2. RowsInv(RowsOf(c), state, f, w)
      BY <1>13, <1>18, <3>1, RowsInvIs
    <3>3. CoreOk(RowsOf(c), state, f, w)
      BY <1>11, <1>13, <1>15, <1>16, <1>18, <3>2 DEF CoreOk
    <3>4. QED BY <1>20, <2>1, <3>3
  <2>2. CASE d # c
    BY <1>8, <1>20, <2>2
  <2>3. QED BY <2>1, <2>2
<1>24. \A d : RowsOf(d)' = RowsOf(d)
  BY <1>21 DEF RowsOf
<1>25. ColumnPlaces' /\ AtMostOne({"insert", "link"})'
  <2>1. \A d \in Core : core'[d].pc \in Inserting
    BY <1>3, <1>13, <1>18, <1>20 DEF AllAt, Inserting
  <2>2. \A d \in Core : d # c => core'[d].pc \notin {"insert", "link"}
    BY <1>4, <1>20
  <2>3. QED BY <2>1, <2>2 DEF ColumnPlaces, AllAt, AtMostOne
<1>26. /\ Present(Complete', j') = f
       /\ Wanted(Complete', H_L1', perm', j') = w
  BY <1>6, <1>7, <1>21, <1>22
<1>27. ColumnInv'
  <2>1. \A d \in Core :
          CoreOk(RowsOf(d)', core'[d], Present(Complete', j'), Wanted(Complete', H_L1', perm', j'))
    BY <1>23, <1>24, <1>26
  <2>2. r.max_line > 0 /\ f[j] = w[j]
    BY <1>2, <1>5, <1>6, <1>7 DEF ColumnInv
  <2>3. /\ Complete'.max_line > 0
        /\ Present(Complete', j')[j'] = Wanted(Complete', H_L1', perm', j')[j']
    BY <1>21, <1>22, <1>26, <2>2
  <2>4. QED BY <1>25, <2>1, <2>3 DEF ColumnInv, CoreOk, ColumnPlaces, Inserting
<1>28. FactorUpTo(Complete', H_L1', perm', j')
  BY <1>5, <1>21, <1>22 DEF TeamInv
<1>29. QED BY <1>2, <1>20, <1>21, <1>27, <1>28 DEF TeamInv

----------------------------------------------------------------------------
(* The steps of the team *)

LEMMA SquaresOfAll ==
  ASSUME NEW m, NEW k \in Index
  PROVE  Squares(m, Core, k) = {i \in 0 .. k - 1 : get_element(m, k, i) # 0}
<1>1. k \in Nat
  BY Sizes
<1>2. /\ \A c \in Core : Share(c, k) \in SUBSET (0 .. k - 1)
      /\ \A i \in 0 .. k - 1 : \E c \in Core : i \in Share(c, k)
  BY <1>1, Shares
<1>3. \A i : i \in Squares(m, Core, k) <=> \E c \in Core : i \in Squared(m, c, k)
  BY SquaresAre
<1>4. \A c, i : i \in Squared(m, c, k) <=> i \in Share(c, k) /\ get_element(m, k, i) # 0
  BY DEF Squared
<1>5. QED BY <1>2, <1>3, <1>4

LEMMA ForkedIs ==
  ASSUME j \in Index, NEW c \in Core
  PROVE  /\ Forked(c) = StateOf(RowsOrBarrier(RowsOf(c)), 0, RowsOf(c), <<>>)
         /\ Forked(c) \in CoreState /\ Forked(c).pc \in {"rows", "computed"}
         /\ Forked(c).rows = RowsOf(c) /\ Forked(c).new = <<>>
         /\ Forked(c).pc = "rows" <=> RowsOf(c) # {}
<1>1. Forked(c) = StateOf(RowsOrBarrier(RowsOf(c)), 0, RowsOf(c), <<>>)
  BY DEF Forked, StateOf
<1>2. RowsOrBarrier(RowsOf(c)) \in {"rows", "computed"}
      /\ (RowsOrBarrier(RowsOf(c)) = "rows" <=> RowsOf(c) # {})
  BY DEF RowsOrBarrier
<1>3. RowsOrBarrier(RowsOf(c)) \in PcOf
  BY <1>2 DEF PcOf
<1>4. RowsOf(c) \in SUBSET Index /\ 0 \in Nat /\ <<>> \in NewElements
  BY RowsOfAre DEF NewElements
<1>5. QED BY <1>1, <1>2, <1>3, <1>4, StateTyped, FieldsOf

LEMMA InsertDiagonalKeeps ==
  ASSUME CoresTyped, TeamInv, InsertDiagonal, perm' = perm, Decomposable(H_L1),
         perm \in [0 .. MAX_SIZE - 1 -> Index], Count(L_L1) < MAX_SIZE_SP_MAT
  PROVE  TeamInv' /\ CoresTyped'
<1>1. \A c \in Core : core[c].pc = "summed"
  BY DEF InsertDiagonal, At
<1>2. 0 \in Core
  BY CoresAssumption DEF Core
<1>3. SumInv /\ j \in Index
  BY <1>1, <1>2 DEF TeamInv, ColumnInv, AllAt
<1>4. Complete = L_L1
  BY <1>3, SumComplete
<1>5. FactorUpTo(L_L1, H_L1, perm, j) /\ Factor(L_L1)
  BY <1>4 DEF TeamInv, FactorUpTo
<1>6. PICK a \in Index : a = perm[j]
  BY <1>3, Sizes DEF Index
<1>7. PICK value : value = Element(get_element_sym(H_L1, a, a), sum_global)
  OBVIOUS
<1>8. value = CholeskyElement(L_L1, H_L1, perm, j, j) /\ value \in Int /\ value > 0
  <2>1. PICK cols : cols = {c \in 0 .. j - 1 : get_element(L_L1, j, c) # 0}
    OBVIOUS
  <2>2. sum_global = SumOf(cols)
    <3>1. At("summed") = Core
      BY DEF InsertDiagonal
    <3>2. sum_global = SumOf(Squares(L_L1, Core, j))
      BY <1>3, <3>1 DEF SumInv, Squares
    <3>3. QED BY <1>3, <2>1, <3>2, SquaresOfAll
  <2>3. CholeskyElement(L_L1, H_L1, perm, j, j) = Element(get_element_sym(H_L1, a, a), SumOf(cols))
    <3>1. {c \in 0 .. j - 1 : get_element(L_L1, j, c) # 0 /\ get_element(L_L1, j, c) # 0} = cols
      BY <2>1
    <3>2. QED BY <1>6, <3>1 DEF CholeskyElement
  <2>4. get_element_sym(H_L1, a, a) > 0 /\ Sorted(H_L1)
    <3>1. get_element(H_L1, a, a) > 0 /\ Sorted(H_L1)
      BY DEF Decomposable
    <3>2. QED BY <3>1 DEF get_element_sym
  <2>5. QED BY <1>7, <2>2, <2>3, <2>4, ElementIs
<1>9. PICK r : r = insert_element(L_L1, j, j, value)
  OBVIOUS
<1>10. With(L_L1, r, j, j, value)
  <2>1. value # 0
    BY <1>8
  <2>2. QED BY <1>3, <1>5, <1>8, <1>9, <2>1, InsertsDiagonal
<1>11. L_L1' = r /\ H_L1' = H_L1 /\ j' = j
  BY <1>6, <1>7, <1>9 DEF InsertDiagonal
<1>12. DOMAIN core' = Core /\ \A c \in Core : core'[c] = Forked(c)
  BY DEF InsertDiagonal
<1>13. CoresTyped'
  <2>1. core' = [c \in Core |-> Forked(c)]
    BY DEF InsertDiagonal
  <2>2. \A c \in Core : Forked(c) \in CoreState
    BY <1>3, ForkedIs
  <2>3. QED BY <2>1, <2>2 DEF CoresTyped
<1>14. \A c \in Core : /\ core'[c].pc \in {"rows", "computed"}
                       /\ core'[c].rows = RowsOf(c) /\ core'[c].new = <<>>
                       /\ core'[c].pc = "rows" <=> RowsOf(c) # {}
  BY <1>3, <1>12, ForkedIs
<1>15. Complete' = r
  <2>1. At("link")' = {}
    BY <1>14 DEF At
  <2>2. QED BY <1>11, <2>1 DEF Complete
<1>16. PICK g : g = Present(r, j)
  OBVIOUS
<1>17. PICK w : w = Wanted(r, H_L1, perm, j)
  OBVIOUS
<1>18. /\ w = Wanted(L_L1, H_L1, perm, j) /\ g[j] = value
       /\ \A i \in Index : i # j => g[i] = Present(L_L1, j)[i]
  <2>1. FactorUpTo(L_L1, H_L1, perm, j)
    BY <1>5
  <2>2. /\ Wanted(r, H_L1, perm, j) = Wanted(L_L1, H_L1, perm, j)
        /\ Present(r, j)[j] = value
        /\ \A i \in Index : i # j => Present(r, j)[i] = Present(L_L1, j)[i]
    BY <1>3, <1>10, <2>1, ColumnAfter
  <2>3. QED BY <1>16, <1>17, <2>2
<1>19. g[j] = w[j]
  BY <1>3, <1>8, <1>18 DEF Wanted
<1>20. \A i \in Index : i # j => g[i] = 0
  <2>1. \A i \in Index : Present(L_L1, j)[i] = 0
    BY <1>3 DEF SumInv, Present
  <2>2. QED BY <1>18, <2>1
<1>21. ASSUME NEW c \in Core
       PROVE  CoreOk(RowsOf(c), core'[c], g, w)
  <2>1. \A i \in RowsOf(c) : g[i] = 0
    <3>1. \A i \in RowsOf(c) : i \in Index /\ i # j
      BY <1>3, RowsOfAre, Sizes
    <3>2. QED BY <1>20, <3>1
  <2>2. RowsFrom(RowsOf(c), RowsOf(c), <<>>, 1, g, w)
    BY <2>1, RowsBegin
  <2>3. core'[c].pc \notin {"insert", "link", "inserted"}
    BY <1>14
  <2>4. RowsInv(RowsOf(c), core'[c], g, w)
    BY <1>14, <2>2, <2>3, RowsInvIs
  <2>5. QED BY <1>14, <2>3, <2>4 DEF CoreOk
<1>22. \A c : RowsOf(c)' = RowsOf(c)
  BY <1>11 DEF RowsOf
<1>23. ColumnPlaces' /\ AtMostOne({"insert", "link"})'
  BY <1>14 DEF ColumnPlaces, AllAt, AtMostOne
<1>24. /\ Present(Complete', j') = g
       /\ Wanted(Complete', H_L1', perm', j') = w
  BY <1>11, <1>15, <1>16, <1>17
<1>25. ColumnInv'
  <2>1. \A c \in Core :
          CoreOk(RowsOf(c)', core'[c], Present(Complete', j'), Wanted(Complete', H_L1', perm', j'))
    BY <1>21, <1>22, <1>24
  <2>2. r.max_line > 0
    BY <1>10 DEF With
  <2>3. /\ Complete'.max_line > 0
        /\ Present(Complete', j')[j'] = Wanted(Complete', H_L1', perm', j')[j']
    BY <1>11, <1>15, <1>19, <1>24, <2>2
  <2>4. QED BY <1>23, <2>1, <2>3 DEF ColumnInv, CoreOk, ColumnPlaces, Inserting
<1>26. FactorUpTo(Complete', H_L1', perm', j')
  <2>1. FactorUpTo(r, H_L1, perm, j)
    BY <1>3, <1>5, <1>10, PartStays
  <2>2. QED BY <1>11, <1>15, <2>1
<1>27. QED BY <1>3, <1>11, <1>13, <1>25, <1>26 DEF TeamInv

LEMMA BarrierKeeps ==
  ASSUME CoresTyped, TeamInv, Barrier, perm' = perm
  PROVE  TeamInv' /\ CoresTyped'
<1>1. \A c \in Core : core[c].pc = "computed"
  BY DEF Barrier, At
<1>2. 0 \in Core
  BY CoresAssumption DEF Core
<1>3. ColumnInv /\ j \in Index
  BY <1>1, <1>2 DEF TeamInv, SumInv, AllAt
<1>4. At("link") = {}
  BY <1>1 DEF At
<1>5. Complete = L_L1
  BY <1>4 DEF Complete
<1>6. PICK f : f = Present(L_L1, j)
  OBVIOUS
<1>7. PICK w : w = Wanted(L_L1, H_L1, perm, j)
  OBVIOUS
<1>8. ASSUME NEW c \in Core
      PROVE  /\ core'[c] \in CoreState /\ core'[c].pc = "enter"
             /\ CoreOk(RowsOf(c), core'[c], f, w)
  <2>1. PICK sum0 \in Nat, rows \in SUBSET Index, new \in NewElements :
          core[c] = StateOf("computed", sum0, rows, new)
    BY <1>1, StateIs
  <2>2. core[c].rows = rows /\ core[c].new = new
    BY <2>1, FieldsOf
  <2>3. CoreOk(RowsOf(c), core[c], f, w)
    BY <1>3, <1>5, <1>6, <1>7, CoreIsOk
  <2>4. rows = {}
    BY <1>1, <2>2, <2>3 DEF CoreOk
  <2>5. RowsFrom(RowsOf(c), rows, new, 1, f, w)
    <3>1. RowsInv(RowsOf(c), core[c], f, w)
      BY <2>3 DEF CoreOk
    <3>2. QED BY <1>1, <2>2, <3>1, RowsInvIs
  <2>6. core'[c] = StateOf("enter", sum0, rows, new)
    <3>1. PICK old : old = core[c]
      OBVIOUS
    <3>2. core'[c] = WithPc(old, "enter")
      BY <3>1 DEF Barrier, WithPc
    <3>3. QED BY <2>1, <3>1, <3>2, PcSet
  <2>7. core'[c] \in CoreState /\ core'[c].pc = "enter" /\ core'[c].rows = rows
        /\ core'[c].new = new
    <3>1. "enter" \in PcOf
      BY DEF PcOf
    <3>2. QED BY <2>6, <3>1, StateTyped, FieldsOf
  <2>8. RowsInv(RowsOf(c), core'[c], f, w)
    BY <2>5, <2>7, RowsInvIs
  <2>9. CoreOk(RowsOf(c), core'[c], f, w)
    BY <2>4, <2>7, <2>8 DEF CoreOk
  <2>10. QED BY <2>7, <2>9
<1>9. CoresTyped'
  <2>1. core' = [c \in Core |-> core'[c]]
    BY DEF Barrier
  <2>2. QED BY <1>8, <2>1 DEF CoresTyped
<1>10. L_L1' = L_L1 /\ H_L1' = H_L1 /\ j' = j
  BY DEF Barrier
<1>11. Complete' = L_L1
  <2>1. At("link")' = {}
    BY <1>8 DEF At
  <2>2. QED BY <1>10, <2>1 DEF Complete
<1>12. \A c : RowsOf(c)' = RowsOf(c)
  BY <1>10 DEF RowsOf
<1>13. ColumnPlaces' /\ AtMostOne({"insert", "link"})'
  BY <1>8 DEF ColumnPlaces, AllAt, AtMostOne, Inserting
<1>14. ColumnInv'
  <2>1. \A c \in Core :
          CoreOk(RowsOf(c)', core'[c], Present(Complete', j'), Wanted(Complete', H_L1', perm', j'))
    BY <1>6, <1>7, <1>8, <1>10, <1>11, <1>12
  <2>2. /\ Complete'.max_line > 0
        /\ Present(Complete', j')[j'] = Wanted(Complete', H_L1', perm', j')[j']
    BY <1>3, <1>5, <1>10, <1>11 DEF ColumnInv
  <2>3. QED BY <1>13, <2>1, <2>2 DEF ColumnInv, CoreOk, ColumnPlaces, Inserting
<1>15. FactorUpTo(Complete', H_L1', perm', j')
  BY <1>5, <1>10, <1>11 DEF TeamInv
<1>16. QED BY <1>3, <1>9, <1>10, <1>14, <1>15 DEF TeamInv

(* The team has joined: column j is done.                                  *)
LEMMA ColumnIsDone ==
  ASSUME CoresTyped, TeamInv, At("inserted") = Core
  PROVE  /\ Complete = L_L1 /\ L_L1.max_line > 0 /\ j \in Index
         /\ Factor(L_L1) /\ \A k \in 0 .. j : ColumnDone(L_L1, H_L1, perm, k)
<1>1. \A c \in Core : core[c].pc = "inserted"
  BY DEF At
<1>2. 0 \in Core
  BY CoresAssumption DEF Core
<1>3. ColumnInv /\ j \in Index
  BY <1>1, <1>2 DEF TeamInv, SumInv, AllAt
<1>4. At("link") = {}
  BY <1>1 DEF At
<1>5. Complete = L_L1
  BY <1>4 DEF Complete
<1>6. PICK f : f = Present(L_L1, j)
  OBVIOUS
<1>7. PICK w : w = Wanted(L_L1, H_L1, perm, j)
  OBVIOUS
<1>8. ASSUME NEW c \in Core
      PROVE  \A i \in RowsOf(c) : f[i] = w[i]
  <2>1. CoreOk(RowsOf(c), core[c], f, w)
    BY <1>3, <1>5, <1>6, <1>7, CoreIsOk
  <2>2. core[c].rows = {} /\ core[c].new = <<>>
    BY <1>1, <2>1 DEF CoreOk
  <2>3. RowsFrom(RowsOf(c), {}, <<>>, 1, f, w)
    <3>1. RowsInv(RowsOf(c), core[c], f, w)
      BY <2>1 DEF CoreOk
    <3>2. RowsFrom(RowsOf(c), core[c].rows, core[c].new, 1, f, w)
      BY <1>1, <3>1, RowsInvIs
    <3>3. QED BY <2>2, <3>2
  <2>4. QED BY <2>3, RowsEnd
<1>9. f[j] = w[j]
  BY <1>3, <1>5, <1>6, <1>7 DEF ColumnInv
<1>10. \A i \in j .. N - 1 : i \in Index /\ (i = j \/ i \in j + 1 .. N - 1)
  BY <1>3, Sizes DEF Index
<1>11. \A i \in j .. N - 1 : f[i] = w[i]
  <2> TAKE i \in j .. N - 1
  <2>1. CASE i = j
    BY <1>9, <2>1
  <2>2. CASE i \in j + 1 .. N - 1
    <3>1. PICK c \in Core : i \in RowsOf(c)
      BY <1>3, <2>2, RowsOfAre
    <3>2. QED BY <1>8, <3>1
  <2>3. QED BY <1>10, <2>1, <2>2
<1>12. ColumnDone(L_L1, H_L1, perm, j)
  BY <1>6, <1>7, <1>10, <1>11 DEF ColumnDone, Present, Wanted
<1>13. \A k \in 0 .. j : k = j \/ k \in 0 .. j - 1
  BY <1>3, Sizes
<1>14. \A k \in 0 .. j - 1 : ColumnDone(L_L1, H_L1, perm, k)
  BY <1>5 DEF TeamInv, FactorUpTo
<1>15. Factor(L_L1)
  BY <1>5 DEF TeamInv, FactorUpTo
<1>16. L_L1.max_line > 0
  BY <1>3, <1>5 DEF ColumnInv
<1>17. QED BY <1>3, <1>5, <1>12, <1>13, <1>14, <1>15, <1>16

----------------------------------------------------------------------------
(* From column to column *)

(* All cores go on to the same place.                                      *)
LEMMA AllGo ==
  ASSUME CoresTyped, NEW p \in PcOf,
         core' = [c \in Core |-> [core[c] EXCEPT !.pc = p]]
  PROVE  CoresTyped' /\ \A c \in Core : core'[c].pc = p
<1>1. ASSUME NEW c \in Core
      PROVE  core'[c] \in CoreState /\ core'[c].pc = p
  <2>1. PICK old : old = core[c]
    OBVIOUS
  <2>2. PICK p0 \in PcOf, s0 \in Nat, r \in SUBSET Index, n \in NewElements :
          old = StateOf(p0, s0, r, n)
    <3>1. old \in CoreState
      BY <2>1 DEF CoresTyped
    <3>2. QED BY <3>1, StateHas
  <2>3. core'[c] = WithPc(old, p)
    BY <2>1 DEF WithPc
  <2>4. core'[c] = StateOf(p, s0, r, n)
    BY <2>2, <2>3, PcSet
  <2>5. QED BY <2>4, StateTyped, FieldsOf
<1>2. core' = [c \in Core |-> core'[c]]
  OBVIOUS
<1>3. QED BY <1>1, <1>2 DEF CoresTyped

(* The cores begin with a column that is empty.                            *)
LEMMA SumBegins ==
  ASSUME \A c \in Core : core'[c].pc = "sum",
         \A i \in Index : get_element(L_L1', i, j') = 0, sum_global' = 0
  PROVE  SumInv' /\ Complete' = L_L1'
<1>1. At("link")' = {} /\ At("summed")' = {}
  BY DEF At
<1>2. Complete' = L_L1'
  BY <1>1 DEF Complete
<1>3. AllAt({"sum", "enter_sum", "add", "summed"})' /\ AtMostOne({"add"})'
  BY DEF AllAt, AtMostOne
<1>4. sum_global' = SumOf(UNION {Squared(L_L1', c, j') : c \in At("summed")'})
  <2>1. UNION {Squared(L_L1', c, j') : c \in At("summed")'} = {}
    BY <1>1
  <2>2. QED BY <2>1, SumOfNone
<1>5. QED BY <1>2, <1>3, <1>4 DEF SumInv

LEMMA NextColumnKeeps ==
  ASSUME CoresTyped, TeamInv, NextColumn, perm' = perm
  PROVE  TeamInv' /\ CoresTyped'
<1>1. /\ Complete = L_L1 /\ L_L1.max_line > 0 /\ j \in Index
      /\ Factor(L_L1) /\ \A k \in 0 .. j : ColumnDone(L_L1, H_L1, perm, k)
  <2>1. At("inserted") = Core
    BY DEF NextColumn
  <2>2. QED BY <2>1, ColumnIsDone
<1>2. j' = j + 1 /\ j + 1 < N /\ sum_global' = 0 /\ L_L1' = L_L1 /\ H_L1' = H_L1
  BY DEF NextColumn
<1>3. PICK u \in Index : u = j + 1
  BY <1>1, <1>2, Sizes DEF Index
<1>4. CoresTyped' /\ \A c \in Core : core'[c].pc = "sum"
  <2>1. core' = [c \in Core |-> [core[c] EXCEPT !.pc = "sum"]]
    BY DEF NextColumn
  <2>2. "sum" \in PcOf
    BY DEF PcOf
  <2>3. QED BY <2>1, <2>2, AllGo
<1>5. \A c \in j + 1 .. N - 1 : \A i \in Index : get_element(L_L1, i, c) = 0
  BY <1>1 DEF TeamInv, FactorUpTo
<1>6. \A i \in Index : get_element(L_L1, i, u) = 0
  <2>1. u \in j + 1 .. N - 1
    BY <1>1, <1>2, <1>3, Sizes
  <2>2. QED BY <1>5, <2>1
<1>7. SumInv' /\ Complete' = L_L1'
  BY <1>2, <1>3, <1>4, <1>6, SumBegins
<1>8. FactorUpTo(L_L1, H_L1, perm, u)
  <2>1. \A k \in 0 .. u - 1 : k \in 0 .. j
    BY <1>1, <1>3, Sizes
  <2>2. \A c \in u + 1 .. N - 1 : c \in j + 1 .. N - 1
    BY <1>1, <1>3, Sizes
  <2>3. QED BY <1>1, <1>5, <2>1, <2>2 DEF FactorUpTo
<1>9. FactorUpTo(Complete', H_L1', perm', j')
  BY <1>2, <1>3, <1>7, <1>8
<1>10. QED BY <1>2, <1>3, <1>4, <1>7, <1>9 DEF TeamInv

LEMMA EmptyFactor ==
  ASSUME NEW h, NEW p
  PROVE  FactorUpTo(EmptyCsr, h, p, 0)
<1>1. \A a, col \in Index : ~Holds(EmptyCsr, a, col)
  <2>1. \A a \in Index : Row(EmptyCsr, a) = {}
    <3>1. \A a \in Index : a \in 0 .. MAX_SIZE /\ a + 1 \in 0 .. MAX_SIZE
      BY Sizes
    <3>2. QED BY <3>1 DEF Row, EmptyCsr
  <2>2. QED BY <2>1, NoElement, HoldsIff
<1>2. Factor(EmptyCsr)
  BY <1>1, NoElement, FactorFrom
<1>3. \A c \in 0 .. 0 - 1 : ColumnDone(EmptyCsr, h, p, c)
  OBVIOUS
<1>4. \A c \in 0 + 1 .. N - 1 : \A i \in Index : get_element(EmptyCsr, i, c) = 0
  <2>1. \A c \in 0 + 1 .. N - 1 : c \in Index
    BY Sizes DEF Index
  <2>2. QED BY <2>1, NoElement
<1>5. QED BY <1>2, <1>3, <1>4 DEF FactorUpTo

LEMMA BeginKeeps ==
  ASSUME CoresTyped, BeginCholesky
  PROVE  TeamInv' /\ CoresTyped'
<1>1. L_L1' = EmptyCsr /\ j' = 0 /\ sum_global' = 0
  BY DEF BeginCholesky, init_sp_mat
<1>2. CoresTyped' /\ \A c \in Core : core'[c].pc = "sum"
  <2>1. core' = [c \in Core |-> [core[c] EXCEPT !.pc = "sum"]]
    BY DEF BeginCholesky
  <2>2. "sum" \in PcOf
    BY DEF PcOf
  <2>3. QED BY <2>1, <2>2, AllGo
<1>3. 0 \in Index
  BY Sizes DEF Index
<1>4. SumInv' /\ Complete' = EmptyCsr
  <2>1. \A i \in Index : get_element(L_L1', i, j') = 0
    BY <1>1, <1>3, NoElement
  <2>2. QED BY <1>1, <1>2, <2>1, SumBegins
<1>5. FactorUpTo(Complete', H_L1', perm', j')
  BY <1>1, <1>4, EmptyFactor
<1>6. QED BY <1>1, <1>2, <1>3, <1>4, <1>5 DEF TeamInv

LEMMA EndKeeps ==
  ASSUME CoresTyped, TeamInv, EndCholesky, perm' = perm
  PROVE  Factored /\ Factored' /\ CoresTyped'
<1>1. /\ j \in Index /\ Factor(L_L1)
      /\ \A k \in 0 .. j : ColumnDone(L_L1, H_L1, perm, k)
  <2>1. At("inserted") = Core
    BY DEF EndCholesky
  <2>2. QED BY <2>1, ColumnIsDone
<1>2. j + 1 = N /\ L_L1' = L_L1 /\ H_L1' = H_L1
  BY DEF EndCholesky
<1>3. \A k \in Index : k \in 0 .. j
  BY <1>1, <1>2, Sizes
<1>4. Factored
  BY <1>1, <1>3 DEF Factored
<1>5. Factored'
  BY <1>2, <1>4 DEF Factored
<1>6. CoresTyped'
  <2>1. core' = [c \in Core |-> [core[c] EXCEPT !.pc = "idle"]]
    BY DEF EndCholesky
  <2>2. "idle" \in PcOf
    BY DEF PcOf
  <2>3. QED BY <2>1, <2>2, AllGo
<1>7. QED BY <1>4, <1>5, <1>6

(* A step of the team while there is room.                                 *)
LEMMA TeamKeeps ==
  ASSUME CoresTyped, TeamInv, TeamStep \/ \E c \in Core : CoreStep(c), perm' = perm,
         Decomposable(H_L1), perm \in [0 .. MAX_SIZE - 1 -> Index],
         Count(L_L1) < MAX_SIZE_SP_MAT
  PROVE  TeamInv' /\ CoresTyped' /\ H_L1' = H_L1
<1>1. Sorted(H_L1)
  BY DEF Decomposable
<1>2. CASE InsertDiagonal
  BY <1>2, InsertDiagonalKeeps DEF InsertDiagonal
<1>3. CASE Barrier
  BY <1>3, BarrierKeeps DEF Barrier
<1>4. CASE NextColumn
  BY <1>4, NextColumnKeeps DEF NextColumn
<1>5. ASSUME NEW c \in Core, CoreStep(c)
      PROVE  TeamInv' /\ CoresTyped' /\ H_L1' = H_L1
  <2>1. CASE SumShare(c)
    BY <2>1, SumShareKeeps DEF SumShare
  <2>2. CASE EnterSum(c)
    BY <2>2, EnterSumKeeps DEF EnterSum
  <2>3. CASE AddSum(c)
    BY <2>3, AddSumKeeps DEF AddSum
  <2>4. CASE ComputeRow(c)
    BY <1>1, <2>4, ComputeRowKeeps, Zenon DEF ComputeRow
  <2>5. CASE EnterInsert(c)
    BY <2>5, EnterInsertKeeps DEF EnterInsert
  <2>6. CASE InsertArrays(c)
    BY <2>6, InsertArraysKeeps DEF InsertArrays
  <2>7. CASE InsertPointers(c)
    BY <2>7, InsertPointersKeeps DEF InsertPointers
  <2>8. QED BY <1>5, <2>1, <2>2, <2>3, <2>4, <2>5, <2>6, <2>7 DEF CoreStep
<1>6. QED BY <1>2, <1>3, <1>4, <1>5 DEF TeamStep

(* A factor has room for one element more.                                 *)
LEMMA FactorHasRoom ==
  ASSUME RoomForFactor, NEW m, Factor(m)
  PROVE  Count(m) < MAX_SIZE_SP_MAT
<1>1. Sorted(m) /\ Lower(m)
  BY FactorHolds DEF Factor, Lower
<1>2. QED BY <1>1, LowerCount

LEMMA TeamHasRoom ==
  ASSUME RoomForFactor, TeamInv, TeamInv', TeamStep \/ \E c \in Core : CoreStep(c), CoresTyped,
         Count(L_L1) < MAX_SIZE_SP_MAT
  PROVE  Count(L_L1)' < MAX_SIZE_SP_MAT
<1>1. Factor(Complete')
  BY DEF TeamInv, FactorUpTo
<1>2. L_L1' = L_L1 => Count(L_L1)' = Count(L_L1)
  BY DEF Count
<1>3. At("link")' = {} => Count(L_L1)' < MAX_SIZE_SP_MAT
  <2>1. SUFFICES ASSUME At("link")' = {} PROVE Count(L_L1)' < MAX_SIZE_SP_MAT
    OBVIOUS
  <2>2. Complete' = L_L1'
    BY <2>1 DEF Complete
  <2>3. Count(L_L1') < MAX_SIZE_SP_MAT
    BY <1>1, <2>2, FactorHasRoom
  <2>4. QED BY <2>3 DEF Count
<1>4. CASE InsertDiagonal
  <2>1. \A c \in Core : core'[c].pc # "link"
    <3>1. \A c \in Core : core'[c] = Forked(c)
      BY <1>4 DEF InsertDiagonal
    <3>2. \A c \in Core : Forked(c).pc # "link"
      BY DEF Forked, RowsOrBarrier
    <3>3. QED BY <3>1, <3>2
  <2>2. At("link")' = {}
    BY <2>1 DEF At
  <2>3. QED BY <1>3, <2>2
<1>5. CASE Barrier \/ NextColumn
  BY <1>2, <1>5 DEF Barrier, NextColumn
<1>6. ASSUME NEW c \in Core, CoreStep(c)
      PROVE  Count(L_L1)' < MAX_SIZE_SP_MAT
  <2>1. CASE SumShare(c) \/ EnterSum(c) \/ AddSum(c) \/ ComputeRow(c) \/ EnterInsert(c)
    BY <1>2, <2>1 DEF SumShare, EnterSum, AddSum, ComputeRow, EnterInsert
  <2>2. CASE InsertArrays(c)
    <3>1. L_L1'.max_line = L_L1.max_line /\ L_L1'.nz_cnt = L_L1.nz_cnt
      BY <2>2 DEF InsertArrays, ArraysWritten
    <3>2. QED BY <3>1 DEF Count
  <2>3. CASE InsertPointers(c)
    <3>1. core[c].pc = "link"
      BY <2>3 DEF InsertPointers
    <3>2. \A d \in Core : d # c => core[d].pc # "link"
      <4>1. ColumnInv
        BY <3>1 DEF TeamInv, SumInv, AllAt
      <4>2. QED BY <3>1, <4>1 DEF ColumnInv, AtMostOne
    <3>3. \A d \in Core : core'[d].pc # "link"
      <4>1. PICK new : new = [core[c] EXCEPT
                !.new = Tail(@), !.pc = IF Len(core[c].new) = 1 THEN "inserted" ELSE "insert"]
        OBVIOUS
      <4>2. core' = [core EXCEPT ![c] = new]
        BY <2>3, <4>1 DEF InsertPointers
      <4>3. new.pc \in {"inserted", "insert"}
        <5>1. core[c] \in CoreState
          BY DEF CoresTyped
        <5>2. QED BY <4>1, <5>1 DEF CoreState
      <4>4. \A d \in Core : core'[d] = IF d = c THEN new ELSE core[d]
        BY <4>2 DEF CoresTyped
      <4>5. QED BY <3>2, <4>3, <4>4
    <3>4. At("link")' = {}
      BY <3>3 DEF At
    <3>5. QED BY <1>3, <3>4
  <2>4. QED BY <1>6, <2>1, <2>2, <2>3 DEF CoreStep
<1>7. QED BY <1>4, <1>5, <1>6 DEF TeamStep

----------------------------------------------------------------------------
(* The solution *)

LEMMA GraphIs == constraints \in Graph => constraints \in Seq(Constraint)
<1>1. MaxConstraints \in Nat
  BY LsSlamAssumption
<1>2. SUFFICES ASSUME constraints \in Graph PROVE constraints \in Seq(Constraint)
  OBVIOUS
<1>3. PICK n \in 0 .. MaxConstraints : constraints \in [1 .. n -> Constraint]
  BY <1>2 DEF Graph
<1>4. QED BY <1>1, <1>3

(* The columns of a row of a factor are those of its elements.             *)
LEMMA ColumnsAre ==
  ASSUME NEW m, Factor(m), NEW i \in Index
  PROVE  \A k \in Index : (\E p \in Row(m, i) : m.col_idx[p] = k) <=> get_element(m, i, k) # 0
<1>1. Sorted(m)
  BY DEF Factor
<1>2. QED BY <1>1, HoldsIff, FactorHolds

LEMMA ForwardReads ==
  ASSUME NEW m, Factor(m), NEW i \in Index
  PROVE  {k \in {m.col_idx[p] : p \in Row(m, i)} : k < i}
           = {k \in 0 .. i - 1 : get_element(m, i, k) # 0}
<1>1. Sorted(m) /\ i \in Nat /\ N \in Nat
  BY Sizes DEF Factor
<1>2. \A p \in Row(m, i) : m.col_idx[p] \in Index
  <2>1. \A p \in Row(m, i) : p \in 0 .. Count(m) - 1
    BY <1>1, RowIs
  <2>2. QED BY <1>1, <2>1, Entries
<1>3. \A k \in Index : k < i <=> k \in 0 .. i - 1
  BY <1>1 DEF Index
<1>4. \A k \in 0 .. i - 1 : k \in Index
  BY <1>1, Sizes DEF Index
<1>5. ASSUME NEW k
      PROVE  k \in {a \in {m.col_idx[p] : p \in Row(m, i)} : a < i}
               <=> k \in {a \in 0 .. i - 1 : get_element(m, i, a) # 0}
  <2>1. CASE k \in Index
    <3>1. (\E p \in Row(m, i) : m.col_idx[p] = k) <=> get_element(m, i, k) # 0
      BY <2>1, ColumnsAre
    <3>2. QED BY <1>3, <2>1, <3>1
  <2>2. CASE k \notin Index
    BY <1>2, <1>4, <2>2
  <2>3. QED BY <2>1, <2>2
<1>6. QED BY <1>5

LEMMA BackwardReads ==
  ASSUME NEW m, Factor(m), NEW r, r = transpose_lower_triangular_in_place(m), NEW i \in Index
  PROVE  /\ ~r.overrun
         /\ {k \in {r.col_idx[p] : p \in Row(r, i)} : i < k}
              = {k \in i + 1 .. N - 1 : get_element(m, k, i) # 0}
<1>1. Sorted(m) /\ i \in Nat /\ N \in Nat
  BY Sizes DEF Factor
<1>2. /\ Sorted(r) /\ ~r.overrun
      /\ \A a, col \in Index : get_element(r, a, col) = get_element(m, col, a)
      /\ \A a, col \in Index : Holds(r, a, col) => Holds(m, col, a)
  BY <1>1, TransposeResult
<1>3. \A p \in Row(r, i) : r.col_idx[p] \in Index
  <2>1. \A p \in Row(r, i) : p \in 0 .. Count(r) - 1
    BY <1>2, RowIs
  <2>2. QED BY <1>2, <2>1, Entries
<1>4. \A k \in Index : i < k <=> k \in i + 1 .. N - 1
  BY <1>1 DEF Index
<1>5. \A k \in i + 1 .. N - 1 : k \in Index
  BY <1>1 DEF Index
<1>6. \A k \in Index : (\E p \in Row(r, i) : r.col_idx[p] = k) <=> get_element(m, k, i) # 0
  <2> TAKE k \in Index
  <2>1. (\E p \in Row(r, i) : r.col_idx[p] = k) <=> Holds(r, i, k)
    BY <1>2, HoldsIff
  <2>2. Holds(r, i, k) => get_element(m, k, i) # 0
    BY <1>2, FactorHolds
  <2>3. get_element(m, k, i) # 0 => Holds(r, i, k)
    BY <1>2, NotHeld
  <2>4. QED BY <2>1, <2>2, <2>3
<1>7. ASSUME NEW k
      PROVE  k \in {a \in {r.col_idx[p] : p \in Row(r, i)} : i < a}
               <=> k \in {a \in i + 1 .. N - 1 : get_element(m, a, i) # 0}
  <2>1. CASE k \in Index
    BY <1>4, <1>6, <2>1
  <2>2. CASE k \notin Index
    BY <1>3, <1>5, <2>2
  <2>3. QED BY <2>1, <2>2
<1>8. QED BY <1>2, <1>7

(* What is in a place of b.                                                *)
Number(v, forward, backward) == [of |-> v, forward |-> forward, backward |-> backward]

LEMMA SolutionIs ==
  \A i : Solution(i) =
    Number(perm[i], {k \in 0 .. i - 1 : get_element(L_L1, i, k) # 0},
           {k \in i + 1 .. N - 1 : get_element(L_L1, k, i) # 0})
BY DEF Solution, Number

WithForward(old, s) == [old EXCEPT !.forward = s]
WithBackward(old, s) == [old EXCEPT !.backward = s]

LEMMA NumberSet ==
  ASSUME NEW v, NEW f, NEW r, NEW old, old = Number(v, f, r), NEW s
  PROVE  WithForward(old, s) = Number(v, s, r) /\ WithBackward(old, s) = Number(v, f, s)
BY DEF Number, WithForward, WithBackward

LEMMA ForwardKeeps ==
  ASSUME forward_substitution, b = NewB, Factor(L_L1), sp_mat0 = L_L1,
         perm \in [0 .. MAX_SIZE - 1 -> Index]
  PROVE  b' = [i \in Index |-> WithBackward(Solution(i), {})]
<1>1. \A i \in Index : perm[i] \in Index
  BY Sizes DEF Index
<1>2. b' = [i \in Index |-> WithForward(Permuted(b)[i], {k \in Columns(i) : k < i})]
  BY DEF forward_substitution, Unknown, WithForward
<1>3. ASSUME NEW i \in Index
      PROVE  WithForward(Permuted(b)[i], {k \in Columns(i) : k < i})
               = WithBackward(Solution(i), {})
  <2>1. PICK before : before = {k \in 0 .. i - 1 : get_element(L_L1, i, k) # 0}
    OBVIOUS
  <2>2. PICK after : after = {k \in i + 1 .. N - 1 : get_element(L_L1, k, i) # 0}
    OBVIOUS
  <2>3. PICK old : old = Permuted(b)[i]
    OBVIOUS
  <2>4. old = Number(perm[i], {}, {})
    <3>1. old = b[perm[i]]
      BY <2>3 DEF Permuted, permute_array, Unknown
    <3>2. QED BY <1>1, <3>1 DEF NewB, Unknown, Number
  <2>5. {k \in Columns(i) : k < i} = before
    <3>1. {k \in {L_L1.col_idx[p] : p \in Row(L_L1, i)} : k < i} = before
      BY <2>1, ForwardReads
    <3>2. QED BY <3>1 DEF Columns
  <2>6. WithForward(old, before) = Number(perm[i], before, {})
    BY <2>4, NumberSet
  <2>7. PICK sol : sol = Solution(i)
    OBVIOUS
  <2>8. sol = Number(perm[i], before, after)
    BY <2>1, <2>2, <2>7, SolutionIs
  <2>9. WithBackward(sol, {}) = Number(perm[i], before, {})
    BY <2>8, NumberSet
  <2>10. QED BY <2>3, <2>5, <2>6, <2>7, <2>9
<1>4. QED BY <1>2, <1>3

LEMMA BackwardKeeps ==
  ASSUME backward_substitution, Factor(L_L1), sp_mat0 = L_L1,
         b = [i \in Index |-> WithBackward(Solution(i), {})]
  PROVE  b' = [i \in Index |-> Solution(i)] /\ ~sp_mat0'.overrun
<1>1. PICK r : r = transpose_lower_triangular_in_place(L_L1)
  OBVIOUS
<1>2. sp_mat0' = r
  BY <1>1 DEF backward_substitution
<1>3. b' = [i \in Index |->
              WithBackward(b[i], {k \in {r.col_idx[p] : p \in Row(r, i)} : i < k})]
  BY <1>2 DEF backward_substitution, Unknown, WithBackward
<1>4. ASSUME NEW i \in Index
      PROVE  WithBackward(b[i], {k \in {r.col_idx[p] : p \in Row(r, i)} : i < k}) = Solution(i)
  <2>1. PICK before : before = {k \in 0 .. i - 1 : get_element(L_L1, i, k) # 0}
    OBVIOUS
  <2>2. PICK after : after = {k \in i + 1 .. N - 1 : get_element(L_L1, k, i) # 0}
    OBVIOUS
  <2>3. {k \in {r.col_idx[p] : p \in Row(r, i)} : i < k} = after
    BY <1>1, <2>2, BackwardReads
  <2>4. PICK sol : sol = Solution(i)
    OBVIOUS
  <2>5. sol = Number(perm[i], before, after)
    BY <2>1, <2>2, <2>4, SolutionIs
  <2>6. PICK old : old = b[i]
    OBVIOUS
  <2>7. old = Number(perm[i], before, {})
    <3>1. old = WithBackward(sol, {})
      BY <2>4, <2>6
    <3>2. QED BY <2>5, <3>1, NumberSet
  <2>8. WithBackward(old, after) = sol
    BY <2>5, <2>7, NumberSet
  <2>9. QED BY <2>3, <2>4, <2>6, <2>8
<1>5. ~r.overrun
  <2>1. 0 \in Index
    BY Sizes DEF Index
  <2>2. QED BY <1>1, <2>1, BackwardReads
<1>6. QED BY <1>2, <1>3, <1>4, <1>5

(* The solution goes back into the order of the poses.                     *)
LEMMA UpdateKeeps ==
  ASSUME Update, Permutation(perm), perm \in [0 .. MAX_SIZE - 1 -> Index],
         b = [i \in Index |-> Solution(i)]
  PROVE  \A i \in Index : b'[perm[i]] = Solution(i)
<1>1. \A i \in Index : perm[i] \in Index
  BY Sizes DEF Index
<1>2. \A i \in Index : permutation_inverse(perm)[perm[i]] = i
  <2> TAKE i \in Index
  <2>1. permutation_inverse(perm)[perm[i]] = CHOOSE k \in Index : perm[k] = perm[i]
    BY <1>1 DEF permutation_inverse, Unknown
  <2>2. \A k \in Index : perm[k] = perm[i] => k = i
    BY DEF Permutation
  <2>3. QED BY <2>1, <2>2
<1>3. \A i \in Index : b'[i] = b[permutation_inverse(perm)[i]]
  BY DEF Update, permute_array, Unknown
<1>4. QED BY <1>1, <1>2, <1>3

----------------------------------------------------------------------------
(* Each step of ls_slam *)

LEMMA SolverInit == Init => SolverInv
<1>1. SUFFICES ASSUME Init PROVE SolverInv
  OBVIOUS
<1>2. phase = "build" /\ phase \in Phase /\ constraints \in Graph
  BY <1>1 DEF Init, Phase
<1>3. dist \in [1 .. NrOfPoses - 1 + Len(constraints) -> SUBSET {0, 1}]
  <2>1. dist \in [1 .. NrOfPoses - 1 + Len(constraints) -> Differences]
    BY <1>1 DEF Init
  <2>2. Differences \subseteq SUBSET {0, 1}
    BY LsSlamAssumption
  <2>3. QED BY <2>1, <2>2
<1>4. perm \in [0 .. MAX_SIZE - 1 -> Index]
  <2>1. 0 \in Index
    BY Sizes DEF Index
  <2>2. QED BY <1>1, <2>1 DEF Init
<1>5. core \in [Core -> CoreState]
  <2>1. NoCore = StateOf("idle", 0, {}, <<>>)
    BY DEF NoCore, StateOf
  <2>2. "idle" \in PcOf /\ 0 \in Nat /\ {} \in SUBSET Index /\ <<>> \in NewElements
    BY DEF PcOf, NewElements
  <2>3. NoCore \in CoreState
    BY <2>1, <2>2, StateTyped
  <2>4. QED BY <1>1, <2>3 DEF Init
<1>6. H_L1.max_line = 0
  BY <1>1 DEF Init, EmptyCsr
<1>7. SolutionInPlace
  BY <1>6 DEF SolutionInPlace
<1>8. QED BY <1>2, <1>3, <1>4, <1>5, <1>7 DEF SolverInv

(* What every phase has.                                                   *)
Typed ==
  /\ constraints \in Graph
  /\ dist \in [1 .. NrOfPoses - 1 + Len(constraints) -> SUBSET {0, 1}]
  /\ perm \in [0 .. MAX_SIZE - 1 -> Index]
  /\ core \in [Core -> CoreState]

LEMMA BuildKeeps ==
  ASSUME SolverInv, Build, ~sp_mat0'.overrun
  PROVE  SolverInv'
<1>1. phase' = "rcm" /\ b' = NewB
  BY DEF Build, Goto
<1>2. Typed'
  BY DEF SolverInv, Typed, Build, choleskyVars
<1>3. Decomposable(sp_mat0')
  <2>1. constraints \in Seq(Constraint)
    BY GraphIs DEF SolverInv
  <2>2. sp_mat0' = build_H_and_b(EmptyCsr, constraints, dist)
    BY DEF Build, init_sp_mat
  <2>3. QED BY <2>1, <2>2, BuildResult
<1>4. SolutionInPlace'
  BY <1>1 DEF SolutionInPlace
<1>5. QED BY <1>1, <1>2, <1>3, <1>4 DEF SolverInv, Typed, Phase

LEMMA StartKeeps ==
  ASSUME SolverInv, StartOrder
  PROVE  SolverInv'
<1>1. phase = "rcm" /\ phase' = "order"
  BY DEF StartOrder, Goto
<1>2. Decomposable(sp_mat0) /\ b = NewB
  BY <1>1 DEF SolverInv
<1>3. sp_mat0' = sp_mat0 /\ perm' = perm
  BY DEF StartOrder, rcm_start
<1>4. Typed' /\ b' = NewB
  BY <1>2, <1>3 DEF SolverInv, Typed, StartOrder, choleskyVars
<1>5. Sorted(sp_mat1') /\ OrderInv'
  BY <1>2, StartOrderKeeps DEF Decomposable, StartOrder
<1>6. SolutionInPlace'
  BY <1>1 DEF SolutionInPlace
<1>7. QED BY <1>1, <1>2, <1>3, <1>4, <1>5, <1>6 DEF SolverInv, Typed, Phase

LEMMA OrderKeeps ==
  ASSUME SolverInv, Order
  PROVE  SolverInv'
<1>1. phase = "order" /\ phase' = "order" /\ b' = b
  BY DEF Order, slamVars
<1>2. /\ Decomposable(sp_mat0) /\ b = NewB /\ Sorted(sp_mat1) /\ OrderInv
      /\ perm \in [0 .. MAX_SIZE - 1 -> Index]
  BY <1>1 DEF SolverInv
<1>3. sp_mat0' = sp_mat0 /\ sp_mat1' = sp_mat1
  BY DEF Order, rcm_root, rcm_pop
<1>4. OrderInv' /\ perm' \in [0 .. MAX_SIZE - 1 -> Index]
  <2>1. CASE rcm_root
    BY <1>2, <2>1, RootKeeps DEF rcm_root
  <2>2. CASE rcm_pop
    BY <1>2, <2>2, PopKeeps DEF Decomposable
  <2>3. QED BY <2>1, <2>2 DEF Order
<1>5. Typed'
  BY <1>4 DEF SolverInv, Typed, Order, choleskyVars, slamVars
<1>6. SolutionInPlace'
  BY <1>1 DEF SolutionInPlace
<1>7. QED BY <1>1, <1>2, <1>3, <1>4, <1>5, <1>6 DEF SolverInv, Typed, Phase

LEMMA EndOrderKeeps ==
  ASSUME SolverInv, EndOrder
  PROVE  SolverInv'
<1>1. phase = "order" /\ phase' = "cholesky" /\ b' = b
  BY DEF EndOrder, Goto
<1>2. /\ Decomposable(sp_mat0) /\ b = NewB /\ OrderInv
      /\ perm \in [0 .. MAX_SIZE - 1 -> Index]
  BY <1>1 DEF SolverInv
<1>3. sp_mat0' = sp_mat0
  BY DEF EndOrder, rcm_reverse
<1>4. Permutation(perm') /\ perm' \in [0 .. MAX_SIZE - 1 -> Index]
  BY <1>2, ReverseKeeps DEF EndOrder
<1>5. Typed'
  BY <1>4 DEF SolverInv, Typed, EndOrder, choleskyVars
<1>6. SolutionInPlace'
  BY <1>1 DEF SolutionInPlace
<1>7. QED BY <1>1, <1>2, <1>3, <1>4, <1>5, <1>6 DEF SolverInv, Typed, Phase

LEMMA SendKeeps ==
  ASSUME SolverInv, SendTask
  PROVE  SolverInv'
<1>1. phase = "cholesky" /\ phase' = "team" /\ b' = b
  BY DEF SendTask, Goto
<1>2. Decomposable(sp_mat0) /\ b = NewB /\ Permutation(perm)
  BY <1>1 DEF SolverInv
<1>3. H_L1' = sp_mat0 /\ perm' = perm
  BY DEF SendTask, BeginCholesky, rcmVars
<1>4. TeamInv' /\ CoresTyped'
  BY BeginKeeps DEF SolverInv, CoresTyped, SendTask
<1>5. Typed'
  BY <1>4 DEF SolverInv, Typed, CoresTyped, SendTask, rcmVars
<1>6. SolutionInPlace'
  BY <1>1 DEF SolutionInPlace
<1>7. QED BY <1>1, <1>2, <1>3, <1>4, <1>5, <1>6 DEF SolverInv, Typed, Phase

LEMMA DecomposeKeeps ==
  ASSUME SolverInv, Decompose, Count(L_L1) < MAX_SIZE_SP_MAT
  PROVE  SolverInv'
<1>1. phase = "team" /\ phase' = "team" /\ b' = b
  BY DEF Decompose, slamVars
<1>2. /\ b = NewB /\ Permutation(perm) /\ Decomposable(H_L1) /\ TeamInv
      /\ perm \in [0 .. MAX_SIZE - 1 -> Index]
  BY <1>1 DEF SolverInv
<1>3. perm' = perm
  BY DEF Decompose, rcmVars
<1>4. TeamInv' /\ CoresTyped' /\ H_L1' = H_L1
  BY <1>2, <1>3, TeamKeeps DEF SolverInv, CoresTyped, Decompose
<1>5. Typed'
  BY <1>3, <1>4 DEF SolverInv, Typed, CoresTyped, Decompose, slamVars
<1>6. SolutionInPlace'
  BY <1>1 DEF SolutionInPlace
<1>7. QED BY <1>1, <1>2, <1>3, <1>4, <1>5, <1>6 DEF SolverInv, Typed, Phase

LEMMA TaskKeeps ==
  ASSUME SolverInv, TaskEnds
  PROVE  SolverInv'
<1>1. phase = "team" /\ phase' = "forward" /\ b' = b
  BY DEF TaskEnds, Goto
<1>2. b = NewB /\ Permutation(perm) /\ TeamInv
  BY <1>1 DEF SolverInv
<1>3. perm' = perm /\ L_L1' = L_L1 /\ sp_mat0' = L_L1
  BY DEF TaskEnds, EndCholesky
<1>4. Factored' /\ CoresTyped'
  BY <1>2, <1>3, EndKeeps DEF SolverInv, CoresTyped, TaskEnds
<1>5. Typed'
  BY <1>3, <1>4 DEF SolverInv, Typed, CoresTyped, TaskEnds
<1>6. SolutionInPlace'
  BY <1>1 DEF SolutionInPlace
<1>7. QED BY <1>1, <1>2, <1>3, <1>4, <1>5, <1>6 DEF SolverInv, Typed, Phase

LEMMA ForwardStep ==
  ASSUME SolverInv, forward_substitution
  PROVE  SolverInv'
<1>1. phase = "forward" /\ phase' = "backward"
  BY DEF forward_substitution, Goto
<1>2. /\ b = NewB /\ Permutation(perm) /\ sp_mat0 = L_L1 /\ Factored
      /\ perm \in [0 .. MAX_SIZE - 1 -> Index]
  BY <1>1 DEF SolverInv
<1>3. perm' = perm /\ L_L1' = L_L1 /\ sp_mat0' = sp_mat0 /\ H_L1' = H_L1
  BY DEF forward_substitution, rcmVars, choleskyVars
<1>4. b' = [i \in Index |-> WithBackward(Solution(i), {})]
  BY <1>2, ForwardKeeps DEF Factored
<1>5. \A i : Solution(i)' = Solution(i)
  BY <1>3 DEF Solution
<1>6. b' = [i \in Index |-> [Solution(i)' EXCEPT !.backward = {}]]
  BY <1>4, <1>5 DEF WithBackward
<1>7. Factored'
  BY <1>2, <1>3 DEF Factored
<1>8. Typed'
  BY DEF SolverInv, Typed, forward_substitution, rcmVars, choleskyVars
<1>9. SolutionInPlace'
  BY <1>1 DEF SolutionInPlace
<1>10. QED BY <1>1, <1>2, <1>3, <1>6, <1>7, <1>8, <1>9 DEF SolverInv, Typed, Phase

LEMMA BackwardStep ==
  ASSUME SolverInv, backward_substitution
  PROVE  SolverInv' /\ ~sp_mat0'.overrun
<1>1. phase = "backward" /\ phase' = "unpermute"
  BY DEF backward_substitution, Goto
<1>2. /\ Permutation(perm) /\ sp_mat0 = L_L1 /\ Factored
      /\ b = [i \in Index |-> WithBackward(Solution(i), {})]
  BY <1>1 DEF SolverInv, WithBackward
<1>3. perm' = perm /\ L_L1' = L_L1
  BY DEF backward_substitution, choleskyVars
<1>4. b' = [i \in Index |-> Solution(i)] /\ ~sp_mat0'.overrun
  BY <1>2, BackwardKeeps DEF Factored
<1>5. \A i : Solution(i)' = Solution(i)
  BY <1>3 DEF Solution
<1>6. b' = [i \in Index |-> Solution(i)']
  BY <1>4, <1>5
<1>7. Typed'
  BY DEF SolverInv, Typed, backward_substitution, choleskyVars
<1>8. SolutionInPlace'
  BY <1>1 DEF SolutionInPlace
<1>9. QED BY <1>1, <1>2, <1>3, <1>4, <1>6, <1>7, <1>8 DEF SolverInv, Typed, Phase

LEMMA UpdateStep ==
  ASSUME SolverInv, Update
  PROVE  SolverInv'
<1>1. phase = "unpermute" /\ phase' \in {"build", "done"}
  BY DEF Update
<1>2. /\ Permutation(perm) /\ perm \in [0 .. MAX_SIZE - 1 -> Index]
      /\ b = [i \in Index |-> Solution(i)]
  BY <1>1 DEF SolverInv
<1>3. perm' = perm /\ L_L1' = L_L1
  BY DEF Update, rcmVars, choleskyVars
<1>4. \A i \in Index : b'[perm[i]] = Solution(i)
  BY <1>2, UpdateKeeps
<1>5. SolutionInPlace'
  <2>1. \A i : Solution(i)' = Solution(i)
    BY <1>3 DEF Solution
  <2>2. \A i \in Index : b'[perm'[i]] = Solution(i)'
    BY <1>3, <1>4, <2>1
  <2>3. QED BY <2>2 DEF SolutionInPlace, Unknown
<1>6. Typed'
  BY DEF SolverInv, Typed, Update, rcmVars, choleskyVars
<1>7. phase' \in Phase
  BY <1>1 DEF Phase
<1>8. QED BY <1>1, <1>5, <1>6, <1>7 DEF SolverInv, Typed

LEMMA StutterKeeps ==
  ASSUME SolverInv, UNCHANGED vars
  PROVE  SolverInv'
<1>1. /\ phase' = phase /\ constraints' = constraints /\ dist' = dist /\ b' = b
      /\ perm' = perm /\ core' = core /\ sp_mat0' = sp_mat0 /\ sp_mat1' = sp_mat1
      /\ H_L1' = H_L1 /\ L_L1' = L_L1 /\ j' = j /\ sum_global' = sum_global
      /\ nodes' = nodes /\ q' = q /\ perm_index' = perm_index
  BY DEF vars, rcmVars, choleskyVars, slamVars
<1>2. \A i : Solution(i)' = Solution(i)
  BY <1>1 DEF Solution
<1>3. OrderInv' = OrderInv /\ Factored' = Factored /\ SolutionInPlace' = SolutionInPlace
  BY <1>1, <1>2 DEF OrderInv, Factored, SolutionInPlace
<1>4. TeamInv' = TeamInv
  <2>1. Complete' = Complete /\ \A c : RowsOf(c)' = RowsOf(c)
    BY <1>1 DEF Complete, At, RowsOf
  <2>2. SumInv' = SumInv
    BY <1>1 DEF SumInv, AllAt, AtMostOne, At
  <2>3. ColumnInv' = ColumnInv
    BY <1>1, <2>1 DEF ColumnInv, AllAt, AtMostOne
  <2>4. QED BY <1>1, <2>1, <2>2, <2>3 DEF TeamInv
<1>5. /\ [i \in Index |-> Solution(i)'] = [i \in Index |-> Solution(i)]
      /\ [i \in Index |-> [Solution(i)' EXCEPT !.backward = {}]]
           = [i \in Index |-> [Solution(i) EXCEPT !.backward = {}]]
  BY <1>2
<1>6. QED BY <1>1, <1>3, <1>4, <1>5 DEF SolverInv

----------------------------------------------------------------------------
(* The solver *)

LEMMA SolverNext ==
  ASSUME SolverInv, HasRoom, HasRoom', [Next]_vars
  PROVE  SolverInv'
<1>1. Count(L_L1) < MAX_SIZE_SP_MAT /\ ~sp_mat0'.overrun
  BY DEF HasRoom
<1>2. CASE UNCHANGED vars
  BY <1>2, StutterKeeps
<1>3. CASE Finished
  BY <1>3, StutterKeeps DEF Finished
<1>4. CASE Build
  BY <1>1, <1>4, BuildKeeps
<1>5. CASE StartOrder
  BY <1>5, StartKeeps
<1>6. CASE Order
  BY <1>6, OrderKeeps
<1>7. CASE EndOrder
  BY <1>7, EndOrderKeeps
<1>8. CASE SendTask
  BY <1>8, SendKeeps
<1>9. CASE Decompose
  BY <1>1, <1>9, DecomposeKeeps
<1>10. CASE TaskEnds
  BY <1>10, TaskKeeps
<1>11. CASE forward_substitution
  BY <1>11, ForwardStep
<1>12. CASE backward_substitution
  BY <1>12, BackwardStep
<1>13. CASE Update
  BY <1>13, UpdateStep
<1>14. QED
  BY <1>2, <1>3, <1>4, <1>5, <1>6, <1>7, <1>8, <1>9, <1>10, <1>11, <1>12, <1>13 DEF Next

(* SolverInv holds as long as no insertion finds a matrix full             *)
(* (insert_element).                                                       *)
THEOREM SolverInvariant == Spec /\ []HasRoom => []SolverInv
<1>1. Init => SolverInv
  BY SolverInit
<1>2. SolverInv /\ HasRoom /\ HasRoom' /\ [Next]_vars => SolverInv'
  BY SolverNext
<1>3. QED BY <1>1, <1>2, PTL DEF Spec

LEMMA RoomStays ==
  ASSUME RoomForFactor, SolverInv, HasRoom, [Next]_vars
  PROVE  HasRoom'
<1>1. Count(L_L1) < MAX_SIZE_SP_MAT /\ ~sp_mat0.overrun
  BY DEF HasRoom
<1>2. L_L1' = L_L1 => Count(L_L1)' < MAX_SIZE_SP_MAT
  BY <1>1 DEF Count
<1>3. CASE UNCHANGED vars \/ Finished
  <2>1. sp_mat0' = sp_mat0 /\ L_L1' = L_L1
    BY <1>3 DEF Finished, vars, rcmVars, choleskyVars
  <2>2. QED BY <1>1, <1>2, <2>1 DEF HasRoom
<1>4. CASE Build
  <2>1. constraints \in Seq(Constraint)
    BY GraphIs DEF SolverInv
  <2>2. sp_mat0' = build_H_and_b(EmptyCsr, constraints, dist)
    BY <1>4 DEF Build, init_sp_mat
  <2>3. ~sp_mat0'.overrun
    BY <2>1, <2>2, BuildResult
  <2>4. L_L1' = L_L1
    BY <1>4 DEF Build, choleskyVars
  <2>5. QED BY <1>2, <2>3, <2>4 DEF HasRoom
<1>5. CASE StartOrder \/ Order \/ EndOrder \/ forward_substitution \/ Update
  <2>1. sp_mat0' = sp_mat0 /\ L_L1' = L_L1
    BY <1>5 DEF StartOrder, Order, EndOrder, forward_substitution, Update,
                rcm_start, rcm_root, rcm_pop, rcm_reverse, rcmVars, choleskyVars
  <2>2. QED BY <1>1, <1>2, <2>1 DEF HasRoom
<1>6. CASE SendTask
  <2>1. sp_mat0' = sp_mat0 /\ L_L1' = EmptyCsr
    BY <1>6 DEF SendTask, BeginCholesky, init_sp_mat, rcmVars
  <2>2. Count(L_L1') = 0
    BY <2>1 DEF Count, EmptyCsr
  <2>3. Count(L_L1)' < MAX_SIZE_SP_MAT
    BY <2>2, Sizes DEF Count
  <2>4. QED BY <1>1, <2>1, <2>3 DEF HasRoom
<1>7. CASE Decompose
  <2>1. /\ TeamInv /\ Decomposable(H_L1) /\ perm \in [0 .. MAX_SIZE - 1 -> Index]
        /\ CoresTyped
    BY <1>7 DEF SolverInv, Decompose, CoresTyped
  <2>2. perm' = perm /\ sp_mat0' = sp_mat0 /\ (TeamStep \/ \E c \in Core : CoreStep(c))
    BY <1>7 DEF Decompose, rcmVars
  <2>3. TeamInv'
    BY <1>1, <2>1, <2>2, TeamKeeps
  <2>4. Count(L_L1)' < MAX_SIZE_SP_MAT
    BY <1>1, <2>1, <2>2, <2>3, TeamHasRoom
  <2>5. QED BY <1>1, <2>2, <2>4 DEF HasRoom
<1>8. CASE TaskEnds
  <2>1. TeamInv /\ CoresTyped
    BY <1>8 DEF SolverInv, TaskEnds, Goto, CoresTyped
  <2>2. perm' = perm /\ L_L1' = L_L1 /\ sp_mat0' = L_L1
    BY <1>8 DEF TaskEnds, EndCholesky
  <2>3. Factored
    BY <1>8, <2>1, <2>2, EndKeeps DEF TaskEnds
  <2>4. ~sp_mat0'.overrun
    BY <2>2, <2>3 DEF Factored, Factor
  <2>5. QED BY <1>2, <2>2, <2>4 DEF HasRoom
<1>9. CASE backward_substitution
  <2>1. ~sp_mat0'.overrun
    BY <1>9, BackwardStep
  <2>2. L_L1' = L_L1
    BY <1>9 DEF backward_substitution, choleskyVars
  <2>3. QED BY <1>2, <2>1, <2>2 DEF HasRoom
<1>10. QED
  BY <1>3, <1>4, <1>5, <1>6, <1>7, <1>8, <1>9 DEF Next

LEMMA RoomInit == Init => HasRoom
<1>1. SUFFICES ASSUME Init PROVE HasRoom
  OBVIOUS
<1>2. ~sp_mat0.overrun /\ Count(L_L1) = 0
  BY <1>1 DEF Init, EmptyCsr, Count
<1>3. QED BY <1>2, Sizes DEF HasRoom

(* With room for a matrix that is full below its diagonal no insertion     *)
(* finds one full: the assertion of insert_element holds.                  *)
THEOREM RoomTheorem ==
  ASSUME RoomForFactor
  PROVE  Spec => [](SolverInv /\ HasRoom)
<1>1. Init => SolverInv /\ HasRoom
  BY SolverInit, RoomInit
<1>2. SolverInv /\ HasRoom /\ [Next]_vars => (SolverInv /\ HasRoom)'
  BY RoomStays, SolverNext
<1>3. QED BY <1>1, <1>2, PTL DEF Spec

LEMMA FactorFollows == SolverInv => FactorIsCholesky
BY DEF SolverInv, FactorIsCholesky, Factored, Unknown

LEMMA SolutionFollows == SolverInv => SolutionInPlace
BY DEF SolverInv

(* The cores compute the Cholesky factor of the ordered matrix, in any     *)
(* order of their steps, as long as there is room (cholesky.c).            *)
THEOREM FactorTheorem == Spec /\ []HasRoom => []FactorIsCholesky
BY SolverInvariant, FactorFollows, PTL

(* Every unknown gets its own solution, computed with its whole row and    *)
(* column of the factor, as long as there is room (solve_for_x).           *)
THEOREM SolutionTheorem == Spec /\ []HasRoom => []SolutionInPlace
BY SolverInvariant, SolutionFollows, PTL

(* The two without a condition on the behaviour, for matrices that have    *)
(* room for a full factor.                                                 *)
THEOREM FactorInRoom ==
  ASSUME RoomForFactor
  PROVE  Spec => []FactorIsCholesky
BY RoomTheorem, FactorFollows, PTL

THEOREM SolutionInRoom ==
  ASSUME RoomForFactor
  PROVE  Spec => []SolutionInPlace
BY RoomTheorem, SolutionFollows, PTL

----------------------------------------------------------------------------
(* The ordering, also of a matrix that was overrun *)

OrderingInv ==
  /\ constraints \in Graph
  /\ perm \in [0 .. MAX_SIZE - 1 -> Index]
  /\ phase \in {"rcm", "order"} => Sorted(sp_mat0)
  /\ phase = "order" => Sorted(sp_mat1) /\ OrderInv
  /\ phase \in {"cholesky", "team", "forward", "backward", "unpermute"} =>
       Permutation(perm)

(* The ordering is a permutation of all unknowns when the decomposition    *)
(* starts and as long as it is used.                                       *)
OrderIsPermutation ==
  phase \in {"cholesky", "team", "forward", "backward", "unpermute"} => Permutation(perm)

LEMMA OrderingNext == OrderingInv /\ [Next]_vars => OrderingInv'
<1>1. SUFFICES ASSUME OrderingInv, [Next]_vars PROVE OrderingInv'
  OBVIOUS
<1>2. constraints' = constraints
  BY <1>1 DEF Next, Build, StartOrder, Order, EndOrder, SendTask, Decompose, TaskEnds,
              forward_substitution, backward_substitution, Update, Finished, vars, slamVars
<1>3. CASE UNCHANGED vars \/ Finished
  <2>1. /\ phase' = phase /\ perm' = perm /\ sp_mat0' = sp_mat0 /\ sp_mat1' = sp_mat1
        /\ nodes' = nodes /\ q' = q /\ perm_index' = perm_index
    BY <1>3 DEF Finished, vars, rcmVars, slamVars
  <2>2. QED BY <1>1, <1>2, <2>1 DEF OrderingInv, OrderInv
<1>4. CASE Build
  <2>1. constraints \in Seq(Constraint)
    BY <1>1, GraphIs DEF OrderingInv
  <2>2. sp_mat0' = build_H_and_b(EmptyCsr, constraints, dist) /\ perm' = perm
    BY <1>4 DEF Build, init_sp_mat
  <2>3. Sorted(sp_mat0')
    BY <2>1, <2>2, BuildResult
  <2>4. phase' = "rcm"
    BY <1>4 DEF Build, Goto
  <2>5. QED BY <1>1, <1>2, <2>2, <2>3, <2>4 DEF OrderingInv
<1>5. CASE StartOrder
  <2>1. phase = "rcm" /\ phase' = "order" /\ sp_mat0' = sp_mat0 /\ perm' = perm
    BY <1>5 DEF StartOrder, Goto, rcm_start
  <2>2. Sorted(sp_mat1') /\ OrderInv'
    BY <1>1, <1>5, <2>1, StartOrderKeeps DEF OrderingInv, StartOrder
  <2>3. QED BY <1>1, <1>2, <2>1, <2>2 DEF OrderingInv
<1>6. CASE Order
  <2>1. phase = "order" /\ phase' = "order" /\ sp_mat0' = sp_mat0 /\ sp_mat1' = sp_mat1
    BY <1>6 DEF Order, slamVars, rcm_root, rcm_pop
  <2>2. Sorted(sp_mat0) /\ Sorted(sp_mat1) /\ OrderInv
        /\ perm \in [0 .. MAX_SIZE - 1 -> Index]
    BY <1>1, <2>1 DEF OrderingInv
  <2>3. CASE rcm_root
    <3>1. OrderInv' /\ perm' = perm
      BY <2>2, <2>3, RootKeeps DEF rcm_root
    <3>2. QED BY <1>1, <1>2, <2>1, <2>2, <3>1 DEF OrderingInv
  <2>4. CASE rcm_pop
    <3>1. OrderInv' /\ perm' \in [0 .. MAX_SIZE - 1 -> Index]
      BY <2>2, <2>4, PopKeeps
    <3>2. QED BY <1>1, <1>2, <2>1, <2>2, <3>1 DEF OrderingInv
  <2>5. QED BY <1>6, <2>3, <2>4 DEF Order
<1>7. CASE EndOrder
  <2>1. phase = "order" /\ phase' = "cholesky" /\ rcm_reverse
    BY <1>7 DEF EndOrder, Goto
  <2>2. OrderInv /\ perm \in [0 .. MAX_SIZE - 1 -> Index]
    BY <1>1, <2>1 DEF OrderingInv
  <2>3. Permutation(perm') /\ perm' \in [0 .. MAX_SIZE - 1 -> Index]
    BY <2>1, <2>2, ReverseKeeps
  <2>4. QED BY <1>1, <1>2, <2>1, <2>3 DEF OrderingInv
<1>8. CASE SendTask \/ Decompose \/ TaskEnds \/ forward_substitution \/ backward_substitution
           \/ Update
  <2>1. perm' = perm
    BY <1>8 DEF SendTask, Decompose, TaskEnds, forward_substitution, backward_substitution,
                Update, rcmVars
  <2>2. /\ phase \in {"cholesky", "team", "forward", "backward", "unpermute"}
        /\ phase' \in {"team", "forward", "backward", "unpermute", "build", "done"}
    BY <1>8 DEF SendTask, Decompose, TaskEnds, forward_substitution, backward_substitution,
                Update, Goto, slamVars
  <2>3. QED BY <1>1, <1>2, <2>1, <2>2 DEF OrderingInv, Permutation
<1>9. QED BY <1>1, <1>3, <1>4, <1>5, <1>6, <1>7, <1>8 DEF Next

(* The ordering of rcm_fast is a permutation, whatever the graph.          *)
THEOREM PermutationTheorem == Spec => []OrderIsPermutation
<1>1. Init => OrderingInv
  <2>1. Init => perm \in [0 .. MAX_SIZE - 1 -> Index]
    BY SolverInit DEF SolverInv
  <2>2. QED BY <2>1 DEF Init, OrderingInv
<1>2. OrderingInv /\ [Next]_vars => OrderingInv'
  BY OrderingNext
<1>3. OrderingInv => OrderIsPermutation
  BY DEF OrderingInv, OrderIsPermutation
<1>4. QED BY <1>1, <1>2, <1>3, PTL DEF Spec

----------------------------------------------------------------------------
(* What H is made of: one of its elements, operation by operation *)

After(x, op, i, u) ==
  IF op.row = i /\ op.col = u
    THEN IF op.do = "add" THEN x + op.value
         ELSE IF op.value # 0 THEN op.value ELSE x
    ELSE x

LEMMA AfterIs ==
  /\ \A x, a, col, v, i, u : After(x, Ins(a, col, v), i, u) =
       IF a = i /\ col = u /\ v # 0 THEN v ELSE x
  /\ \A x, a, col, v, i, u : After(x, Add(a, col, v), i, u) =
       IF a = i /\ col = u THEN x + v ELSE x
BY DEF After, Ins, Add

LEMMA DoneReads ==
  ASSUME NEW H, Built(H), NEW op \in LowerOp
  PROVE  /\ H.overrun => Done(H, op).overrun
         /\ ~Done(H, op).overrun => \A i, u \in Index :
              get_element(Done(H, op), i, u) = After(get_element(H, i, u), op, i, u)
<1> DEFINE r == Done(H, op)
<1>1. Sorted(H) /\ LastIsLast(H)
  BY DEF Built
<1>2. PICK x \in Index, y \in Index, v \in Nat : x = op.row /\ y = op.col /\ v = op.value
  BY DEF LowerOp
<1>3. v \in Int /\ op.do \in {"insert", "add"}
  BY DEF LowerOp
<1>4. CASE op.do = "add"
  <2>1. r = add_to_element(H, x, y, v)
    BY <1>2, <1>4 DEF Done
  <2>2. /\ H.overrun => r.overrun
        /\ ~r.overrun => \A a, col \in Index : get_element(r, a, col) =
             IF a = x /\ col = y THEN get_element(H, a, col) + v ELSE get_element(H, a, col)
    BY <1>1, <1>3, <2>1, AddResult
  <2> HIDE DEF r
  <2>3. \A a, col \in Index : After(get_element(H, a, col), op, a, col) =
          IF a = x /\ col = y THEN get_element(H, a, col) + v ELSE get_element(H, a, col)
    BY <1>2, <1>4 DEF After
  <2>4. QED BY <2>2, <2>3 DEF r
<1>5. CASE op.do # "add"
  <2>1. r = insert_element(H, x, y, v)
    BY <1>2, <1>5 DEF Done
  <2>2. /\ H.overrun => r.overrun
        /\ ~r.overrun => \A a, col \in Index : get_element(r, a, col) =
             IF v # 0 /\ a = x /\ col = y THEN v ELSE get_element(H, a, col)
    BY <1>1, <1>3, <2>1, InsertResult
  <2> HIDE DEF r
  <2>3. \A a, col \in Index : After(get_element(H, a, col), op, a, col) =
          IF v # 0 /\ a = x /\ col = y THEN v ELSE get_element(H, a, col)
    BY <1>2, <1>5 DEF After
  <2>4. QED BY <2>2, <2>3 DEF r
<1>6. QED BY <1>4, <1>5

(* x follows the element of row i and column u through n operations.       *)
Follows(x, ops, n, i, u) == \A k \in 1 .. n : x[k] = After(x[k - 1], ops[k], i, u)

LEMMA AllDoneReads ==
  ASSUME NEW H, Built(H), NEW n \in Nat, NEW ops \in [1 .. n -> LowerOp],
         ~AllDone(H, ops).overrun, NEW i \in Index, NEW u \in Index
  PROVE  \E x \in [0 .. n -> Int] :
           /\ x[0] = get_element(H, i, u) /\ x[n] = get_element(AllDone(H, ops), i, u)
           /\ Follows(x, ops, n, i, u)
<1>1. PICK c \in [0 .. n -> BuiltMatrix] :
        /\ c[0] = H /\ c[n] = AllDone(H, ops)
        /\ \A k \in 1 .. n : c[k] = Done(c[k - 1], ops[k])
  BY AllDoneFold
<1>2. \A k \in 0 .. n : Built(c[k])
  <2> TAKE k \in 0 .. n
  <2>1. c[k] \in BuiltMatrix
    OBVIOUS
  <2>2. QED BY <2>1 DEF BuiltMatrix
<1>3. ASSUME NEW k \in 1 .. n
      PROVE  /\ k - 1 \in 0 .. n /\ k \in 0 .. n
             /\ c[k - 1].overrun => c[k].overrun
             /\ ~c[k].overrun =>
                  get_element(c[k], i, u) = After(get_element(c[k - 1], i, u), ops[k], i, u)
  <2>1. k - 1 \in 0 .. n /\ k \in 0 .. n /\ ops[k] \in LowerOp
    OBVIOUS
  <2>2. Built(c[k - 1]) /\ c[k] = Done(c[k - 1], ops[k])
    BY <1>1, <1>2, <2>1
  <2>3. QED BY <2>1, <2>2, DoneReads
<1> DEFINE T == {k \in 0 .. n : ~c[n - k].overrun}
<1>4. 0 \in T
  <2>1. n - 0 = n /\ 0 \in 0 .. n
    OBVIOUS
  <2>2. ~c[n - 0].overrun
    BY <1>1, <2>1
  <2>3. QED BY <2>1, <2>2
<1>5. ASSUME NEW k \in 1 .. n, k - 1 \in T
      PROVE  k \in T
  <2>1. PICK m \in 1 .. n : m = n - (k - 1) /\ m - 1 = n - k
    <3>1. n - (k - 1) \in 1 .. n /\ (n - (k - 1)) - 1 = n - k
      OBVIOUS
    <3>2. QED BY <3>1
  <2>2. ~c[m].overrun
    BY <1>5, <2>1
  <2>3. ~c[m - 1].overrun
    BY <1>3, <2>2
  <2>4. QED BY <2>1, <2>3
<1> HIDE DEF T
<1>6. \A k \in 0 .. n : k \in T
  BY <1>4, <1>5, UpTo
<1>7. \A k \in 1 .. n : ~c[k].overrun
  <2> TAKE k \in 1 .. n
  <2>1. n - k \in 0 .. n /\ n - (n - k) = k
    OBVIOUS
  <2>2. QED BY <1>6, <2>1 DEF T
<1> DEFINE x == [k \in 0 .. n |-> get_element(c[k], i, u)]
<1>8. \A k \in 0 .. n : get_element(c[k], i, u) \in Int
  BY <1>2, ReadInt DEF Built
<1>9. x \in [0 .. n -> Int]
  BY <1>8
<1>10. x[0] = get_element(H, i, u) /\ x[n] = get_element(AllDone(H, ops), i, u)
  <2>1. 0 \in 0 .. n /\ n \in 0 .. n
    OBVIOUS
  <2>2. QED BY <1>1, <2>1
<1>11. Follows(x, ops, n, i, u)
  BY <1>3, <1>7 DEF Follows
<1> HIDE DEF x
<1>12. QED BY <1>9, <1>10, <1>11

(* An element before and after an edge of this weight, where the poses     *)
(* and coordinates of the element are p, a and v, d.                       *)
WithEdge(x, edge, s, w, p, a, v, d) ==
  IF p = v THEN IF InBlock(edge, p, a, d, s) THEN x + w ELSE x
  ELSE IF Between(edge, p, a, v, d, s) THEN w ELSE x

LEMMA DivMod ==
  ASSUME NEW n \in Nat
  PROVE  n \div 3 \in Nat /\ n % 3 \in 0 .. 2 /\ n = 3 * (n \div 3) + (n % 3)
OBVIOUS

LEMMA Coordinates ==
  ASSUME NEW i \in Index, NEW u \in Index, u <= i
  PROVE  \E p \in Nat, v \in Nat, a \in 0 .. 2, d \in 0 .. 2 :
           /\ i = 3 * p + a /\ u = 3 * v + d /\ v <= p /\ (p = v => d <= a)
           /\ p = i \div 3 /\ a = i % 3 /\ v = u \div 3 /\ d = u % 3
<1>1. i \in Nat /\ u \in Nat
  BY Sizes
<1>2. /\ i \div 3 \in Nat /\ u \div 3 \in Nat /\ i % 3 \in 0 .. 2 /\ u % 3 \in 0 .. 2
      /\ i = 3 * (i \div 3) + (i % 3) /\ u = 3 * (u \div 3) + (u % 3)
  BY <1>1, DivMod
<1>3. u \div 3 <= i \div 3 /\ (i \div 3 = u \div 3 => u % 3 <= i % 3)
  <2>1. \A p, v \in Nat, a, d \in 0 .. 2 :
          3 * v + d <= 3 * p + a => v <= p /\ (p = v => d <= a)
    OBVIOUS
  <2>2. QED BY <1>1, <1>2, <2>1
<1>4. QED BY <1>1, <1>2, <1>3

(* On and below the diagonal.                                              *)
LEMMA BlockIs ==
  \A edge, p : \A s \in SUBSET {0, 1} : \A a, d \in 0 .. 2 : d <= a =>
    (InBlock(edge, p, a, d, s) <=>
       \/ p \in {edge.from, edge.to} /\ a = d
       \/ p = edge.from /\ a = 2 /\ d \in s)
<1> SUFFICES ASSUME NEW edge, NEW s \in SUBSET {0, 1}, NEW p,
                    NEW a \in 0 .. 2, NEW d \in 0 .. 2, d <= a
             PROVE  InBlock(edge, p, a, d, s) <=>
                      \/ p \in {edge.from, edge.to} /\ a = d
                      \/ p = edge.from /\ a = 2 /\ d \in s
  OBVIOUS
<1>1. CASE a = d
  BY <1>1 DEF InBlock
<1>2. CASE a = 2 /\ d \in {0, 1}
  <2>1. a # d /\ 2 \in {a, d} /\ {a, d} \ {2} = {d}
    BY <1>2
  <2>2. QED BY <1>2, <2>1 DEF InBlock
<1>3. CASE a = 1 /\ d = 0
  BY <1>3 DEF InBlock
<1>4. QED BY <1>1, <1>2, <1>3

LEMMA BetweenIs ==
  ASSUME NEW edge, NEW s, NEW p \in Nat, NEW v \in Nat, NEW a, NEW d, v < p,
         edge.from \in Nat, edge.to \in Nat
  PROVE  /\ edge.to < edge.from =>
              (Between(edge, p, a, v, d, s) <=>
                 p = edge.from /\ v = edge.to /\ (a = d \/ (a = 2 /\ d \in s)))
         /\ edge.from < edge.to =>
              (Between(edge, p, a, v, d, s) <=>
                 p = edge.to /\ v = edge.from /\ (a = d \/ (d = 2 /\ a \in s)))
BY DEF Between

(* What no edge before odometry edge e has written.                        *)
Fresh(x, e, i, u) ==
  i >= 3 * e \/ (i = 3 * (e - 1) + 2 /\ 3 * (e - 1) <= u /\ u < i) => x = 0

LEMMA OdometryReads ==
  ASSUME NEW H, Built(H), NEW e \in 1 .. NrOfPoses - 1, NEW s \in SUBSET {0, 1},
         ~AllDone(H, OdometryOps(e, s)).overrun,
         NEW i \in Index, NEW u \in Index, u <= i,
         Fresh(get_element(H, i, u), e, i, u)
  PROVE  LET r == get_element(AllDone(H, OdometryOps(e, s)), i, u)
         IN  /\ r = WithEdge(get_element(H, i, u), [from |-> e - 1, to |-> e], s, Weight(e),
                             i \div 3, i % 3, u \div 3, u % 3)
             /\ Fresh(r, e + 1, i, u)
<1> DEFINE ops == OdometryOps(e, s)
           r == get_element(AllDone(H, ops), i, u)
           x0 == get_element(H, i, u)
<1>1. PICK f \in Nat, t \in Nat, w \in Nat, y0 \in Nat, y1 \in Nat :
        OdometryAt(e, s, f, t, w, y0, y1)
  BY OdometryOpsAre
<1>2. /\ f = 3 * (e - 1) /\ t = 3 * e /\ t = f + 3 /\ w = Weight(e) /\ w > 0
      /\ e \in Nat /\ e - 1 \in Nat
  BY <1>1, PosesAre DEF OdometryAt
<1>3. ops \in [1 .. 13 -> LowerOp]
  BY <1>1 DEF OdometryAt
<1>4. ops = OdometryList(f, t, w, y0, y1)
  BY <1>1 DEF OdometryAt
<1> HIDE DEF ops
<1>5. PICK x \in [0 .. 13 -> Int] : x[0] = x0 /\ x[13] = r /\ Follows(x, ops, 13, i, u)
  <2>1. 13 \in Nat /\ ~AllDone(H, ops).overrun
    BY DEF ops
  <2>2. QED BY <1>3, <2>1, AllDoneReads
<1>6. /\ x[1] = IF f = i /\ f = u THEN x[0] + w ELSE x[0]
      /\ x[2] = IF f + 1 = i /\ f + 1 = u THEN x[1] + w ELSE x[1]
      /\ x[3] = IF f + 2 = i /\ f = u /\ y0 # 0 THEN y0 ELSE x[2]
      /\ x[4] = IF f + 2 = i /\ f + 1 = u /\ y1 # 0 THEN y1 ELSE x[3]
      /\ x[5] = IF f + 2 = i /\ f + 2 = u THEN x[4] + w ELSE x[4]
      /\ x[6] = IF t = i /\ f = u /\ w # 0 THEN w ELSE x[5]
      /\ x[7] = IF t = i /\ t = u /\ w # 0 THEN w ELSE x[6]
      /\ x[8] = IF t + 1 = i /\ f + 1 = u /\ w # 0 THEN w ELSE x[7]
      /\ x[9] = IF t + 1 = i /\ t + 1 = u /\ w # 0 THEN w ELSE x[8]
      /\ x[10] = IF t = i /\ f + 2 = u /\ y0 # 0 THEN y0 ELSE x[9]
      /\ x[11] = IF t + 1 = i /\ f + 2 = u /\ y1 # 0 THEN y1 ELSE x[10]
      /\ x[12] = IF t + 2 = i /\ f + 2 = u /\ w # 0 THEN w ELSE x[11]
      /\ x[13] = IF t + 2 = i /\ t + 2 = u /\ w # 0 THEN w ELSE x[12]
  <2>1. \A k \in 1 .. 13 : x[k] = After(x[k - 1], ops[k], i, u)
    BY <1>5 DEF Follows
  <2>2. /\ x[1] = After(x[0], ops[1], i, u) /\ x[2] = After(x[1], ops[2], i, u)
        /\ x[3] = After(x[2], ops[3], i, u) /\ x[4] = After(x[3], ops[4], i, u)
        /\ x[5] = After(x[4], ops[5], i, u) /\ x[6] = After(x[5], ops[6], i, u)
        /\ x[7] = After(x[6], ops[7], i, u) /\ x[8] = After(x[7], ops[8], i, u)
        /\ x[9] = After(x[8], ops[9], i, u) /\ x[10] = After(x[9], ops[10], i, u)
        /\ x[11] = After(x[10], ops[11], i, u) /\ x[12] = After(x[11], ops[12], i, u)
        /\ x[13] = After(x[12], ops[13], i, u)
    BY <2>1
  <2>3. /\ ops[1] = Add(f, f, w) /\ ops[2] = Add(f + 1, f + 1, w)
        /\ ops[3] = Ins(f + 2, f, y0) /\ ops[4] = Ins(f + 2, f + 1, y1)
        /\ ops[5] = Add(f + 2, f + 2, w) /\ ops[6] = Ins(t, f, w) /\ ops[7] = Ins(t, t, w)
        /\ ops[8] = Ins(t + 1, f + 1, w) /\ ops[9] = Ins(t + 1, t + 1, w)
        /\ ops[10] = Ins(t, f + 2, y0) /\ ops[11] = Ins(t + 1, f + 2, y1)
        /\ ops[12] = Ins(t + 2, f + 2, w) /\ ops[13] = Ins(t + 2, t + 2, w)
    BY <1>4 DEF OdometryList
  <2>4. QED BY <2>2, <2>3, AfterIs
<1>7. /\ x0 \in Int /\ r \in Int
      /\ i < f \/ i > t + 2 => r = x0
      /\ i = f => r = IF u = f THEN x0 + w ELSE x0
      /\ i = f + 1 => r = IF u = f + 1 THEN x0 + w ELSE x0
      /\ i = f + 2 => r = IF u = f + 2 THEN x0 + w
                          ELSE IF u = f /\ y0 # 0 THEN y0
                          ELSE IF u = f + 1 /\ y1 # 0 THEN y1 ELSE x0
      /\ i = t => r = IF u = f \/ u = t THEN w ELSE IF u = f + 2 /\ y0 # 0 THEN y0 ELSE x0
      /\ i = t + 1 => r = IF u = f + 1 \/ u = t + 1 THEN w
                          ELSE IF u = f + 2 /\ y1 # 0 THEN y1 ELSE x0
      /\ i = t + 2 => r = IF u = f + 2 \/ u = t + 2 THEN w ELSE x0
  <2>1. x0 \in Int /\ r \in Int /\ i \in Nat /\ u \in Nat
    <3>1. x[0] \in Int /\ x[13] \in Int
      OBVIOUS
    <3>2. QED BY <1>5, <3>1, Sizes
  <2> HIDE DEF r, x0
  <2>2. i < f \/ i > t + 2 => x[13] = x[0]
    BY <1>2, <1>6, <2>1
  <2>3. i = f => x[13] = IF u = f THEN x[0] + w ELSE x[0]
    BY <1>2, <1>6, <2>1
  <2>4. i = f + 1 => x[13] = IF u = f + 1 THEN x[0] + w ELSE x[0]
    BY <1>2, <1>6, <2>1
  <2>5. i = f + 2 => x[13] = IF u = f + 2 THEN x[0] + w
                          ELSE IF u = f /\ y0 # 0 THEN y0
                          ELSE IF u = f + 1 /\ y1 # 0 THEN y1 ELSE x[0]
    BY <1>2, <1>6, <2>1
  <2>6. i = t => x[13] = IF u = f \/ u = t THEN w ELSE IF u = f + 2 /\ y0 # 0 THEN y0 ELSE x[0]
    BY <1>2, <1>6, <2>1
  <2>7. i = t + 1 => x[13] = IF u = f + 1 \/ u = t + 1 THEN w
                          ELSE IF u = f + 2 /\ y1 # 0 THEN y1 ELSE x[0]
    BY <1>2, <1>6, <2>1
  <2>8. i = t + 2 => x[13] = IF u = f + 2 \/ u = t + 2 THEN w ELSE x[0]
    BY <1>2, <1>6, <2>1
  <2>9. QED BY <1>5, <2>1, <2>2, <2>3, <2>4, <2>5, <2>6, <2>7, <2>8
<1>8. PICK p \in Nat, v \in Nat, a \in 0 .. 2, d \in 0 .. 2 :
        /\ i = 3 * p + a /\ u = 3 * v + d /\ v <= p /\ (p = v => d <= a)
        /\ p = i \div 3 /\ a = i % 3 /\ v = u \div 3 /\ d = u % 3
  BY Coordinates
<1>20. PICK edge : edge = [from |-> e - 1, to |-> e]
  OBVIOUS
<1>21. edge.from = e - 1 /\ edge.to = e
  BY <1>20
<1>9. y0 = (IF 0 \in s THEN w ELSE 0) /\ y1 = (IF 1 \in s THEN w ELSE 0)
  BY <1>1 DEF Yaw, OdometryAt
<1> HIDE DEF r, x0, ops
<1>10. i >= t \/ (i = f + 2 /\ f <= u /\ u < i) => x0 = 0
  BY <1>2 DEF Fresh, x0
<1>11. r = WithEdge(x0, edge, s, w, p, a, v, d)
  <2>1. CASE p = v
    <3>1. InBlock(edge, p, a, d, s) <=>
            \/ p \in {e - 1, e} /\ a = d
            \/ p = e - 1 /\ a = 2 /\ d \in s
      <4>1. d <= a /\ {edge.from, edge.to} = {e - 1, e}
        BY <1>8, <1>21, <2>1
      <4>2. QED BY <1>21, <4>1, BlockIs
    <3>2. CASE p = e - 1
      BY <1>2, <1>7, <1>8, <1>9, <1>10, <2>1, <3>1, <3>2 DEF WithEdge
    <3>3. CASE p = e
      BY <1>2, <1>7, <1>8, <1>9, <1>10, <2>1, <3>1, <3>3 DEF WithEdge
    <3>4. CASE p # e - 1 /\ p # e
      <4>1. i < f \/ i > t + 2
        BY <1>2, <1>8, <3>4
      <4>2. QED BY <1>7, <2>1, <3>1, <3>4, <4>1 DEF WithEdge
    <3>5. QED BY <3>2, <3>3, <3>4
  <2>2. CASE p # v
    <3>1. Between(edge, p, a, v, d, s) <=>
            p = e /\ v = e - 1 /\ (a = d \/ (d = 2 /\ a \in s))
      BY <1>2, <1>8, <1>21, <2>2, BetweenIs
    <3>2. CASE p = e /\ v = e - 1
      BY <1>2, <1>7, <1>8, <1>9, <1>10, <2>2, <3>1, <3>2 DEF WithEdge
    <3>3. CASE ~(p = e /\ v = e - 1)
      <4>1. r = x0
        BY <1>2, <1>7, <1>8, <2>2, <3>3
      <4>2. QED BY <2>2, <3>1, <3>3, <4>1 DEF WithEdge
    <3>4. QED BY <3>2, <3>3
  <2>3. QED BY <2>1, <2>2
<1>12. Fresh(r, e + 1, i, u)
  <2>1. i \in Nat /\ u \in Nat /\ 3 * (e + 1) = t + 3 /\ 3 * ((e + 1) - 1) = t
    BY <1>2, Sizes
  <2>2. i >= t + 3 => r = 0
    BY <1>2, <1>7, <1>10, <2>1
  <2>3. i = t + 2 /\ t <= u /\ u < i => r = 0
    BY <1>2, <1>7, <1>10, <2>1
  <2>4. QED BY <2>1, <2>2, <2>3 DEF Fresh
<1>13. QED BY <1>2, <1>8, <1>20, <1>11, <1>12 DEF r, x0, ops

LEMMA ConstraintReads ==
  ASSUME NEW H, Built(H), NEW e \in Nat, NEW edge \in Constraint, NEW s \in SUBSET {0, 1},
         ~AllDone(H, ConstraintOps(e, edge, s)).overrun,
         NEW i \in Index, NEW u \in Index, u <= i
  PROVE  get_element(AllDone(H, ConstraintOps(e, edge, s)), i, u) =
           WithEdge(get_element(H, i, u), edge, s, Weight(e), i \div 3, i % 3, u \div 3, u % 3)
<1> DEFINE ops == ConstraintOps(e, edge, s)
           r == get_element(AllDone(H, ops), i, u)
           x0 == get_element(H, i, u)
<1>1. PICK f \in Nat, t \in Nat, w \in Nat, y0 \in Nat, y1 \in Nat :
        ConstraintAt(e, edge, s, f, t, w, y0, y1)
  BY ConstraintOpsAre
<1>2. PICK m \in Nat, n \in Nat :
        /\ m = edge.from /\ n = edge.to /\ n < m /\ f = 3 * m /\ t = 3 * n
        /\ w = Weight(e) /\ w > 0
  BY <1>1, PosesAre DEF ConstraintAt, Constraint, Pose
<1>20. f = 3 * m /\ t = 3 * n /\ n < m /\ t + 3 <= f /\ w > 0
  BY <1>2
<1>3. ops \in [1 .. 13 -> LowerOp]
  BY <1>1 DEF ConstraintAt
<1>4. ops = ConstraintList(f, t, w, y0, y1)
  BY <1>1 DEF ConstraintAt
<1> HIDE DEF ops
<1>5. PICK x \in [0 .. 13 -> Int] : x[0] = x0 /\ x[13] = r /\ Follows(x, ops, 13, i, u)
  <2>1. 13 \in Nat /\ ~AllDone(H, ops).overrun
    BY DEF ops
  <2>2. QED BY <1>3, <2>1, AllDoneReads
<1>6. /\ x[1] = IF f = i /\ f = u THEN x[0] + w ELSE x[0]
      /\ x[2] = IF t = i /\ t = u THEN x[1] + w ELSE x[1]
      /\ x[3] = IF f = i /\ t = u /\ w # 0 THEN w ELSE x[2]
      /\ x[4] = IF f + 1 = i /\ f + 1 = u THEN x[3] + w ELSE x[3]
      /\ x[5] = IF t + 1 = i /\ t + 1 = u THEN x[4] + w ELSE x[4]
      /\ x[6] = IF f + 1 = i /\ t + 1 = u /\ w # 0 THEN w ELSE x[5]
      /\ x[7] = IF f + 2 = i /\ f + 2 = u THEN x[6] + w ELSE x[6]
      /\ x[8] = IF t + 2 = i /\ t + 2 = u THEN x[7] + w ELSE x[7]
      /\ x[9] = IF f + 2 = i /\ t + 2 = u /\ w # 0 THEN w ELSE x[8]
      /\ x[10] = IF f + 2 = i /\ f = u THEN x[9] + y0 ELSE x[9]
      /\ x[11] = IF f + 2 = i /\ f + 1 = u THEN x[10] + y1 ELSE x[10]
      /\ x[12] = IF f + 2 = i /\ t = u /\ y0 # 0 THEN y0 ELSE x[11]
      /\ x[13] = IF f + 2 = i /\ t + 1 = u /\ y1 # 0 THEN y1 ELSE x[12]
  <2>1. \A k \in 1 .. 13 : x[k] = After(x[k - 1], ops[k], i, u)
    BY <1>5 DEF Follows
  <2>2. /\ x[1] = After(x[0], ops[1], i, u) /\ x[2] = After(x[1], ops[2], i, u)
        /\ x[3] = After(x[2], ops[3], i, u) /\ x[4] = After(x[3], ops[4], i, u)
        /\ x[5] = After(x[4], ops[5], i, u) /\ x[6] = After(x[5], ops[6], i, u)
        /\ x[7] = After(x[6], ops[7], i, u) /\ x[8] = After(x[7], ops[8], i, u)
        /\ x[9] = After(x[8], ops[9], i, u) /\ x[10] = After(x[9], ops[10], i, u)
        /\ x[11] = After(x[10], ops[11], i, u) /\ x[12] = After(x[11], ops[12], i, u)
        /\ x[13] = After(x[12], ops[13], i, u)
    BY <2>1
  <2>3. /\ ops[1] = Add(f, f, w) /\ ops[2] = Add(t, t, w) /\ ops[3] = Ins(f, t, w)
        /\ ops[4] = Add(f + 1, f + 1, w) /\ ops[5] = Add(t + 1, t + 1, w)
        /\ ops[6] = Ins(f + 1, t + 1, w) /\ ops[7] = Add(f + 2, f + 2, w)
        /\ ops[8] = Add(t + 2, t + 2, w) /\ ops[9] = Ins(f + 2, t + 2, w)
        /\ ops[10] = Add(f + 2, f, y0) /\ ops[11] = Add(f + 2, f + 1, y1)
        /\ ops[12] = Ins(f + 2, t, y0) /\ ops[13] = Ins(f + 2, t + 1, y1)
    BY <1>4 DEF ConstraintList
  <2>4. QED BY <2>2, <2>3, AfterIs
<1>7. /\ x0 \in Int /\ r \in Int
      /\ i < t \/ (t + 2 < i /\ i < f) \/ i > f + 2 => r = x0
      /\ i = t => r = IF u = t THEN x0 + w ELSE x0
      /\ i = t + 1 => r = IF u = t + 1 THEN x0 + w ELSE x0
      /\ i = t + 2 => r = IF u = t + 2 THEN x0 + w ELSE x0
      /\ i = f => r = IF u = f THEN x0 + w ELSE IF u = t THEN w ELSE x0
      /\ i = f + 1 => r = IF u = f + 1 THEN x0 + w ELSE IF u = t + 1 THEN w ELSE x0
      /\ i = f + 2 => r = IF u = f + 2 THEN x0 + w ELSE IF u = t + 2 THEN w
                          ELSE IF u = f THEN x0 + y0 ELSE IF u = f + 1 THEN x0 + y1
                          ELSE IF u = t /\ y0 # 0 THEN y0
                          ELSE IF u = t + 1 /\ y1 # 0 THEN y1 ELSE x0
  <2>1. x0 \in Int /\ r \in Int /\ i \in Nat /\ u \in Nat
    <3>1. x[0] \in Int /\ x[13] \in Int
      OBVIOUS
    <3>2. QED BY <1>5, <3>1, Sizes
  <2> HIDE DEF r, x0
  <2>2. /\ i # f => x[1] = x[0] /\ x[3] = x[2]
        /\ i # t => x[2] = x[1]
        /\ i # f + 1 => x[4] = x[3] /\ x[6] = x[5]
        /\ i # t + 1 => x[5] = x[4]
        /\ i # f + 2 => /\ x[7] = x[6] /\ x[9] = x[8] /\ x[10] = x[9]
                       /\ x[11] = x[10] /\ x[12] = x[11] /\ x[13] = x[12]
        /\ i # t + 2 => x[8] = x[7]
    BY <1>6, Zenon
  <2>3. i < t \/ (t + 2 < i /\ i < f) \/ i > f + 2 => x[13] = x[0]
    <3>1. SUFFICES ASSUME i < t \/ (t + 2 < i /\ i < f) \/ i > f + 2 PROVE x[13] = x[0]
      OBVIOUS
    <3>2. i # f /\ i # f + 1 /\ i # f + 2 /\ i # t /\ i # t + 1 /\ i # t + 2
      BY <1>20, <2>1, <3>1
    <3>3. QED BY <2>2, <3>2
  <2>4. ASSUME i = t
        PROVE  x[13] = IF u = t THEN x[0] + w ELSE x[0]
    <3>1. i # f /\ i # f + 1 /\ i # f + 2 /\ i # t + 1 /\ i # t + 2
      BY <1>20, <2>1, <2>4
    <3>2. x[13] = x[2] /\ x[1] = x[0]
      BY <2>2, <3>1
    <3>3. QED BY <1>6, <2>4, <3>2, Zenon
  <2>5. ASSUME i = t + 1
        PROVE  x[13] = IF u = t + 1 THEN x[0] + w ELSE x[0]
    <3>1. i # f /\ i # f + 1 /\ i # f + 2 /\ i # t /\ i # t + 2
      BY <1>20, <2>1, <2>5
    <3>2. x[13] = x[5] /\ x[4] = x[0]
      BY <2>2, <3>1
    <3>3. QED BY <1>6, <2>5, <3>2, Zenon
  <2>6. ASSUME i = t + 2
        PROVE  x[13] = IF u = t + 2 THEN x[0] + w ELSE x[0]
    <3>1. i # f /\ i # f + 1 /\ i # f + 2 /\ i # t /\ i # t + 1
      BY <1>20, <2>1, <2>6
    <3>2. x[13] = x[8] /\ x[7] = x[0]
      BY <2>2, <3>1
    <3>3. QED BY <1>6, <2>6, <3>2, Zenon
  <2>7. ASSUME i = f
        PROVE  x[13] = IF u = f THEN x[0] + w ELSE IF u = t THEN w ELSE x[0]
    <3>1. /\ i # f + 1 /\ i # f + 2 /\ i # t /\ i # t + 1 /\ i # t + 2
          /\ f # t /\ w # 0
      BY <1>20, <2>1, <2>7
    <3>2. x[13] = x[3] /\ x[2] = x[1]
      BY <2>2, <3>1
    <3>3. x[1] = (IF u = f THEN x[0] + w ELSE x[0]) /\ x[3] = IF u = t THEN w ELSE x[2]
      BY <1>6, <2>7, <3>1, Zenon
    <3>4. QED BY <3>1, <3>2, <3>3
  <2>8. ASSUME i = f + 1
        PROVE  x[13] = IF u = f + 1 THEN x[0] + w ELSE IF u = t + 1 THEN w ELSE x[0]
    <3>1. /\ i # f /\ i # f + 2 /\ i # t /\ i # t + 1 /\ i # t + 2
          /\ f + 1 # t + 1 /\ w # 0
      BY <1>20, <2>1, <2>8
    <3>2. x[13] = x[6] /\ x[5] = x[4] /\ x[3] = x[0]
      BY <2>2, <3>1
    <3>3. x[4] = (IF u = f + 1 THEN x[3] + w ELSE x[3]) /\ x[6] = IF u = t + 1 THEN w ELSE x[5]
      BY <1>6, <2>8, <3>1, Zenon
    <3>4. QED BY <3>1, <3>2, <3>3
  <2>9. ASSUME i = f + 2
        PROVE  x[13] = IF u = f + 2 THEN x[0] + w ELSE IF u = t + 2 THEN w
                       ELSE IF u = f THEN x[0] + y0 ELSE IF u = f + 1 THEN x[0] + y1
                       ELSE IF u = t /\ y0 # 0 THEN y0
                       ELSE IF u = t + 1 /\ y1 # 0 THEN y1 ELSE x[0]
    <3>1. /\ i # f /\ i # f + 1 /\ i # t /\ i # t + 1 /\ i # t + 2 /\ w # 0
      BY <1>20, <2>1, <2>9
    <3>2. x[6] = x[0] /\ x[8] = x[7]
      BY <2>2, <3>1
    <3>3. /\ x[7] = IF u = f + 2 THEN x[6] + w ELSE x[6]
          /\ x[9] = IF u = t + 2 THEN w ELSE x[8]
          /\ x[10] = IF u = f THEN x[9] + y0 ELSE x[9]
          /\ x[11] = IF u = f + 1 THEN x[10] + y1 ELSE x[10]
          /\ x[12] = IF u = t /\ y0 # 0 THEN y0 ELSE x[11]
          /\ x[13] = IF u = t + 1 /\ y1 # 0 THEN y1 ELSE x[12]
      BY <1>6, <2>9, <3>1, Zenon
    <3>4. /\ u = f + 2 => u # t + 2 /\ u # f /\ u # f + 1 /\ u # t /\ u # t + 1
          /\ u = t + 2 => u # f /\ u # f + 1 /\ u # t /\ u # t + 1
          /\ u = f => u # f + 1 /\ u # t /\ u # t + 1
          /\ u = f + 1 => u # t /\ u # t + 1
          /\ u = t => u # t + 1
      BY <1>20, <2>1
    <3>5. CASE u = f + 2
      BY <3>2, <3>3, <3>4, <3>5
    <3>6. CASE u = t + 2
      BY <3>2, <3>3, <3>4, <3>6
    <3>7. CASE u # f + 2 /\ u # t + 2
      BY <3>2, <3>3, <3>4, <3>7
    <3>8. QED BY <3>5, <3>6, <3>7
  <2>10. QED BY <1>5, <2>1, <2>3, <2>4, <2>5, <2>6, <2>7, <2>8, <2>9
<1>8. PICK p \in Nat, v \in Nat, a \in 0 .. 2, d \in 0 .. 2 :
        /\ i = 3 * p + a /\ u = 3 * v + d /\ v <= p /\ (p = v => d <= a)
        /\ p = i \div 3 /\ a = i % 3 /\ v = u \div 3 /\ d = u % 3
  BY Coordinates
<1>9. y0 = (IF 0 \in s THEN w ELSE 0) /\ y1 = (IF 1 \in s THEN w ELSE 0)
  BY <1>1 DEF Yaw, ConstraintAt
<1> HIDE DEF r, x0, ops
<1>10. r = WithEdge(x0, edge, s, w, p, a, v, d)
  <2>1. CASE p = v
    <3>1. InBlock(edge, p, a, d, s) <=>
            \/ p \in {m, n} /\ a = d
            \/ p = m /\ a = 2 /\ d \in s
      <4>1. d <= a
        BY <1>8, <2>1
      <4>2. InBlock(edge, p, a, d, s) <=>
              \/ p \in {edge.from, edge.to} /\ a = d
              \/ p = edge.from /\ a = 2 /\ d \in s
        BY <4>1, BlockIs
      <4>3. edge.from = m /\ edge.to = n
        BY <1>2
      <4>4. QED BY <4>2, <4>3
    <3>2. CASE p = m
      BY <1>7, <1>20, <1>8, <1>9, <2>1, <3>1, <3>2 DEF WithEdge
    <3>3. CASE p = n
      BY <1>7, <1>20, <1>8, <1>9, <2>1, <3>1, <3>3 DEF WithEdge
    <3>4. CASE p # m /\ p # n
      <4>1. i < t \/ (t + 2 < i /\ i < f) \/ i > f + 2
        BY <1>8, <1>20, <3>4
      <4>2. QED BY <1>7, <2>1, <3>1, <3>4, <4>1 DEF WithEdge
    <3>5. QED BY <3>2, <3>3, <3>4
  <2>2. CASE p # v
    <3>1. Between(edge, p, a, v, d, s) <=>
            p = m /\ v = n /\ (a = d \/ (a = 2 /\ d \in s))
      <4>1. v < p
        <5>1. v <= p
          BY <1>8
        <5>2. QED BY <2>2, <5>1
      <4>2. edge.from \in Nat /\ edge.to \in Nat
        BY <1>2
      <4>3. edge.to < edge.from
        BY <1>2
      <4>4. Between(edge, p, a, v, d, s) <=>
              p = edge.from /\ v = edge.to /\ (a = d \/ (a = 2 /\ d \in s))
        BY <4>1, <4>2, <4>3, BetweenIs
      <4>5. QED BY <1>2, <4>4
    <3>2. CASE p = m /\ v = n
      BY <1>7, <1>20, <1>8, <1>9, <2>2, <3>1, <3>2 DEF WithEdge
    <3>3. CASE ~(p = m /\ v = n)
      <4>1. r = x0
        BY <1>7, <1>20, <1>8, <2>2, <3>3
      <4>2. QED BY <2>2, <3>1, <3>3, <4>1 DEF WithEdge
    <3>4. QED BY <3>2, <3>3
  <2>3. QED BY <2>1, <2>2
<1>11. QED BY <1>2, <1>8, <1>10 DEF r, x0, ops

(* The element of the prior alone.                                         *)
FromPrior(i, u) == IF i = u /\ i \div 3 = 0 THEN Weight(0) ELSE 0

LEMMA PriorReads ==
  ASSUME NEW H, Built(H), ~AllDone(H, PriorOps).overrun,
         NEW i \in Index, NEW u \in Index, u <= i, get_element(H, i, u) = 0
  PROVE  /\ get_element(AllDone(H, PriorOps), i, u) = FromPrior(i, u)
         /\ Fresh(FromPrior(i, u), 1, i, u)
<1>1. PICK w \in Nat : w = Weight(0) /\ w > 0
  BY WeightIs
<1>2. PriorOps = PriorList(w) /\ PriorOps \in [1 .. 5 -> LowerOp]
  BY <1>1, PriorOpsAre
<1>3. PICK x \in [0 .. 5 -> Int] :
        /\ x[0] = 0 /\ x[5] = get_element(AllDone(H, PriorOps), i, u)
        /\ Follows(x, PriorOps, 5, i, u)
  <2>1. 5 \in Nat
    OBVIOUS
  <2>2. PICK x \in [0 .. 5 -> Int] :
          /\ x[0] = get_element(H, i, u) /\ x[5] = get_element(AllDone(H, PriorOps), i, u)
          /\ Follows(x, PriorOps, 5, i, u)
    BY <1>2, <2>1, AllDoneReads, Zenon
  <2>3. QED BY <2>2
<1>4. /\ x[1] = IF 0 = i /\ 0 = u /\ w # 0 THEN w ELSE x[0]
      /\ x[2] = IF 1 = i /\ 1 = u /\ w # 0 THEN w ELSE x[1]
      /\ x[3] = IF 2 = i /\ 0 = u /\ 0 # 0 THEN 0 ELSE x[2]
      /\ x[4] = IF 2 = i /\ 1 = u /\ 0 # 0 THEN 0 ELSE x[3]
      /\ x[5] = IF 2 = i /\ 2 = u /\ w # 0 THEN w ELSE x[4]
  <2>1. \A k \in 1 .. 5 : x[k] = After(x[k - 1], PriorOps[k], i, u)
    BY <1>3 DEF Follows
  <2>2. /\ x[1] = After(x[0], PriorOps[1], i, u) /\ x[2] = After(x[1], PriorOps[2], i, u)
        /\ x[3] = After(x[2], PriorOps[3], i, u) /\ x[4] = After(x[3], PriorOps[4], i, u)
        /\ x[5] = After(x[4], PriorOps[5], i, u)
    BY <2>1
  <2>3. /\ PriorOps[1] = Ins(0, 0, w) /\ PriorOps[2] = Ins(1, 1, w)
        /\ PriorOps[3] = Ins(2, 0, 0) /\ PriorOps[4] = Ins(2, 1, 0)
        /\ PriorOps[5] = Ins(2, 2, w)
    BY <1>2 DEF PriorList
  <2>4. QED BY <2>2, <2>3, AfterIs
<1>5. i \in Nat /\ u \in Nat /\ i \div 3 \in Nat /\ (i \div 3 = 0 <=> i < 3)
  <2>1. i \in Nat /\ u \in Nat
    BY Sizes
  <2>2. i \div 3 \in Nat /\ i % 3 \in 0 .. 2 /\ i = 3 * (i \div 3) + (i % 3)
    BY <2>1, DivMod
  <2>3. \A p \in Nat, a \in 0 .. 2 : p = 0 <=> 3 * p + a < 3
    OBVIOUS
  <2>4. QED BY <2>1, <2>2, <2>3
<1>6. x[5] = IF i = u /\ i < 3 THEN w ELSE 0
  BY <1>1, <1>3, <1>4, <1>5
<1>7. FromPrior(i, u) = IF i = u /\ i < 3 THEN w ELSE 0
  BY <1>1, <1>5 DEF FromPrior
<1>8. Fresh(FromPrior(i, u), 1, i, u)
  BY <1>5, <1>7 DEF Fresh
<1>9. QED BY <1>3, <1>6, <1>7, <1>8

----------------------------------------------------------------------------
(* What H becomes, edge by edge *)

EdgeCount(graph) == NrOfPoses - 1 + Len(graph)

BlockEdges(graph, of, i, u) ==
  {e \in DOMAIN Edges(graph) :
     InBlock(Edges(graph)[e], i \div 3, i % 3, u % 3, of[e])}

BetweenEdges(graph, of, i, u) ==
  {e \in DOMAIN Edges(graph) :
     Between(Edges(graph)[e], i \div 3, i % 3, u \div 3, u % 3, of[e])}

(* What the edges leave in element i, u: their sum in the blocks on the    *)
(* diagonal, elsewhere the last one of them.                               *)
Assembled(graph, of, i, u) ==
  IF i \div 3 = u \div 3
    THEN EdgeSum(BlockEdges(graph, of, i, u), FromPrior(i, u), EdgeCount(graph))
    ELSE IF BetweenEdges(graph, of, i, u) = {} THEN 0
         ELSE Weight(Max(BetweenEdges(graph, of, i, u)))

EdgeSumSteps(g, edges, prior, n) ==
  /\ g \in [0 .. n -> Nat] /\ g[0] = prior /\ g[n] = EdgeSum(edges, prior, n)
  /\ \A k \in 1 .. n : g[k] = EdgeAdded(edges, g[k - 1], Upwards(1, n)[k])

LEMMA EdgeFold ==
  ASSUME NEW edges, NEW prior \in Nat, NEW n \in Nat
  PROVE  \E g : EdgeSumSteps(g, edges, prior, n)
<1> DEFINE f == [p \in (Nat) \X (1 .. n) |-> EdgeAdded(edges, p[1], Upwards(1, n)[p[2]])]
           P(g) == g = [s \in SUBSET (DOMAIN Upwards(1, n)) |->
                          IF s = {} THEN prior
                          ELSE EdgeAdded(edges, g[s \ {Max(s)}], Upwards(1, n)[Max(s)])]
           h == CHOOSE g : P(g)
<1>1. n \in Nat /\ DOMAIN Upwards(1, n) = 1 .. n /\ prior \in Nat
  BY UpwardsFromOne
<1>2. \A a \in Nat, k \in 1 .. n : EdgeAdded(edges, a, Upwards(1, n)[k]) \in Nat
  <2> TAKE a \in Nat, k \in 1 .. n
  <2>1. Upwards(1, n)[k] \in Nat
    BY UpwardsFromOne
  <2>2. QED BY <2>1, WeightIs DEF EdgeAdded
<1>3. EdgeSum(edges, prior, n) = h[DOMAIN Upwards(1, n)]
  BY DEF EdgeSum, FoldLeft, MapThenFoldSet
<1>4. f \in [(Nat) \X (1 .. n) -> Nat]
  BY <1>2
<1> HIDE DEF h
<1>5. P(h)
  <2>1. PICK g \in [SUBSET (1 .. n) -> Nat] : FoldOf(f, prior, n, g)
    BY <1>1, <1>4, FoldExists
  <2>2. ASSUME NEW s \in SUBSET (1 .. n), s # {}
        PROVE  g[s] = EdgeAdded(edges, g[s \ {Max(s)}], Upwards(1, n)[Max(s)])
    <3>1. Max(s) \in s
      BY <1>1, <2>2, GreatestIn
    <3>2. g[s \ {Max(s)}] \in Nat
      OBVIOUS
    <3>3. g[s] = f[<<g[s \ {Max(s)}], Max(s)>>]
      BY <2>1, <2>2 DEF FoldOf
    <3>4. QED BY <3>1, <3>2, <3>3
  <2>3. g[{}] = prior
    BY <2>1 DEF FoldOf
  <2>4. P(g)
    BY <1>1, <2>2, <2>3
  <2>5. QED BY <2>4 DEF h
<1>6. h[1 .. 0] = prior
  BY <1>1, <1>5, Nothing
<1>7. ASSUME NEW k \in 1 .. n, h[1 .. k - 1] \in Nat
      PROVE  h[1 .. k] = f[<<h[1 .. k - 1], k>>]
  <2>1. Max(1 .. k) = k /\ (1 .. k) \ {k} = 1 .. k - 1 /\ 1 .. k # {}
        /\ 1 .. k \in SUBSET (1 .. n)
    BY <1>1, FirstPlaces
  <2>2. h[1 .. k] = EdgeAdded(edges, h[1 .. k - 1], Upwards(1, n)[k])
    BY <1>1, <1>5, <2>1
  <2>3. QED BY <1>7, <2>2
<1> HIDE DEF f
<1>8. PICK c \in [0 .. n -> Nat] : Chain(c, f, prior, n, h[1 .. n])
  <2>1. HasSteps(h, f, Nat, n)
    BY <1>7 DEF HasSteps
  <2>2. QED BY <1>1, <1>4, <1>6, <2>1, ChainOf
<1>9. \A k \in 1 .. n : c[k] = EdgeAdded(edges, c[k - 1], Upwards(1, n)[k])
  <2> TAKE k \in 1 .. n
  <2>1. c[k - 1] \in Nat
    BY <1>1
  <2>2. QED BY <1>8, <2>1 DEF Chain, f
<1>10. EdgeSumSteps(c, edges, prior, n)
  BY <1>1, <1>3, <1>8, <1>9 DEF Chain, EdgeSumSteps
<1>11. QED BY <1>10

(* Element i, u after edge k, if it was x before it.                       *)
WithEdgeOf(x, graph, of, k, i, u) ==
  WithEdge(x, Edges(graph)[k], of[k], Weight(k), i \div 3, i % 3, u \div 3, u % 3)

LEMMA EdgesAre ==
  ASSUME NEW graph \in Seq(Constraint)
  PROVE  /\ EdgeCount(graph) \in Nat /\ DOMAIN Edges(graph) = 1 .. EdgeCount(graph)
         /\ NrOfPoses - 1 <= EdgeCount(graph)
         /\ \A k \in 1 .. NrOfPoses - 1 : Edges(graph)[k] = [from |-> k - 1, to |-> k]
         /\ \A k \in 1 .. Len(graph) :
              NrOfPoses - 1 + k \in 1 .. EdgeCount(graph)
              /\ Edges(graph)[NrOfPoses - 1 + k] = graph[k]
<1>1. NrOfPoses \in Nat /\ NrOfPoses > 0 /\ Len(graph) \in Nat
  BY PosesAre
<1>2. EdgeCount(graph) \in Nat /\ NrOfPoses - 1 <= EdgeCount(graph)
  BY <1>1 DEF EdgeCount
<1>3. DOMAIN Edges(graph) = 1 .. EdgeCount(graph)
  BY DEF Edges, EdgeCount
<1>4. ASSUME NEW k \in 1 .. NrOfPoses - 1
      PROVE  Edges(graph)[k] = [from |-> k - 1, to |-> k]
  <2>1. k \in 1 .. NrOfPoses - 1 + Len(graph) /\ k < NrOfPoses
    BY <1>1
  <2>2. QED BY <2>1 DEF Edges
<1>5. ASSUME NEW k \in 1 .. Len(graph)
      PROVE  NrOfPoses - 1 + k \in 1 .. EdgeCount(graph)
             /\ Edges(graph)[NrOfPoses - 1 + k] = graph[k]
  <2>1. PICK e : e = NrOfPoses - 1 + k
    OBVIOUS
  <2>2. e \in 1 .. NrOfPoses - 1 + Len(graph) /\ ~(e < NrOfPoses) /\ e - NrOfPoses + 1 = k
    BY <1>1, <2>1
  <2>3. Edges(graph)[e] = graph[k]
    BY <2>2 DEF Edges
  <2>4. QED BY <2>1, <2>2, <2>3 DEF EdgeCount
<1>6. QED BY <1>2, <1>3, <1>4, <1>5

(* What the edges leave is the last value of a chain of edges.             *)
AssembledChain(g, graph, of, i, u) ==
  /\ g[0] = FromPrior(i, u) /\ g[EdgeCount(graph)] = Assembled(graph, of, i, u)
  /\ \A k \in 1 .. EdgeCount(graph) : g[k] = WithEdgeOf(g[k - 1], graph, of, k, i, u)

LEMMA AssembledInBlock ==
  ASSUME NEW graph \in Seq(Constraint), NEW of, NEW i \in Index, NEW u \in Index,
         i \div 3 = u \div 3
  PROVE  \E g \in [0 .. EdgeCount(graph) -> Nat] : AssembledChain(g, graph, of, i, u)
<1> DEFINE n == EdgeCount(graph)
           edges == BlockEdges(graph, of, i, u)
<1>1. n \in Nat /\ DOMAIN Edges(graph) = 1 .. n
  BY EdgesAre
<1>2. FromPrior(i, u) \in Nat
  BY WeightIs DEF FromPrior
<1>3. PICK g : EdgeSumSteps(g, edges, FromPrior(i, u), n)
  <2> HIDE DEF n, edges
  <2>1. QED BY <1>1, <1>2, EdgeFold
<1>4. g[n] = Assembled(graph, of, i, u)
  BY <1>3 DEF EdgeSumSteps, Assembled
<1>5. ASSUME NEW k \in 1 .. n
      PROVE  g[k] = WithEdgeOf(g[k - 1], graph, of, k, i, u)
  <2>1. g[k] = EdgeAdded(edges, g[k - 1], k)
    BY <1>1, <1>3, UpwardsFromOne DEF EdgeSumSteps
  <2>2. k \in edges <=> InBlock(Edges(graph)[k], i \div 3, i % 3, u % 3, of[k])
    BY <1>1 DEF BlockEdges
  <2>3. QED BY <2>1, <2>2 DEF EdgeAdded, WithEdgeOf, WithEdge
<1>6. QED BY <1>3, <1>4, <1>5 DEF AssembledChain, EdgeSumSteps

LEMMA AssembledBetween ==
  ASSUME NEW graph \in Seq(Constraint), NEW of, NEW i \in Index, NEW u \in Index,
         i \div 3 # u \div 3
  PROVE  \E g \in [0 .. EdgeCount(graph) -> Nat] : AssembledChain(g, graph, of, i, u)
<1> DEFINE n == EdgeCount(graph)
           edges == BetweenEdges(graph, of, i, u)
           first(k) == edges \cap (1 .. k)
           g == [k \in 0 .. n |-> IF first(k) = {} THEN 0 ELSE Weight(Max(first(k)))]
<1>1. n \in Nat /\ DOMAIN Edges(graph) = 1 .. n
  BY EdgesAre
<1>2. edges \in SUBSET (1 .. n)
  BY <1>1 DEF BetweenEdges
<1>3. \A k \in 1 .. n :
        k \in edges <=> Between(Edges(graph)[k], i \div 3, i % 3, u \div 3, u % 3, of[k])
  BY <1>1 DEF BetweenEdges
<1>4. FromPrior(i, u) = 0
  BY DEF FromPrior
<1>5. Assembled(graph, of, i, u) = IF edges = {} THEN 0 ELSE Weight(Max(edges))
  BY DEF Assembled
<1> HIDE DEF n, edges
<1>6. ASSUME NEW k \in 0 .. n
      PROVE  g[k] \in Nat
  <2>1. CASE first(k) = {}
    BY <2>1
  <2>2. CASE first(k) # {}
    <3>1. k \in Nat /\ first(k) \in SUBSET (1 .. k)
      BY <1>1
    <3>2. Max(first(k)) \in first(k)
      BY <2>2, <3>1, GreatestIn
    <3>3. Max(first(k)) \in Nat
      BY <3>1, <3>2
    <3>4. QED BY <2>2, <3>3, WeightIs
  <2>3. QED BY <2>1, <2>2
<1>7. g[0] = 0
  <2>1. first(0) = {} /\ 0 \in 0 .. n
    BY <1>1
  <2>2. QED BY <2>1
<1>8. g[n] = IF edges = {} THEN 0 ELSE Weight(Max(edges))
  <2>1. \A x : x \in edges <=> x \in edges /\ x \in 1 .. n
    BY <1>2
  <2>2. first(n) = edges /\ n \in 0 .. n
    BY <1>1, <2>1
  <2>3. QED BY <2>2
<1>9. ASSUME NEW k \in 1 .. n
      PROVE  g[k] = IF k \in edges THEN Weight(k) ELSE g[k - 1]
  <2>1. k \in 0 .. n /\ k - 1 \in 0 .. n /\ k \in Nat
    BY <1>1
  <2>2. CASE k \in edges
    <3>1. first(k) \in SUBSET (1 .. k) /\ k \in first(k)
      BY <2>1, <2>2
    <3>2. Max(first(k)) = k
      BY <2>1, <3>1, GreatestOfFirst
    <3>3. QED BY <2>1, <2>2, <3>1, <3>2
  <2>3. CASE k \notin edges
    <3>1. \A x \in edges : x \in 1 .. k <=> x \in 1 .. k - 1
      BY <1>1, <1>2, <2>1, <2>3
    <3>2. first(k) = first(k - 1)
      BY <3>1
    <3>3. QED BY <2>1, <2>3, <3>2
  <2>4. QED BY <2>2, <2>3
<1>10. g \in [0 .. n -> Nat]
  BY <1>6
<1> HIDE DEF g
<1>11. \A k \in 1 .. n : g[k] = WithEdgeOf(g[k - 1], graph, of, k, i, u)
  BY <1>3, <1>9 DEF WithEdgeOf, WithEdge
<1>12. AssembledChain(g, graph, of, i, u)
  BY <1>4, <1>5, <1>7, <1>8, <1>11 DEF AssembledChain, n
<1>13. QED BY <1>10, <1>12 DEF n

LEMMA AssembledSteps ==
  ASSUME NEW graph \in Seq(Constraint), NEW of, NEW i \in Index, NEW u \in Index
  PROVE  \E g \in [0 .. EdgeCount(graph) -> Nat] : AssembledChain(g, graph, of, i, u)
BY AssembledInBlock, AssembledBetween

----------------------------------------------------------------------------
(* H is what its edges leave *)

(* What the matrix has to read as before odometry edge e.                  *)
ReadsFresh(m, x, e, i, u) ==
  m.overrun \/ (get_element(m, i, u) = x /\ Fresh(x, e, i, u))

LEMMA OdometryChainReads ==
  ASSUME NEW H, Built(H), NEW graph \in Seq(Constraint),
         NEW of \in [1 .. EdgeCount(graph) -> SUBSET {0, 1}],
         NEW i \in Index, NEW u \in Index, u <= i, NEW g,
         \A k \in 1 .. EdgeCount(graph) : g[k] = WithEdgeOf(g[k - 1], graph, of, k, i, u),
         ReadsFresh(H, g[0], 1, i, u)
  PROVE  ReadsFresh(OdometryChain(H, of), g[NrOfPoses - 1], NrOfPoses, i, u)
<1> DEFINE n == NrOfPoses - 1

<1>1. PICK c \in [0 .. n -> BuiltMatrix] :
        /\ c[0] = H /\ c[n] = OdometryChain(H, of)
        /\ \A k \in 1 .. n : c[k] = OdometryStep(c[k - 1], Upwards(1, NrOfPoses - 1)[k], of)
  BY OdometryFold
<1>2. n \in Nat /\ n + 1 = NrOfPoses /\ \A k \in 1 .. n : Upwards(1, NrOfPoses - 1)[k] = k
  BY PosesAre, PosesLess, UpwardsFromOne
<1>3. \A k \in 1 .. n : k \in 1 .. NrOfPoses - 1 /\ k \in 1 .. EdgeCount(graph)
  BY EdgesAre, PosesLess
<1> HIDE DEF n
<1> DEFINE T == {k \in 0 .. n : ReadsFresh(c[k], g[k], k + 1, i, u)}
<1>4. 0 \in T
  BY <1>1, <1>2
<1>5. ASSUME NEW k \in 1 .. n, k - 1 \in T
      PROVE  k \in T
  <2>1. k - 1 \in 0 .. n /\ k \in 0 .. n /\ (k - 1) + 1 = k
    BY <1>2
  <2>2. Built(c[k - 1])
    <3>1. c[k - 1] \in BuiltMatrix
      BY <2>1
    <3>2. QED BY <3>1 DEF BuiltMatrix
  <2>3. c[k] = AllDone(c[k - 1], OdometryOps(k, of[k]))
    BY <1>1, <1>2 DEF OdometryStep
  <2>4. c[k - 1].overrun => c[k].overrun
    BY <1>3, <2>2, <2>3, OdometryFills DEF Fills
  <2>5. of[k] \in SUBSET {0, 1}
    BY <1>3
  <2>6. ReadsFresh(c[k - 1], g[k - 1], k, i, u)
    BY <1>5, <2>1
  <2>7. ASSUME ~c[k].overrun
        PROVE  get_element(c[k], i, u) = g[k] /\ Fresh(g[k], k + 1, i, u)
    <3>1. get_element(c[k - 1], i, u) = g[k - 1] /\ Fresh(g[k - 1], k, i, u)
      BY <2>4, <2>6, <2>7 DEF ReadsFresh
    <3>2. PICK r : r = get_element(c[k], i, u)
      OBVIOUS
    <3>3. r = WithEdge(g[k - 1], [from |-> k - 1, to |-> k], of[k], Weight(k),
                       i \div 3, i % 3, u \div 3, u % 3)
          /\ Fresh(r, k + 1, i, u)
      BY <1>3, <2>2, <2>3, <2>5, <2>7, <3>1, <3>2, OdometryReads
    <3>4. Edges(graph)[k] = [from |-> k - 1, to |-> k]
      BY <1>3, EdgesAre
    <3>5. g[k] = r
      BY <1>3, <3>3, <3>4 DEF WithEdgeOf
    <3>6. QED BY <3>2, <3>3, <3>5
  <2>8. QED BY <2>1, <2>7 DEF ReadsFresh
<1> HIDE DEF T
<1>6. \A k \in 0 .. n : k \in T
  BY <1>2, <1>4, <1>5, UpTo
<1>7. n \in 0 .. n
  BY <1>2
<1>8. ReadsFresh(c[n], g[n], n + 1, i, u)
  BY <1>6, <1>7 DEF T
<1>9. QED BY <1>1, <1>2, <1>8 DEF n

LEMMA LoopChainReads ==
  ASSUME NEW H, Built(H), NEW graph \in Seq(Constraint),
         NEW of \in [1 .. EdgeCount(graph) -> SUBSET {0, 1}],
         NEW i \in Index, NEW u \in Index, u <= i, NEW g,
         \A k \in 1 .. EdgeCount(graph) : g[k] = WithEdgeOf(g[k - 1], graph, of, k, i, u),
         H.overrun \/ get_element(H, i, u) = g[NrOfPoses - 1]
  PROVE  LoopChain(H, graph, of).overrun
         \/ get_element(LoopChain(H, graph, of), i, u) = g[EdgeCount(graph)]
<1> DEFINE n == Len(graph)
<1>0. PICK c : LoopSteps(c, H, graph, of)
  BY LoopFold
<1>1. /\ c \in [0 .. n -> BuiltMatrix] /\ c[0] = H /\ c[n] = LoopChain(H, graph, of)
      /\ \A k \in 1 .. n : c[k] = LoopStep(c[k - 1], Upwards(1, Len(graph))[k], graph, of)
  BY <1>0 DEF LoopSteps
<1>2. n \in Nat /\ \A k \in 1 .. n : Upwards(1, Len(graph))[k] = k /\ graph[k] \in Constraint
  BY UpwardsFromOne
<1>3. EdgeCount(graph) = NrOfPoses - 1 + n
  BY DEF EdgeCount
<1>4. \A k \in 1 .. n : NrOfPoses - 1 + k \in 1 .. EdgeCount(graph)
                         /\ Edges(graph)[NrOfPoses - 1 + k] = graph[k]
  BY EdgesAre
<1> HIDE DEF n
<1> DEFINE T == {k \in 0 .. n : c[k].overrun \/ get_element(c[k], i, u) = g[NrOfPoses - 1 + k]}
<1>5. 0 \in T
  <2>1. NrOfPoses - 1 + 0 = NrOfPoses - 1 /\ 0 \in 0 .. n
    BY <1>2, PosesLess
  <2>2. c[0].overrun \/ get_element(c[0], i, u) = g[NrOfPoses - 1 + 0]
    BY <1>1, <2>1
  <2>3. QED BY <2>1, <2>2
<1>6. ASSUME NEW k \in 1 .. n, k - 1 \in T
      PROVE  k \in T
  <2>1. k - 1 \in 0 .. n /\ k \in 0 .. n /\ NrOfPoses - 1 + k \in Nat
        /\ (NrOfPoses - 1 + k) - 1 = NrOfPoses - 1 + (k - 1)
    BY <1>2, PosesLess
  <2>2. Built(c[k - 1])
    <3>1. c[k - 1] \in BuiltMatrix
      BY <1>1, <2>1
    <3>2. QED BY <3>1 DEF BuiltMatrix
  <2>3. PICK e \in Nat : e = NrOfPoses - 1 + k
    BY <2>1
  <2>4. c[k] = AllDone(c[k - 1], ConstraintOps(e, graph[k], of[e]))
    BY <1>1, <1>2, <2>3 DEF LoopStep
  <2>5. e \in 1 .. EdgeCount(graph) /\ Edges(graph)[e] = graph[k] /\ of[e] \in SUBSET {0, 1}
    BY <1>4, <2>3
  <2>6. c[k - 1].overrun => c[k].overrun
    BY <1>2, <2>2, <2>3, <2>4, ConstraintFills DEF Fills
  <2>7. c[k - 1].overrun \/ get_element(c[k - 1], i, u) = g[e - 1]
    BY <1>6, <2>1, <2>3
  <2>8. ASSUME ~c[k].overrun
        PROVE  get_element(c[k], i, u) = g[e]
    <3>1. get_element(c[k - 1], i, u) = g[e - 1]
      BY <2>6, <2>7, <2>8
    <3>2. get_element(c[k], i, u) =
            WithEdge(g[e - 1], graph[k], of[e], Weight(e), i \div 3, i % 3, u \div 3, u % 3)
      BY <1>2, <2>2, <2>4, <2>5, <2>8, <3>1, ConstraintReads
    <3>3. g[e] = WithEdgeOf(g[e - 1], graph, of, e, i, u)
      BY <2>5
    <3>4. QED BY <2>5, <3>2, <3>3 DEF WithEdgeOf
  <2>9. c[k].overrun \/ get_element(c[k], i, u) = g[NrOfPoses - 1 + k]
    BY <2>3, <2>8
  <2>10. QED BY <2>1, <2>9
<1> HIDE DEF T
<1>7. \A k \in 0 .. n : k \in T
  BY <1>2, <1>5, <1>6, UpTo
<1>8. n \in 0 .. n
  BY <1>2
<1>9. c[n].overrun \/ get_element(c[n], i, u) = g[NrOfPoses - 1 + n]
  BY <1>7, <1>8 DEF T
<1>10. QED BY <1>1, <1>3, <1>9

(* Each element on and below the diagonal is what the edges leave there.   *)
LEMMA AssembledResult ==
  ASSUME NEW graph \in Seq(Constraint), NEW of \in [1 .. EdgeCount(graph) -> SUBSET {0, 1}],
         ~build_H_and_b(EmptyCsr, graph, of).overrun,
         NEW i \in Index, NEW u \in Index, u <= i
  PROVE  get_element(build_H_and_b(EmptyCsr, graph, of), i, u) = Assembled(graph, of, i, u)
<1>1. Built(EmptyCsr) /\ get_element(EmptyCsr, i, u) = 0
  BY EmptyBuilt, NoElement
<1>2. PICK p : p = AllDone(EmptyCsr, PriorOps)
  OBVIOUS
<1>3. PICK m : m = OdometryChain(p, of)
  OBVIOUS
<1>4. Built(p)
  BY <1>1, <1>2, PriorFills
<1>5. Built(m)
  BY <1>3, <1>4, OdometryChainFills
<1>6. PICK g \in [0 .. EdgeCount(graph) -> Nat] : AssembledChain(g, graph, of, i, u)
  BY AssembledSteps
<1>7. /\ g[0] = FromPrior(i, u) /\ g[EdgeCount(graph)] = Assembled(graph, of, i, u)
      /\ \A k \in 1 .. EdgeCount(graph) : g[k] = WithEdgeOf(g[k - 1], graph, of, k, i, u)
  BY <1>6 DEF AssembledChain
<1>8. ReadsFresh(p, g[0], 1, i, u)
  BY <1>1, <1>2, <1>7, PriorReads DEF ReadsFresh
<1>9. ReadsFresh(m, g[NrOfPoses - 1], NrOfPoses, i, u)
  BY <1>3, <1>4, <1>7, <1>8, OdometryChainReads
<1>10. m.overrun \/ get_element(m, i, u) = g[NrOfPoses - 1]
  BY <1>9 DEF ReadsFresh
<1>11. LoopChain(m, graph, of).overrun
       \/ get_element(LoopChain(m, graph, of), i, u) = g[EdgeCount(graph)]
  <2>1. \A k \in 1 .. EdgeCount(graph) : g[k] = WithEdgeOf(g[k - 1], graph, of, k, i, u)
    BY <1>7
  <2>2. QED BY <1>5, <1>10, <2>1, LoopChainReads, ZenonT(30)
<1>12. LoopChain(m, graph, of) = build_H_and_b(EmptyCsr, graph, of)
  BY <1>2, <1>3, BuildIs
<1>13. QED BY <1>7, <1>11, <1>12

(* Where one edge at most joins two poses, this is the sum of all edges.   *)
LEMMA AssembledIsSum ==
  ASSUME NEW graph \in Seq(Constraint), NEW of, NEW i \in Index, NEW u \in Index,
         JoinedOnce(graph, i \div 3, u \div 3)
  PROVE  Cumulative(graph, of, i, u) = Assembled(graph, of, i, u)
<1> DEFINE n == EdgeCount(graph)
           edges == BetweenEdges(graph, of, i, u)
<1>1. CASE i \div 3 = u \div 3
  <2>1. Cumulative(graph, of, i, u) =
          EdgeSum(BlockEdges(graph, of, i, u), FromPrior(i, u), n)
    BY <1>1 DEF Cumulative, BlockEdges, FromPrior, EdgeCount
  <2>2. QED BY <1>1, <2>1 DEF Assembled
<1>2. CASE i \div 3 # u \div 3
  <2>1. Cumulative(graph, of, i, u) = EdgeSum(edges, 0, n)
    BY <1>2 DEF Cumulative, BetweenEdges, EdgeCount
  <2>2. n \in Nat /\ edges \in SUBSET (1 .. n)
    BY EdgesAre DEF BetweenEdges
  <2>3. \A e, f \in edges : e = f
    <3>1. \A e \in edges :
            e \in DOMAIN Edges(graph)
            /\ {Edges(graph)[e].from, Edges(graph)[e].to} = {i \div 3, u \div 3}
      BY DEF BetweenEdges, Between
    <3>2. QED BY <3>1 DEF JoinedOnce
  <2>4. Assembled(graph, of, i, u) = IF edges = {} THEN 0 ELSE Weight(Max(edges))
    BY <1>2 DEF Assembled
  <2> HIDE DEF n, edges
  <2>5. PICK g : EdgeSumSteps(g, edges, 0, n)
    BY <2>2, EdgeFold
  <2>6. /\ g[0] = 0 /\ g[n] = EdgeSum(edges, 0, n)
        /\ \A k \in 1 .. n : g[k] = EdgeAdded(edges, g[k - 1], k)
    BY <2>2, <2>5, UpwardsFromOne DEF EdgeSumSteps
  <2>7. CASE edges = {}
    <3> DEFINE T == {k \in 0 .. n : g[k] = 0}
    <3>1. 0 \in T
      BY <2>2, <2>6
    <3>2. \A k \in 1 .. n : k - 1 \in T => k \in T
      BY <2>2, <2>6, <2>7 DEF EdgeAdded
    <3> HIDE DEF T
    <3>3. n \in T
      BY <2>2, <3>1, <3>2, UpTo
    <3>4. QED BY <2>1, <2>4, <2>6, <2>7, <3>3 DEF T
  <2>8. CASE edges # {}
    <3>1. PICK m \in edges : edges = {m}
      BY <2>3, <2>8
    <3>2. m \in 1 .. n /\ Weight(m) \in Nat
      BY <2>2, WeightIs
    <3>3. Max(edges) = m
      BY <2>2, <2>8, <3>1, GreatestIn
    <3> DEFINE T == {k \in 0 .. n : g[k] = IF m <= k THEN Weight(m) ELSE 0}
    <3>4. 0 \in T
      BY <2>2, <2>6, <3>2
    <3>5. ASSUME NEW k \in 1 .. n, k - 1 \in T PROVE k \in T
      <4>1. k \in 0 .. n /\ g[k - 1] = IF m <= k - 1 THEN Weight(m) ELSE 0
        BY <2>2, <3>5
      <4>2. g[k] = IF k = m THEN g[k - 1] + Weight(k) ELSE g[k - 1]
        BY <2>6, <3>1 DEF EdgeAdded
      <4>3. CASE k = m
        <5>1. g[k] = 0 + Weight(m) /\ m <= k
          BY <3>2, <4>1, <4>2, <4>3
        <5>2. QED BY <3>2, <4>1, <5>1
      <4>4. CASE k # m
        <5>1. m <= k <=> m <= k - 1
          BY <3>2, <4>1, <4>4
        <5>2. QED BY <4>1, <4>2, <4>4, <5>1
      <4>5. QED BY <4>3, <4>4
    <3> HIDE DEF T
    <3>6. \A k \in 0 .. n : k \in T
      BY <2>2, <3>4, <3>5, UpTo
    <3>7. g[n] = Weight(m)
      BY <2>2, <3>2, <3>6 DEF T
    <3>8. QED BY <2>1, <2>4, <2>6, <2>8, <3>3, <3>7
  <2>9. QED BY <2>7, <2>8
<1>3. QED BY <1>1, <1>2

LEMMA AssembledNext == SolverInv /\ HAssembled /\ HasRoom' /\ [Next]_vars => HAssembled'
<1>1. SUFFICES ASSUME SolverInv, HAssembled, HasRoom', [Next]_vars, phase' = "rcm"
               PROVE  HAssembled'
  BY DEF HAssembled
<1>2. CASE UNCHANGED vars \/ Finished
  <2>1. phase' = phase /\ sp_mat0' = sp_mat0 /\ constraints' = constraints /\ dist' = dist
    BY <1>2 DEF Finished, vars, rcmVars, slamVars
  <2>2. QED BY <1>1, <2>1 DEF HAssembled
<1>3. CASE Build
  <2>1. /\ sp_mat0' = build_H_and_b(EmptyCsr, constraints, dist)
        /\ constraints' = constraints /\ dist' = dist
    BY <1>3 DEF Build, init_sp_mat
  <2>2. constraints \in Seq(Constraint)
        /\ dist \in [1 .. EdgeCount(constraints) -> SUBSET {0, 1}]
    BY <1>1, GraphIs DEF SolverInv, EdgeCount
  <2>3. ~sp_mat0'.overrun
    BY <1>1 DEF HasRoom
  <2>4. ASSUME NEW i \in Unknown, NEW k \in 0 .. i,
               JoinedOnce(constraints, i \div 3, k \div 3)
        PROVE  get_element(sp_mat0', i, k) = Cumulative(constraints, dist, i, k)
    <3>1. i \in Index /\ k \in Index /\ k <= i
      BY <2>4, Sizes DEF Unknown, Index
    <3>2. get_element(sp_mat0', i, k) = Assembled(constraints, dist, i, k)
      BY <2>1, <2>2, <2>3, <3>1, AssembledResult
    <3>3. QED BY <2>2, <2>4, <3>1, <3>2, AssembledIsSum
  <2>5. QED BY <2>1, <2>4 DEF HAssembled
<1>4. CASE StartOrder \/ Order \/ EndOrder \/ SendTask \/ Decompose \/ TaskEnds
           \/ forward_substitution \/ backward_substitution \/ Update
  <2>1. phase' # "rcm"
    BY <1>4 DEF StartOrder, Order, EndOrder, SendTask, Decompose, TaskEnds, slamVars,
                forward_substitution, backward_substitution, Update, Goto
  <2>2. QED BY <1>1, <2>1
<1>5. QED BY <1>1, <1>2, <1>3, <1>4 DEF Next

(* Whatever the graph, H has the sum of all edges in the blocks on its     *)
(* diagonal and between any two poses that one edge joins, as long as      *)
(* there is room (build_H_and_b).                                          *)
THEOREM AssembledTheorem == Spec /\ []HasRoom => []HAssembled
<1>1. Init => HAssembled
  BY DEF Init, HAssembled
<1>2. SolverInv /\ HAssembled /\ HasRoom' /\ [Next]_vars => HAssembled'
  BY AssembledNext
<1>3. QED BY <1>1, <1>2, SolverInvariant, PTL DEF Spec

(* There is room where a matrix that is full below its diagonal fits.     *)
THEOREM AssembledInRoom ==
  ASSUME RoomForFactor
  PROVE  Spec => []HAssembled
BY RoomTheorem, AssembledTheorem, PTL
=============================================================================
