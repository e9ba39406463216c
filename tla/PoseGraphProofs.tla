-------------------------- MODULE PoseGraphProofs --------------------------
(***************************************************************************)
(* Proofs about PoseGraph: an optimisation moves every pose of the table   *)
(* once, whatever was matched before; every constraint that the loop over  *)
(* the scan poses reaches is an edge of the graph that is solved; and if   *)
(* it reaches them all, the first optimisation solves the graph of the     *)
(* constraints that were found.                                            *)
(*                                                                         *)
(* First PlaceIn, which numbers a set of poses from 0 in their order; then *)
(* the sorted list of the scan poses, which is no shorter than the table   *)
(* of the constraints; then the steps.                                     *)
(***************************************************************************)
EXTENDS PoseGraph, SequenceTheorems, FiniteSetTheorems, TLAPS

----------------------------------------------------------------------------
(* Places in a set of poses. *)

LEMMA Finite ==
  ASSUME NEW n \in Nat, NEW S \in SUBSET (0 .. n)
  PROVE  IsFiniteSet(S) /\ Cardinality(S) \in Nat /\ \A p \in S : p \in Nat
<1>1. 0 \in Int /\ n \in Int
  OBVIOUS
<1>2. IsFiniteSet(0 .. n)
  BY <1>1, FS_Interval
<1>3. IsFiniteSet(S)
  BY <1>2, FS_Subset
<1>4. Cardinality(S) \in Nat
  BY <1>3, FS_CardinalityType
<1>5. \A p \in S : p \in Nat
  OBVIOUS
<1>6. QED BY <1>3, <1>4, <1>5

(* At most p poses come before pose p.                                     *)
LEMMA PlaceType ==
  ASSUME NEW n \in Nat, NEW S \in SUBSET (0 .. n), NEW p \in Nat
  PROVE  /\ IsFiniteSet({q \in S : q < p})
         /\ PlaceIn(S, p) \in Nat /\ PlaceIn(S, p) <= p
<1> DEFINE Before == {q \in S : q < p}
<1>1. IsFiniteSet(0 .. p - 1) /\ Cardinality(0 .. p - 1) = p
  <2>1. 0 \in Int /\ p - 1 \in Int /\ (p - 1) - 0 + 1 = p /\ (0 > p - 1 => p = 0)
    OBVIOUS
  <2>2. IsFiniteSet(0 .. p - 1) /\ Cardinality(0 .. p - 1) =
          IF 0 > p - 1 THEN 0 ELSE (p - 1) - 0 + 1
    BY <2>1, FS_Interval
  <2>3. QED BY <2>1, <2>2
<1>2. Before \in SUBSET (0 .. p - 1)
  <2>1. \A q \in S : q < p => q \in 0 .. p - 1
    BY Finite
  <2>2. QED BY <2>1
<1>3. IsFiniteSet(Before) /\ Cardinality(Before) <= p
  BY <1>1, <1>2, FS_Subset
<1>4. Cardinality(Before) \in Nat
  BY <1>3, FS_CardinalityType
<1>5. QED BY <1>3, <1>4 DEF PlaceIn

(* A later pose has a later place.                                         *)
LEMMA PlaceGrows ==
  ASSUME NEW n \in Nat, NEW S \in SUBSET (0 .. n), NEW p \in S,
         NEW r \in Nat, p < r
  PROVE  PlaceIn(S, p) < PlaceIn(S, r)
<1> DEFINE B(x) == {q \in S : q < x}
<1>0. p \in Nat
  BY Finite
<1>1. IsFiniteSet(B(p)) /\ IsFiniteSet(B(r))
  BY <1>0, PlaceType
<1>2. p \notin B(p) /\ B(p) \cup {p} \in SUBSET B(r)
  <2>1. \A q \in S : q < p => q < r
    BY <1>0, Finite
  <2>2. ~(p < p)
    BY <1>0
  <2>3. QED BY <2>1, <2>2
<1>3. PlaceIn(S, p) = Cardinality(B(p)) /\ PlaceIn(S, r) = Cardinality(B(r))
  BY DEF PlaceIn
<1>4. PlaceIn(S, p) \in Nat /\ PlaceIn(S, r) \in Nat
  BY <1>0, PlaceType
<1> HIDE DEF B
<1>5. Cardinality(B(p) \cup {p}) = Cardinality(B(p)) + 1
  BY <1>1, <1>2, FS_AddElement
<1>6. Cardinality(B(p) \cup {p}) <= Cardinality(B(r))
  BY <1>1, <1>2, FS_Subset
<1>7. QED BY <1>3, <1>4, <1>5, <1>6

(* The places of the elements are the numbers below the size.              *)
LEMMA PlaceBelow ==
  ASSUME NEW n \in Nat, NEW S \in SUBSET (0 .. n), NEW p \in S
  PROVE  PlaceIn(S, p) < Cardinality(S)
<1>1. IsFiniteSet(S)
  BY Finite
<1>2. S = {q \in S : q < n + 1}
  <2>1. \A q \in S : q < n + 1
    OBVIOUS
  <2>2. QED BY <2>1
<1>3. PlaceIn(S, n + 1) = Cardinality(S)
  BY <1>2 DEF PlaceIn
<1>4. p < n + 1 /\ n + 1 \in Nat
  OBVIOUS
<1>5. QED BY <1>3, <1>4, PlaceGrows

LEMMA PlaceInjective ==
  ASSUME NEW n \in Nat, NEW S \in SUBSET (0 .. n), NEW p \in S, NEW r \in S,
         PlaceIn(S, p) = PlaceIn(S, r)
  PROVE  p = r
<1>1. p \in Nat /\ r \in Nat
  OBVIOUS
<1>2. PlaceIn(S, p) \in Nat /\ PlaceIn(S, r) \in Nat
  BY <1>1, PlaceType
<1>3. ~(p < r)
  <2> SUFFICES ASSUME p < r PROVE FALSE
    OBVIOUS
  <2>1. PlaceIn(S, p) < PlaceIn(S, r)
    BY <1>1, PlaceGrows
  <2>2. QED BY <1>2, <2>1
<1>4. ~(r < p)
  <2> SUFFICES ASSUME r < p PROVE FALSE
    OBVIOUS
  <2>1. PlaceIn(S, r) < PlaceIn(S, p)
    BY <1>1, PlaceGrows
  <2>2. QED BY <1>2, <2>1
<1>5. QED BY <1>1, <1>3, <1>4

LEMMA PlaceTaken ==
  ASSUME NEW n \in Nat, NEW S \in SUBSET (0 .. n),
         NEW j \in 0 .. Cardinality(S) - 1
  PROVE  \E p \in S : PlaceIn(S, p) = j
<1> DEFINE f == [p \in S |-> PlaceIn(S, p)]
           T == 0 .. Cardinality(S) - 1
<1>1. IsFiniteSet(S) /\ Cardinality(S) \in Nat
  BY Finite
<1>2. IsFiniteSet(T) /\ Cardinality(T) = Cardinality(S)
  <2>1. 0 \in Int /\ Cardinality(S) - 1 \in Int
    BY <1>1
  <2>2. QED BY <1>1, <2>1, FS_Interval
<1>3. \A p \in S : PlaceIn(S, p) \in T
  <2> TAKE p \in S
  <2>1. p \in Nat /\ PlaceIn(S, p) \in Nat
    BY Finite, PlaceType
  <2>2. PlaceIn(S, p) < Cardinality(S)
    BY PlaceBelow
  <2>3. QED BY <1>1, <2>1, <2>2
<1>4. f \in [S -> T]
  BY <1>3
<1>5. \A p, r \in S : f[p] = f[r] => p = r
  BY PlaceInjective
<1> HIDE DEF f, T
<1>6. f \in Injection(S, T)
  BY <1>4, <1>5 DEF Injection, IsInjective
<1>7. f \in Surjection(S, T)
  BY <1>2, <1>6, FS_Injection
<1>8. j \in T
  BY DEF T
<1>9. PICK p \in S : f[p] = j
  BY <1>7, <1>8 DEF Surjection
<1>10. QED BY <1>9 DEF f

(* So a set of poses has a greatest one and a least one.                   *)
LEMMA Greatest ==
  ASSUME NEW n \in Nat, NEW S \in SUBSET (0 .. n), S # {}
  PROVE  Max(S) \in S /\ \A x \in S : x <= Max(S)
<1>1. IsFiniteSet(S) /\ Cardinality(S) \in Nat
  BY Finite
<1>2. Cardinality(S) - 1 \in 0 .. Cardinality(S) - 1
  BY <1>1, FS_EmptySet
<1>3. PICK p \in S : PlaceIn(S, p) = Cardinality(S) - 1
  BY <1>2, PlaceTaken
<1>4. \A x \in S : x <= p
  <2> SUFFICES ASSUME NEW x \in S, p < x PROVE FALSE
    OBVIOUS
  <2>1. x \in Nat
    OBVIOUS
  <2>2. PlaceIn(S, p) < PlaceIn(S, x)
    BY <2>1, PlaceGrows
  <2>3. PlaceIn(S, x) < Cardinality(S) /\ PlaceIn(S, x) \in Nat
    BY <2>1, PlaceBelow, PlaceType
  <2>4. QED BY <1>1, <1>3, <2>2, <2>3
<1>5. QED BY <1>4 DEF Max

LEMMA Least ==
  ASSUME NEW n \in Nat, NEW S \in SUBSET (0 .. n), S # {}
  PROVE  Min(S) \in S /\ \A x \in S : Min(S) <= x
<1>1. IsFiniteSet(S) /\ Cardinality(S) \in Nat
  BY Finite
<1>2. 0 \in 0 .. Cardinality(S) - 1
  BY <1>1, FS_EmptySet
<1>3. PICK p \in S : PlaceIn(S, p) = 0
  BY <1>2, PlaceTaken
<1>4. \A x \in S : p <= x
  <2> SUFFICES ASSUME NEW x \in S, x < p PROVE FALSE
    OBVIOUS
  <2>1. x \in Nat /\ p \in Nat
    OBVIOUS
  <2>2. PlaceIn(S, x) < PlaceIn(S, p)
    BY <2>1, PlaceGrows
  <2>3. PlaceIn(S, x) \in Nat
    BY <2>1, PlaceType
  <2>4. QED BY <1>3, <2>2, <2>3
<1>5. QED BY <1>4 DEF Min

----------------------------------------------------------------------------
(* The list of the scan poses. *)

LEMMA PosesAreNumbers ==
  MaxPoses \in Nat /\ Pose \in SUBSET (0 .. MaxPoses) /\ \A p \in Pose : p \in Nat
BY PoseGraphAssumption DEF Pose

LEMMA ScanPosesType ==
  ASSUME NEW cs \in Seq(Constraint)
  PROVE  /\ ScanPoses(cs) \in SUBSET Pose
         /\ ScanPoses(cs) \in SUBSET (0 .. MaxPoses)
         /\ \A k \in DOMAIN cs : cs[k].fromIdx \in ScanPoses(cs)
                                 /\ cs[k].toIdx \in ScanPoses(cs)
<1>1. \A k \in DOMAIN cs : cs[k] \in Constraint
  OBVIOUS
<1>2. \A k \in DOMAIN cs : cs[k].fromIdx \in Pose /\ cs[k].toIdx \in Pose
  BY <1>1 DEF Constraint
<1>3. ScanPoses(cs) \in SUBSET Pose
  BY <1>2 DEF ScanPoses
<1>4. ScanPoses(cs) \in SUBSET (0 .. MaxPoses)
  BY <1>3, PosesAreNumbers
<1>5. \A k \in DOMAIN cs : cs[k].fromIdx \in ScanPoses(cs)
                           /\ cs[k].toIdx \in ScanPoses(cs)
  BY DEF ScanPoses
<1>6. QED BY <1>3, <1>4, <1>5

(* The list has every scan pose once, and pcl_reduce meets all of them.    *)
LEMMA SortedList ==
  ASSUME NEW cs \in Seq(Constraint)
  PROVE  LET s == delete_duplicates_and_sort(cs)
         IN  Len(s) = Cardinality(ScanPoses(cs)) /\ Met(s) = ScanPoses(cs)
<1> DEFINE S == ScanPoses(cs)
           s == delete_duplicates_and_sort(cs)
           N == Cardinality(S)
<1>1. MaxPoses \in Nat /\ S \in SUBSET (0 .. MaxPoses)
  BY PosesAreNumbers, ScanPosesType
<1>2. N \in Nat /\ \A p \in S : p \in Nat
  BY <1>1, Finite
<1>3. s = [k \in 1 .. N |-> CHOOSE p \in S : PlaceIn(S, p) = k - 1]
  BY DEF delete_duplicates_and_sort
<1> HIDE DEF S, s, N
<1>4. \A k \in 1 .. N : s[k] \in S /\ PlaceIn(S, s[k]) = k - 1
  <2> TAKE k \in 1 .. N
  <2>1. k - 1 \in 0 .. N - 1
    BY <1>2
  <2>2. \E p \in S : PlaceIn(S, p) = k - 1
    BY <1>1, <2>1, PlaceTaken DEF N
  <2>3. s[k] = CHOOSE p \in S : PlaceIn(S, p) = k - 1
    BY <1>3
  <2>4. QED BY <2>2, <2>3
<1>5. DOMAIN s = 1 .. N
  BY <1>3
<1>6. s \in [1 .. N -> S]
  BY <1>3, <1>4
<1>7. s \in Seq(S)
  BY <1>2, <1>6
<1>8. Len(s) = N
  <2>1. DOMAIN s = 1 .. Len(s) /\ Len(s) \in Nat
    BY <1>7, LenProperties
  <2>2. QED BY <1>2, <1>5, <2>1
<1>9. \A m \in 1 .. N : m + 1 \in 1 .. N => s[m] < s[m + 1]
  <2> SUFFICES ASSUME NEW m \in 1 .. N, m + 1 \in 1 .. N, ~(s[m] < s[m + 1])
               PROVE  FALSE
    OBVIOUS
  <2>1. s[m] \in S /\ s[m + 1] \in S /\ PlaceIn(S, s[m]) = m - 1
          /\ PlaceIn(S, s[m + 1]) = (m + 1) - 1
    BY <1>4
  <2>2. s[m] \in Nat /\ s[m + 1] \in Nat
    BY <1>2, <2>1
  <2>3. CASE s[m] = s[m + 1]
    BY <2>1, <2>3
  <2>4. CASE s[m + 1] < s[m]
    <3>1. PlaceIn(S, s[m + 1]) < PlaceIn(S, s[m])
      BY <1>1, <2>1, <2>2, <2>4, PlaceGrows
    <3>2. QED BY <2>1, <3>1
  <2>5. QED BY <2>2, <2>3, <2>4
<1>10. Met(s) = S
  <2>1. \A k \in 1 .. N : \A m \in 1 .. k - 1 : s[m] < s[m + 1]
    <3> TAKE k \in 1 .. N
    <3> TAKE m \in 1 .. k - 1
    <3>1. m \in 1 .. N /\ m + 1 \in 1 .. N
      BY <1>2
    <3>2. QED BY <1>9, <3>1
  <2>2. Met(s) = {s[k] : k \in 1 .. N}
    BY <1>5, <2>1 DEF Met
  <2>3. \A k \in 1 .. N : s[k] \in S
    BY <1>4
  <2>4. \A p \in S : \E k \in 1 .. N : s[k] = p
    <3> TAKE p \in S
    <3>1. p \in Nat
      BY <1>2
    <3>2. PlaceIn(S, p) \in Nat /\ PlaceIn(S, p) < N
      BY <1>1, <3>1, PlaceType, PlaceBelow DEF N
    <3>3. PlaceIn(S, p) + 1 \in 1 .. N
      BY <1>2, <3>2
    <3>4. s[PlaceIn(S, p) + 1] \in S /\ PlaceIn(S, s[PlaceIn(S, p) + 1]) = PlaceIn(S, p)
      BY <1>4, <3>2, <3>3
    <3>5. s[PlaceIn(S, p) + 1] = p
      BY <1>1, <3>4, PlaceInjective
    <3>6. QED BY <3>3, <3>5
  <2>5. QED BY <2>2, <2>3, <2>4
<1>11. QED BY <1>8, <1>10 DEF S, s, N

(* The loop over the scan poses reaches every constraint if those between  *)
(* scans start at different poses, the first of them ends before them all, *)
(* and only two others end in the first pose of the table.                 *)
LEMMA ScanPosesSuffice ==
  ASSUME NEW cs \in Seq(Constraint), NEW ex \in Seq(Constraint), Len(ex) <= 2,
         \A k \in DOMAIN cs : 0 < cs[k].toIdx /\ cs[k].toIdx < cs[k].fromIdx,
         \A k, m \in DOMAIN cs : k < m => cs[k].fromIdx < cs[m].fromIdx,
         \A k \in DOMAIN ex : ex[k].toIdx = 0 /\ 0 < ex[k].fromIdx
  PROVE  Len(cs \o ex) <= Cardinality(ScanPoses(cs \o ex))
<1> DEFINE all == cs \o ex
           S == ScanPoses(all)
           n == Len(cs)
           N == Len(all)
           from(k) == all[k].fromIdx
           other == IF n > 0 THEN all[1].toIdx ELSE from(1)
           pose(k) == IF k <= n THEN from(k) ELSE IF k = n + 1 THEN 0 ELSE other
           f == [k \in 1 .. N |-> pose(k)]
<1>1. all \in Seq(Constraint) /\ N = n + Len(ex) /\ n \in Nat /\ N \in Nat
      /\ Len(ex) \in Nat /\ DOMAIN all = 1 .. N
  BY ConcatProperties, LenProperties
<1>2. \A k \in 1 .. N : all[k] = IF k <= n THEN cs[k] ELSE ex[k - n]
  BY <1>1, ConcatProperties
<1>3. N <= n + 2
  BY <1>1
<1>4. DOMAIN cs = 1 .. n /\ DOMAIN ex = 1 .. Len(ex)
  BY LenProperties
<1>5. S \in SUBSET (0 .. MaxPoses) /\ \A k \in 1 .. N : from(k) \in S /\ all[k].toIdx \in S
  BY <1>1, ScanPosesType
<1>6. IsFiniteSet(S) /\ \A p \in S : p \in Nat
  BY <1>5, PosesAreNumbers, Finite
<1>7. \A k \in 1 .. n : k \in 1 .. N /\ 0 < all[k].toIdx /\ all[k].toIdx < from(k)
  BY <1>1, <1>2, <1>4
<1>8. \A k, m \in 1 .. n : k < m => from(k) < from(m)
  BY <1>1, <1>2, <1>4
<1>9. \A k \in n + 1 .. N : all[k].toIdx = 0 /\ 0 < from(k)
  <2> TAKE k \in n + 1 .. N
  <2>1. k \in 1 .. N /\ ~(k <= n) /\ k - n \in 1 .. Len(ex)
    BY <1>1
  <2>2. QED BY <1>2, <1>4, <2>1
<1> HIDE DEF all, S, n, N
<1>10. \A k \in 1 .. N : from(k) \in Nat /\ all[k].toIdx \in Nat
  <2> TAKE k \in 1 .. N
  <2>1. from(k) \in S /\ all[k].toIdx \in S
    BY <1>5
  <2>2. QED BY <1>6, <2>1
<1>11. \A k \in 1 .. N : pose(k) \in S
  <2> TAKE k \in 1 .. N
  <2>1. 1 \in 1 .. N
    BY <1>1
  <2>2. CASE k <= n
    BY <1>5, <2>2
  <2>3. CASE k = n + 1
    <3>1. k \in n + 1 .. N
      BY <1>1, <2>3
    <3>2. all[k].toIdx = 0 /\ all[k].toIdx \in S
      BY <1>5, <1>9, <3>1
    <3>3. pose(k) = 0
      BY <1>1, <2>3
    <3>4. QED BY <3>2, <3>3
  <2>4. CASE k > n + 1
    <3>1. pose(k) = other
      BY <1>1, <2>4
    <3>2. other \in S
      BY <1>5, <2>1
    <3>3. QED BY <3>1, <3>2
  <2>5. QED BY <1>1, <2>2, <2>3, <2>4
<1>12. \A k, m \in 1 .. N : k < m => pose(k) # pose(m)
  <2> TAKE k, m \in 1 .. N
  <2> HAVE k < m
  <2>1. 1 \in 1 .. N /\ from(1) \in Nat /\ all[1].toIdx \in Nat
    <3>1. 1 \in 1 .. N
      BY <1>1
    <3>2. QED BY <1>10, <3>1
  <2>2. CASE m <= n
    <3>1. from(k) < from(m) /\ from(k) \in Nat /\ from(m) \in Nat
      <4>1. k \in 1 .. n /\ m \in 1 .. n
        BY <1>1, <2>2
      <4>2. QED BY <1>8, <1>10, <4>1
    <3>2. pose(k) = from(k) /\ pose(m) = from(m)
      BY <1>1, <2>2
    <3>3. QED BY <3>1, <3>2
  <2>3. CASE k <= n /\ m = n + 1
    <3>1. 0 < from(k) /\ from(k) \in Nat
      <4>1. k \in 1 .. n
        BY <1>1, <2>3
      <4>2. 0 < all[k].toIdx /\ all[k].toIdx < from(k)
              /\ from(k) \in Nat /\ all[k].toIdx \in Nat
        BY <1>5, <1>6, <1>7, <4>1
      <4>3. QED BY <4>2
    <3>2. pose(k) = from(k) /\ pose(m) = 0
      BY <1>1, <2>3
    <3>3. QED BY <3>1, <3>2
  <2>4. CASE k <= n /\ m > n + 1
    <3>1. 1 \in 1 .. n /\ k \in 1 .. n /\ n > 0
      BY <1>1, <2>4
    <3>2. all[1].toIdx < from(1)
      BY <1>7, <3>1
    <3>3. from(1) <= from(k) /\ from(k) \in Nat
      <4>1. k = 1 \/ 1 < k
        BY <1>1
      <4>2. from(k) \in Nat
        BY <1>5, <1>6
      <4>3. QED BY <1>8, <2>1, <3>1, <4>1, <4>2
    <3>4. pose(k) = from(k) /\ pose(m) = all[1].toIdx
      BY <1>1, <2>4, <3>1
    <3>5. QED BY <2>1, <3>2, <3>3, <3>4
  <2>5. CASE k > n
    <3>1. k = n + 1 /\ m = n + 2
      BY <1>1, <1>3, <2>5
    <3>2. pose(k) = 0 /\ pose(m) = other
      BY <1>1, <3>1
    <3>3. 0 < other /\ other \in Nat
      <4>1. CASE n > 0
        <5>1. 1 \in 1 .. n
          BY <1>1, <4>1
        <5>2. QED BY <1>7, <2>1, <4>1, <5>1
      <4>2. CASE n = 0
        <5>1. 1 \in n + 1 .. N
          BY <1>1, <2>1, <4>2
        <5>2. QED BY <1>9, <2>1, <4>2, <5>1
      <4>3. QED BY <1>1, <4>1, <4>2
    <3>4. QED BY <3>2, <3>3
  <2>6. QED BY <1>1, <2>2, <2>3, <2>4, <2>5
<1> HIDE DEF pose
<1>13. f \in Injection(1 .. N, S)
  <2>1. f \in [1 .. N -> S]
    BY <1>11
  <2>2. \A k, m \in 1 .. N : f[k] = f[m] => k = m
    BY <1>1, <1>12
  <2>3. QED BY <2>1, <2>2 DEF Injection, IsInjective
<1>14. Cardinality(1 .. N) <= Cardinality(S)
  BY <1>6, <1>13, FS_Injection
<1>15. Cardinality(1 .. N) = N
  <2>1. 1 \in Int /\ N \in Int /\ (1 > N => N = 0) /\ N - 1 + 1 = N
    BY <1>1
  <2>2. QED BY <2>1, FS_Interval
<1>16. QED BY <1>14, <1>15 DEF all, S, N

(* It reaches those between scans whatever comes behind them.              *)
LEMMA InternalReached ==
  ASSUME NEW cs \in Seq(Constraint), NEW ex \in Seq(Constraint),
         \A k, m \in DOMAIN cs : k < m => cs[k].fromIdx < cs[m].fromIdx
  PROVE  Len(cs) <= Cardinality(ScanPoses(cs \o ex))
<1> DEFINE all == cs \o ex
           S == ScanPoses(all)
           n == Len(cs)
           f == [k \in 1 .. n |-> cs[k].fromIdx]
<1>1. all \in Seq(Constraint) /\ n \in Nat /\ DOMAIN cs = 1 .. n
      /\ \A k \in 1 .. n : k \in DOMAIN all /\ all[k] = cs[k]
  <2>1. /\ all \in Seq(Constraint) /\ Len(all) = n + Len(ex)
        /\ \A k \in 1 .. n + Len(ex) :
             all[k] = IF k <= n THEN cs[k] ELSE ex[k - n]
    BY ConcatProperties
  <2>2. n \in Nat /\ Len(ex) \in Nat /\ DOMAIN cs = 1 .. n /\ DOMAIN all = 1 .. Len(all)
    BY <2>1, LenProperties
  <2> HIDE DEF all, n
  <2>3. QED BY <2>1, <2>2
<1> HIDE DEF all, n
<1>2. S \in SUBSET (0 .. MaxPoses) /\ \A k \in 1 .. n : cs[k].fromIdx \in S
  <2>1. \A k \in DOMAIN all : all[k].fromIdx \in S
    BY <1>1, ScanPosesType
  <2>2. S \in SUBSET (0 .. MaxPoses)
    BY <1>1, ScanPosesType
  <2> HIDE DEF S
  <2>3. QED BY <1>1, <2>1, <2>2
<1> HIDE DEF S
<1>3. IsFiniteSet(S) /\ \A p \in S : p \in Nat
  BY <1>2, PosesAreNumbers, Finite
<1>4. f \in Injection(1 .. n, S)
  <2>1. f \in [1 .. n -> S]
    BY <1>2
  <2>2. ASSUME NEW k \in 1 .. n, NEW m \in 1 .. n, k < m
        PROVE  f[k] # f[m]
    <3>1. f[k] \in Nat /\ f[m] \in Nat
      BY <1>2, <1>3
    <3>2. f[k] < f[m]
      BY <1>1, <2>2
    <3>3. QED BY <3>1, <3>2
  <2> HIDE DEF f
  <2>3. \A k, m \in 1 .. n : f[k] = f[m] => k = m
    BY <1>1, <2>2
  <2>4. QED BY <2>1, <2>3 DEF Injection, IsInjective
<1>5. Cardinality(1 .. n) <= Cardinality(S)
  BY <1>3, <1>4, FS_Injection
<1>6. Cardinality(1 .. n) = n
  <2>1. 1 \in Int /\ n \in Int /\ (1 > n => n = 0) /\ n - 1 + 1 = n
    BY <1>1
  <2>2. QED BY <2>1, FS_Interval
<1>7. QED BY <1>5, <1>6 DEF all, S, n

(* A constraint between two key poses keeps its direction, its start is a  *)
(* place among the key poses, and an end that is not the first pose stays  *)
(* behind it.                                                              *)
LEMMA RemappedType ==
  ASSUME NEW keys \in SUBSET (0 .. MaxPoses), NEW c \in Constraint
  PROVE  Remapped(keys, c) \in Constraint
<1> DEFINE place(p) == IF p \in keys THEN PlaceIn(keys, p) ELSE p
<1>1. MaxPoses \in Nat /\ c.fromIdx \in Pose /\ c.toIdx \in Pose
  BY PosesAreNumbers DEF Constraint
<1>2. \A p \in Pose : place(p) \in Pose
  <2> TAKE p \in Pose
  <2>1. p \in Nat /\ p <= MaxPoses - 1
    BY <1>1 DEF Pose
  <2>2. PlaceIn(keys, p) \in Nat /\ PlaceIn(keys, p) <= p
    BY <1>1, <2>1, PlaceType
  <2>3. PlaceIn(keys, p) \in Pose
    BY <1>1, <2>1, <2>2 DEF Pose
  <2>4. QED BY <2>3
<1> HIDE DEF place
<1>3. Remapped(keys, c) =
        [fromIdx |-> place(c.fromIdx),
         toIdx |-> IF c.fromIdx \in keys /\ c.fromIdx < c.toIdx
                     THEN c.toIdx ELSE place(c.toIdx)]
  BY DEF Remapped, place
<1>4. QED BY <1>1, <1>2, <1>3 DEF Constraint

LEMMA RemappedConstraint ==
  ASSUME NEW keys \in SUBSET (0 .. MaxPoses), NEW c \in Constraint,
         c.fromIdx \in keys, c.toIdx \in keys, c.toIdx <= c.fromIdx
  PROVE  LET r == Remapped(keys, c)
         IN  /\ r = [fromIdx |-> PlaceIn(keys, c.fromIdx),
                     toIdx |-> PlaceIn(keys, c.toIdx)]
             /\ c.toIdx < c.fromIdx => r.toIdx < r.fromIdx
             /\ r.fromIdx < Cardinality(keys)
             /\ r.fromIdx <= c.fromIdx
             /\ 0 \in keys /\ 0 < c.toIdx => 0 < r.toIdx
<1> DEFINE r == Remapped(keys, c)
<1>1. MaxPoses \in Nat
  BY PosesAreNumbers
<1>2. c.fromIdx \in Nat /\ c.toIdx \in Nat
  BY <1>1, Finite
<1>3. r = [fromIdx |-> PlaceIn(keys, c.fromIdx), toIdx |-> PlaceIn(keys, c.toIdx)]
  BY <1>2 DEF Remapped
<1>4. r.fromIdx = PlaceIn(keys, c.fromIdx) /\ r.toIdx = PlaceIn(keys, c.toIdx)
  BY <1>3
<1>5. c.toIdx < c.fromIdx => PlaceIn(keys, c.toIdx) < PlaceIn(keys, c.fromIdx)
  BY <1>1, <1>2, PlaceGrows
<1>6. PlaceIn(keys, c.fromIdx) < Cardinality(keys)
  BY <1>1, PlaceBelow
<1>7. PlaceIn(keys, c.fromIdx) <= c.fromIdx
  BY <1>1, <1>2, PlaceType
<1>8. 0 \in keys /\ 0 < c.toIdx => 0 < PlaceIn(keys, c.toIdx)
  <2> SUFFICES ASSUME 0 \in keys, 0 < c.toIdx PROVE 0 < PlaceIn(keys, c.toIdx)
    OBVIOUS
  <2>1. PlaceIn(keys, 0) \in Nat /\ PlaceIn(keys, c.toIdx) \in Nat
    BY <1>1, <1>2, PlaceType
  <2>2. PlaceIn(keys, 0) < PlaceIn(keys, c.toIdx)
    BY <1>1, <1>2, PlaceGrows
  <2>3. QED BY <2>1, <2>2
<1> HIDE DEF r
<1>9. QED BY <1>3, <1>4, <1>5, <1>6, <1>7, <1>8 DEF r

----------------------------------------------------------------------------
(* The tables and the key poses. *)

LEMMA ShapedInit == Init => Shaped
<1> SUFFICES ASSUME Init PROVE Shaped
  OBVIOUS
<1> USE DEF Init
<1>1. TypeOK
  <2>1. MaxPoses \in Nat /\ MaxOptimizations \in Nat
    BY PoseGraphAssumption
  <2>2. NoGraph \in Graph
    BY <2>1 DEF NoGraph, Graph
  <2>3. QED BY <2>1, <2>2 DEF TypeOK
<1>2. ScansInTable /\ ClosuresOfScans
  BY DEF ScansInTable, ClosuresOfScans, ToSet
<1>3. MatchedScans
  BY PoseGraphAssumption DEF MatchedScans
<1>4. KeysOfGraph
  BY DEF KeysOfGraph, NoGraph
<1>5. QED BY <1>1, <1>2, <1>3, <1>4 DEF Shaped

LEMMA ShapedPose ==
  ASSUME Shaped, pcl_add_augmented_pose
  PROVE  Shaped'
<1> USE DEF pcl_add_augmented_pose
<1>1. TypeOK /\ ScansInTable /\ ClosuresOfScans /\ MatchedScans /\ KeysOfGraph
  BY DEF Shaped
<1>2. TypeOK'
  <2>1. MaxPoses \in Nat
    BY PoseGraphAssumption
  <2>2. QED BY <1>1, <2>1 DEF TypeOK
<1>3. ScansInTable'
  <2>1. pose_counter \in Nat
    BY <1>1 DEF TypeOK
  <2>2. PoseTable \subseteq PoseTable'
    BY <2>1 DEF PoseTable
  <2>3. QED BY <1>1, <2>2 DEF ScansInTable
<1>4. ClosuresOfScans' /\ MatchedScans' /\ KeysOfGraph'
  BY <1>1 DEF ClosuresOfScans, MatchedScans, KeysOfGraph
<1>5. QED BY <1>2, <1>3, <1>4 DEF Shaped

(* A new scan may add a constraint from it to an earlier one.              *)
LEMMA ClosureFound ==
  ASSUME TypeOK, NEW id \in Pose, add_scan_pose_id(id)
  PROVE  \/ UNCHANGED <<constraints, found>>
         \/ \E k \in DOMAIN int_scan_pose_ids :
              LET c == [fromIdx |-> id, toIdx |-> int_scan_pose_ids[k]]
              IN  /\ c \in Constraint
                  /\ constraints' = Append(constraints, c)
                  /\ found' = Append(found, c)
<1>1. check_internal_constraints(id)
  BY DEF add_scan_pose_id
<1>2. CASE UNCHANGED <<constraints, found>>
  BY <1>2
<1>3. CASE \E k \in DOMAIN int_scan_pose_ids :
             pcl_add_constraint(id, int_scan_pose_ids[k])
  <2>1. PICK k \in DOMAIN int_scan_pose_ids :
          pcl_add_constraint(id, int_scan_pose_ids[k])
    BY <1>3
  <2>2. int_scan_pose_ids \in Seq(Pose)
    BY DEF TypeOK
  <2>3. int_scan_pose_ids[k] \in Pose
    BY <2>2
  <2>4. [fromIdx |-> id, toIdx |-> int_scan_pose_ids[k]] \in Constraint
    BY <2>3 DEF Constraint
  <2>5. QED BY <2>1, <2>4 DEF pcl_add_constraint
<1>4. QED BY <1>1, <1>2, <1>3 DEF check_internal_constraints

LEMMA ShapedScan ==
  ASSUME Shaped, NEW id \in Pose, add_scan_pose_id(id)
  PROVE  Shaped'
<1>1. TypeOK /\ ScansInTable /\ ClosuresOfScans /\ MatchedScans /\ KeysOfGraph
  BY DEF Shaped
<1>2. /\ int_scan_pose_ids' = Append(int_scan_pose_ids, id)
      /\ UNCHANGED <<pose_counter, ext_const_table, job, optimizations>>
      /\ ScanArrives(id)
  BY DEF add_scan_pose_id
<1>3. int_scan_pose_ids \in Seq(Pose) /\ constraints \in Seq(Constraint)
      /\ found \in Seq(Constraint) /\ Len(found) = Len(constraints)
  BY <1>1 DEF TypeOK
<1>4. /\ int_scan_pose_ids' \in Seq(Pose) /\ int_scan_pose_ids' # <<>>
      /\ Len(int_scan_pose_ids') = Len(int_scan_pose_ids) + 1
      /\ \A k \in 1 .. Len(int_scan_pose_ids) :
           int_scan_pose_ids'[k] = int_scan_pose_ids[k]
      /\ int_scan_pose_ids'[Len(int_scan_pose_ids) + 1] = id
  BY <1>2, <1>3, AppendProperties
<1>5. /\ DOMAIN int_scan_pose_ids = 1 .. Len(int_scan_pose_ids)
      /\ DOMAIN int_scan_pose_ids' = 1 .. Len(int_scan_pose_ids')
      /\ Len(int_scan_pose_ids) \in Nat
  BY <1>3, <1>4, LenProperties
<1>6. /\ constraints' \in Seq(Constraint) /\ found' \in Seq(Constraint)
      /\ Len(found') = Len(constraints')
  <2>1. CASE UNCHANGED <<constraints, found>>
    BY <1>3, <2>1
  <2>2. ASSUME NEW c \in Constraint, constraints' = Append(constraints, c),
               found' = Append(found, c)
        PROVE  <1>6
    BY <1>3, <2>2, AppendProperties
  <2>3. QED BY <1>1, <2>1, <2>2, ClosureFound
<1>7. TypeOK'
  BY <1>1, <1>2, <1>4, <1>6 DEF TypeOK
<1>8. ScansInTable'
  <2>1. id \in PoseTable /\ PoseTable' = PoseTable
    BY <1>2 DEF ScanArrives, PoseTable
  <2>2. ASSUME NEW k \in DOMAIN int_scan_pose_ids'
        PROVE  int_scan_pose_ids'[k] \in PoseTable
    <3>1. CASE k \in DOMAIN int_scan_pose_ids
      BY <1>1, <1>4, <1>5, <3>1 DEF ScansInTable, ToSet
    <3>2. CASE k = Len(int_scan_pose_ids) + 1
      BY <1>4, <2>1, <3>2
    <3>3. QED BY <1>4, <1>5, <3>1, <3>2
  <2>3. QED BY <2>1, <2>2 DEF ScansInTable, ToSet
<1>9. ClosuresOfScans'
  BY <1>4 DEF ClosuresOfScans
<1>10. MatchedScans'
  <2>1. \A p : p \in ToSet(int_scan_pose_ids) => p \in ToSet(int_scan_pose_ids')
    <3>1. \A k \in DOMAIN int_scan_pose_ids :
            k \in DOMAIN int_scan_pose_ids'
              /\ int_scan_pose_ids'[k] = int_scan_pose_ids[k]
      BY <1>4, <1>5
    <3>2. QED BY <3>1 DEF ToSet
  <2>2. QED BY <1>1, <1>2, <2>1 DEF MatchedScans
<1>11. KeysOfGraph'
  BY <1>1, <1>2 DEF KeysOfGraph
<1>12. QED BY <1>7, <1>8, <1>9, <1>10, <1>11 DEF Shaped

(* What check_for_external_constraints leaves of the table.                *)
LEMMA MatchesType ==
  ASSUME TypeOK, MatchedScans, NEW table \in ExternalMatches
  PROVE  /\ table \in Seq(Pose) /\ Len(table) <= MaxExternal
         /\ \A k \in DOMAIN table : table[k] \in ToSet(int_scan_pose_ids)
         /\ \A k, m \in DOMAIN table : k # m => table[k] # table[m]
<1> DEFINE T == ext_const_table
           L == Len(ext_const_table)
<1>1. T \in Seq(Pose) /\ int_scan_pose_ids \in Seq(Pose)
  BY DEF TypeOK
<1>2. L \in Nat /\ L <= MaxExternal /\ MaxExternal \in Nat /\ DOMAIN T = 1 .. L
  BY <1>1, LenProperties, PoseGraphAssumption DEF MatchedScans
<1>3. PICK n \in 0 .. MaxExternal - L :
        \E new \in [1 .. n -> Unmatched] : IsInjective(new) /\ table = T \o new
  BY DEF ExternalMatches
<1>4. PICK new \in [1 .. n -> Unmatched] : IsInjective(new) /\ table = T \o new
  BY <1>3
<1>5. Unmatched \subseteq Pose
  BY <1>1 DEF Unmatched, ToSet
<1>6. \A k \in 1 .. n : new[k] \in ToSet(int_scan_pose_ids) /\ new[k] \notin ToSet(T)
  BY DEF Unmatched
<1>7. new \in Seq(Pose) /\ Len(new) = n
  <2>1. n \in Nat /\ new \in [1 .. n -> Pose]
    BY <1>2, <1>5
  <2>2. new \in Seq(Pose)
    BY <2>1
  <2>3. DOMAIN new = 1 .. Len(new) /\ Len(new) \in Nat /\ DOMAIN new = 1 .. n
    BY <2>2, LenProperties
  <2>4. QED BY <2>1, <2>2, <2>3
<1>8. /\ table \in Seq(Pose) /\ Len(table) = L + n
      /\ \A k \in 1 .. L + n : table[k] = IF k <= L THEN T[k] ELSE new[k - L]
  BY <1>1, <1>4, <1>7, ConcatProperties
<1>9. DOMAIN table = 1 .. L + n
  BY <1>8, LenProperties
<1> HIDE DEF L, T
<1>10. \A k \in DOMAIN table : table[k] \in ToSet(int_scan_pose_ids)
  <2> TAKE k \in DOMAIN table
  <2>1. CASE k <= L
    <3>1. k \in DOMAIN T /\ table[k] = T[k]
      BY <1>2, <1>8, <1>9, <2>1
    <3>2. QED BY <3>1 DEF MatchedScans, T
  <2>2. CASE k > L
    <3>1. k - L \in 1 .. n /\ table[k] = new[k - L]
      BY <1>2, <1>8, <1>9, <2>2
    <3>2. QED BY <1>6, <3>1
  <2>3. QED BY <1>2, <1>9, <2>1, <2>2
<1>11. \A k, m \in DOMAIN table : k < m => table[k] # table[m]
  <2> TAKE k, m \in DOMAIN table
  <2> HAVE k < m
  <2>1. CASE m <= L
    <3>1. k \in DOMAIN T /\ m \in DOMAIN T /\ k # m /\ table[k] = T[k] /\ table[m] = T[m]
      BY <1>2, <1>8, <1>9, <2>1
    <3>2. QED BY <3>1 DEF MatchedScans, T
  <2>2. CASE k <= L /\ m > L
    <3>1. k \in DOMAIN T /\ m - L \in 1 .. n /\ table[k] = T[k]
            /\ table[m] = new[m - L]
      BY <1>2, <1>8, <1>9, <2>2
    <3>2. T[k] \in ToSet(T)
      BY <3>1 DEF ToSet
    <3>3. QED BY <1>6, <3>1, <3>2
  <2>3. CASE k > L
    <3>0. k \in 1 .. L + n /\ m \in 1 .. L + n /\ ~(k <= L) /\ ~(m <= L)
      BY <1>2, <1>9, <2>3
    <3>1. k - L \in 1 .. n /\ m - L \in 1 .. n /\ k - L # m - L
            /\ table[k] = new[k - L] /\ table[m] = new[m - L]
      <4>1. table[k] = new[k - L] /\ table[m] = new[m - L]
        BY <1>8, <3>0
      <4>2. k - L \in 1 .. n /\ m - L \in 1 .. n /\ k - L # m - L
        BY <1>2, <3>0
      <4>3. QED BY <4>1, <4>2
    <3>2. DOMAIN new = 1 .. n
      OBVIOUS
    <3>3. QED BY <1>4, <3>1, <3>2 DEF IsInjective
  <2>4. QED BY <1>2, <1>9, <2>1, <2>2, <2>3
<1>12. \A k, m \in DOMAIN table : k # m => table[k] # table[m]
  BY <1>2, <1>9, <1>11
<1>13. L + n <= MaxExternal
  BY <1>2
<1>14. QED BY <1>8, <1>10, <1>12, <1>13

LEMMA ExternalType ==
  ASSUME NEW table \in Seq(Pose)
  PROVE  LET ex == ExternalConstraints(table)
         IN  /\ ex \in Seq(Constraint) /\ Len(ex) = Len(table)
             /\ \A k \in DOMAIN ex :
                  k \in DOMAIN table /\ ex[k].fromIdx = table[k] /\ ex[k].toIdx = 0
<1> DEFINE ex == ExternalConstraints(table)
<1>1. DOMAIN table = 1 .. Len(table) /\ Len(table) \in Nat
  BY LenProperties
<1>2. \A k \in DOMAIN table : table[k] \in Pose
  OBVIOUS
<1>3. ex = [k \in DOMAIN table |-> [fromIdx |-> table[k], toIdx |-> 0]]
  BY DEF ExternalConstraints, get_ext_constraint
<1>4. \A p \in Pose : [fromIdx |-> p, toIdx |-> 0] \in Constraint
  <2> TAKE p \in Pose
  <2>1. 0 \in Pose
    BY PosesAreNumbers DEF Pose
  <2>2. QED BY <2>1 DEF Constraint
<1> HIDE DEF ex
<1>5. ex \in [1 .. Len(table) -> Constraint]
  BY <1>1, <1>2, <1>3, <1>4
<1>6. ex \in Seq(Constraint)
  BY <1>1, <1>5
<1>7. Len(ex) \in Nat /\ DOMAIN ex = 1 .. Len(ex) /\ DOMAIN ex = 1 .. Len(table)
  BY <1>5, <1>6, LenProperties
<1>8. Len(ex) = Len(table)
  <2>1. \A a, b \in Nat : 1 .. a = 1 .. b => a = b
    OBVIOUS
  <2>2. 1 .. Len(ex) = 1 .. Len(table)
    BY <1>7
  <2>3. QED BY <1>1, <1>7, <2>1, <2>2
<1>9. \A k \in DOMAIN ex :
        k \in DOMAIN table /\ ex[k].fromIdx = table[k] /\ ex[k].toIdx = 0
  BY <1>1, <1>3, <1>7
<1>10. QED BY <1>6, <1>8, <1>9 DEF ex

LEMMA AllType ==
  ASSUME TypeOK, NEW table \in Seq(Pose)
  PROVE  LET ex == ExternalConstraints(table)
             all == constraints \o ex
         IN  /\ all \in Seq(Constraint) /\ Len(all) = Len(constraints) + Len(table)
             /\ DOMAIN all = 1 .. Len(all) /\ Len(constraints) \in Nat
             /\ Len(table) \in Nat
             /\ \A k \in 1 .. Len(all) :
                  all[k] = IF k <= Len(constraints) THEN constraints[k]
                           ELSE ex[k - Len(constraints)]
<1> DEFINE ex == ExternalConstraints(table)
<1>1. ex \in Seq(Constraint) /\ Len(ex) = Len(table)
  BY ExternalType
<1>2. constraints \in Seq(Constraint)
  BY DEF TypeOK
<1> HIDE DEF ex
<1>3. Len(constraints) \in Nat /\ Len(table) \in Nat
  BY <1>2, LenProperties
<1>4. /\ constraints \o ex \in Seq(Constraint)
      /\ Len(constraints \o ex) = Len(constraints) + Len(ex)
      /\ \A k \in 1 .. Len(constraints) + Len(ex) :
           (constraints \o ex)[k] = IF k <= Len(constraints) THEN constraints[k]
                                    ELSE ex[k - Len(constraints)]
  BY <1>1, <1>2, ConcatProperties
<1>5. DOMAIN (constraints \o ex) = 1 .. Len(constraints \o ex)
  BY <1>4, LenProperties
<1>6. QED BY <1>1, <1>3, <1>4, <1>5 DEF ex

(* There are poses once there is a constraint.                             *)
LEMMA PosesBeforeConstraints ==
  ASSUME Shaped, NEW table \in Seq(Pose),
         \A k \in DOMAIN table : table[k] \in ToSet(int_scan_pose_ids),
         constraints \o ExternalConstraints(table) # <<>>
  PROVE  0 < pose_counter
<1>1. TypeOK /\ ScansInTable /\ ClosuresOfScans
  BY DEF Shaped
<1>2. int_scan_pose_ids \in Seq(Pose) /\ constraints \in Seq(Constraint)
      /\ pose_counter \in Nat
  BY <1>1 DEF TypeOK
<1>3. DOMAIN int_scan_pose_ids # {}
  <2>1. CASE constraints # <<>>
    <3>1. int_scan_pose_ids # <<>>
      BY <1>1, <2>1 DEF ClosuresOfScans
    <3>2. Len(int_scan_pose_ids) # 0
      BY <1>2, <3>1, EmptySeq
    <3>3. 1 \in DOMAIN int_scan_pose_ids
      BY <1>2, <3>2, LenProperties
    <3>4. QED BY <3>3
  <2>2. CASE constraints = <<>>
    <3>1. ExternalConstraints(table) \in Seq(Constraint)
            /\ Len(ExternalConstraints(table)) = Len(table)
      BY ExternalType
    <3>2. ExternalConstraints(table) # <<>>
      BY <2>2, <3>1, ConcatEmptySeq
    <3>3. Len(table) # 0
      BY <3>1, <3>2, EmptySeq
    <3>4. 1 \in DOMAIN table
      BY <3>3, LenProperties
    <3>5. QED BY <3>4 DEF ToSet
  <2>3. QED BY <2>1, <2>2
<1>4. PICK k \in DOMAIN int_scan_pose_ids : TRUE
  BY <1>3
<1>5. int_scan_pose_ids[k] \in PoseTable
  BY <1>1, <1>4 DEF ScansInTable, ToSet
<1>6. QED BY <1>2, <1>5 DEF PoseTable

(* The key poses of a graph.                                               *)
LEMMA KeysType ==
  ASSUME TypeOK, 0 < pose_counter, NEW all \in Seq(Constraint),
         NEW far \in SUBSET PoseTable
  PROVE  LET keys == pcl_reduce(delete_duplicates_and_sort(all), far)
         IN  /\ keys \in SUBSET PoseTable /\ 0 \in keys
             /\ ScanPoses(all) \cap PoseTable \subseteq keys
<1> DEFINE S == ScanPoses(all)
           keys == pcl_reduce(delete_duplicates_and_sort(all), far)
<1>1. keys = {0} \cup ((S \cup far) \cap PoseTable)
  <2>1. Met(delete_duplicates_and_sort(all)) = S
    BY SortedList
  <2>2. QED BY <2>1 DEF pcl_reduce
<1>2. 0 \in PoseTable
  <2>1. pose_counter \in Nat
    BY DEF TypeOK
  <2>2. QED BY <2>1 DEF PoseTable
<1> HIDE DEF S, keys
<1>3. QED BY <1>1, <1>2 DEF S, keys

LEMMA RemappedFirstType ==
  ASSUME NEW all \in Seq(Constraint), NEW keys \in SUBSET (0 .. MaxPoses), NEW n \in Nat
  PROVE  LET edges == RemappedFirst(keys, all, n)
         IN  /\ edges \in Seq(Constraint) /\ Len(edges) = Len(all)
             /\ DOMAIN edges = DOMAIN all
             /\ \A k \in DOMAIN all :
                  edges[k] = IF k <= n THEN Remapped(keys, all[k]) ELSE all[k]
<1> DEFINE edges == RemappedFirst(keys, all, n)
<1>1. DOMAIN all = 1 .. Len(all) /\ Len(all) \in Nat
  BY LenProperties
<1>2. \A k \in DOMAIN all : all[k] \in Constraint
  OBVIOUS
<1>3. \A k \in DOMAIN all : Remapped(keys, all[k]) \in Constraint
  BY <1>2, RemappedType
<1>4. edges = [k \in DOMAIN all |-> IF k <= n THEN Remapped(keys, all[k]) ELSE all[k]]
  BY DEF RemappedFirst
<1> HIDE DEF edges
<1>5. edges \in [1 .. Len(all) -> Constraint]
  BY <1>1, <1>2, <1>3, <1>4
<1>6. edges \in Seq(Constraint)
  BY <1>1, <1>5
<1>7. Len(edges) \in Nat /\ DOMAIN edges = 1 .. Len(edges)
      /\ DOMAIN edges = 1 .. Len(all)
  BY <1>5, <1>6, LenProperties
<1>8. Len(edges) = Len(all)
  <2>1. \A a, b \in Nat : 1 .. a = 1 .. b => a = b
    OBVIOUS
  <2>2. 1 .. Len(edges) = 1 .. Len(all)
    BY <1>7
  <2>3. QED BY <1>1, <1>7, <2>1, <2>2
<1>9. \A k \in DOMAIN all :
        edges[k] = IF k <= n THEN Remapped(keys, all[k]) ELSE all[k]
  BY <1>4
<1>10. QED BY <1>1, <1>6, <1>7, <1>8, <1>9 DEF edges

(* What an optimisation does: without constraints nothing; else it builds  *)
(* a graph with some key poses, the poses of all constraints among them.   *)
LEMMA OptimizeResult ==
  ASSUME Shaped, Optimize
  PROVE  \E table \in Seq(Pose) :
           /\ ext_const_table' = table /\ Len(table) <= MaxExternal
           /\ \A k \in DOMAIN table : table[k] \in ToSet(int_scan_pose_ids)
           /\ \A k, m \in DOMAIN table : k # m => table[k] # table[m]
           /\ LET ex == ExternalConstraints(table)
                  all == constraints \o ex
              IN  \/ all = <<>> /\ job' = NoGraph /\ constraints' = constraints
                  \/ /\ all # <<>>
                     /\ \E keys \in SUBSET PoseTable :
                          LET edges == RemappedFirst(keys, all,
                                                     Cardinality(ScanPoses(all)))
                          IN  /\ 0 \in keys
                              /\ ScanPoses(all) \cap PoseTable \subseteq keys
                              /\ job' = [poses |-> pose_counter, keys |-> keys,
                                         scan_pose_nr |-> Cardinality(ScanPoses(all)),
                                         edges |-> edges, closures |-> found \o ex]
                              /\ constraints' = SubSeq(edges, 1, Len(constraints))
<1>1. TypeOK /\ MatchedScans
  BY DEF Shaped
<1>2. PICK table \in ExternalMatches :
        ext_const_table' = table /\ pcl_optimize(ExternalConstraints(table))
  BY DEF Optimize
<1>3. /\ table \in Seq(Pose) /\ Len(table) <= MaxExternal
      /\ \A k \in DOMAIN table : table[k] \in ToSet(int_scan_pose_ids)
      /\ \A k, m \in DOMAIN table : k # m => table[k] # table[m]
  BY <1>1, MatchesType
<1> DEFINE ex == ExternalConstraints(table)
           all == constraints \o ex
           sorted == delete_duplicates_and_sort(all)
<1>4. pcl_optimize(ex)
  BY <1>2
<1>5. all \in Seq(Constraint)
  BY <1>1, <1>3, AllType
<1>6. CASE all = <<>>
  <2>1. job' = NoGraph /\ constraints' = constraints
    BY <1>4, <1>6 DEF pcl_optimize
  <2>2. QED BY <1>2, <1>3, <1>6, <2>1
<1>7. CASE all # <<>>
  <2>1. 0 < pose_counter
    BY <1>3, <1>7, PosesBeforeConstraints
  <2>2. PICK g \in Graphs(ex) : job' = g /\ constraints' = KeepInternal(g.edges)
    BY <1>4, <1>7 DEF pcl_optimize
  <2>3. PICK far \in SUBSET PoseTable :
          g = [poses |-> pose_counter, keys |-> pcl_reduce(sorted, far),
               scan_pose_nr |-> Len(sorted),
               edges |-> RemappedFirst(pcl_reduce(sorted, far), all, Len(sorted)),
               closures |-> found \o ex]
    BY <2>2 DEF Graphs
  <2>4. Len(sorted) = Cardinality(ScanPoses(all))
    BY <1>5, SortedList
  <2>5. /\ pcl_reduce(sorted, far) \in SUBSET PoseTable
        /\ 0 \in pcl_reduce(sorted, far)
        /\ ScanPoses(all) \cap PoseTable \subseteq pcl_reduce(sorted, far)
    BY <1>1, <1>5, <2>1, KeysType
  <2> HIDE DEF ex, sorted
  <2>6. PICK keys \in SUBSET PoseTable : keys = pcl_reduce(sorted, far)
    BY <2>5
  <2> DEFINE edges == RemappedFirst(keys, all, Cardinality(ScanPoses(all)))
  <2>7. g = [poses |-> pose_counter, keys |-> keys,
             scan_pose_nr |-> Cardinality(ScanPoses(all)), edges |-> edges,
             closures |-> found \o ex]
    BY <2>3, <2>4, <2>6
  <2>8. constraints' = SubSeq(edges, 1, Len(constraints))
    <3>1. g.edges = edges
      BY <2>7
    <3>2. QED BY <2>2, <3>1 DEF KeepInternal
  <2>9. 0 \in keys /\ ScanPoses(all) \cap PoseTable \subseteq keys
    BY <2>5, <2>6
  <2> HIDE DEF edges
  <2>10. \E ks \in SUBSET PoseTable :
           LET es == RemappedFirst(ks, all, Cardinality(ScanPoses(all)))
           IN  /\ 0 \in ks
               /\ ScanPoses(all) \cap PoseTable \subseteq ks
               /\ job' = [poses |-> pose_counter, keys |-> ks,
                          scan_pose_nr |-> Cardinality(ScanPoses(all)),
                          edges |-> es, closures |-> found \o ex]
               /\ constraints' = SubSeq(es, 1, Len(constraints))
    <3> WITNESS keys \in SUBSET PoseTable
    <3>1. QED BY <2>2, <2>7, <2>8, <2>9 DEF edges
  <2>11. QED BY <1>2, <1>3, <1>7, <2>10 DEF ex
<1>8. QED BY <1>6, <1>7

LEMMA TableType ==
  ASSUME TypeOK
  PROVE  PoseTable \in SUBSET Pose /\ PoseTable \in SUBSET (0 .. MaxPoses)
<1>1. MaxPoses \in Nat /\ pose_counter \in 0 .. MaxPoses
  BY PosesAreNumbers DEF TypeOK
<1>2. QED BY <1>1 DEF PoseTable, Pose

LEMMA KeptType ==
  ASSUME TypeOK, NEW edges \in Seq(Constraint), Len(constraints) <= Len(edges)
  PROVE  LET kept == SubSeq(edges, 1, Len(constraints))
         IN  /\ kept \in Seq(Constraint) /\ Len(kept) = Len(constraints)
             /\ DOMAIN kept = 1 .. Len(constraints)
             /\ \A k \in 1 .. Len(constraints) : kept[k] = edges[k]
<1> DEFINE n == Len(constraints)
           kept == SubSeq(edges, 1, n)
<1>1. constraints \in Seq(Constraint)
  BY DEF TypeOK
<1>2. n \in Nat
  BY <1>1, LenProperties
<1>3. DOMAIN edges = 1 .. Len(edges) /\ Len(edges) \in Nat
  BY LenProperties
<1>4. \A k \in 1 .. n : edges[k] \in Constraint
  <2> TAKE k \in 1 .. n
  <2>1. k \in DOMAIN edges
    BY <1>2, <1>3
  <2>2. QED BY <2>1
<1> HIDE DEF n
<1>5. /\ kept \in Seq(Constraint)
      /\ Len(kept) = IF 1 <= n THEN n - 1 + 1 ELSE 0
      /\ \A k \in 1 .. n - 1 + 1 : kept[k] = edges[1 + k - 1]
  BY <1>2, <1>4, SubSeqProperties
<1> HIDE DEF kept
<1>6. Len(kept) = n
  BY <1>2, <1>5
<1>7. \A k \in 1 .. n : kept[k] = edges[k]
  <2> TAKE k \in 1 .. n
  <2>1. k \in 1 .. n - 1 + 1 /\ 1 + k - 1 = k
    BY <1>2
  <2>2. QED BY <1>5, <2>1
<1>8. DOMAIN kept = 1 .. n
  BY <1>5, <1>6, LenProperties
<1>9. QED BY <1>5, <1>6, <1>7, <1>8 DEF kept, n

LEMMA ShapedOptimize ==
  ASSUME Shaped, Optimize
  PROVE  Shaped'
<1>1. TypeOK /\ ScansInTable /\ ClosuresOfScans /\ MatchedScans /\ KeysOfGraph
  BY DEF Shaped
<1>2. optimizations' \in 0 .. MaxOptimizations
      /\ UNCHANGED <<pose_counter, int_scan_pose_ids, found>>
  <2>1. MaxOptimizations \in Nat /\ optimizations \in 0 .. MaxOptimizations
    BY <1>1, PoseGraphAssumption DEF TypeOK
  <2>2. QED BY <2>1 DEF Optimize
<1> DEFINE ex(t) == ExternalConstraints(t)
           all(t) == constraints \o ex(t)
           edges(keys, t) ==
             RemappedFirst(keys, all(t), Cardinality(ScanPoses(all(t))))
<1>3. PICK table \in Seq(Pose) :
        /\ ext_const_table' = table /\ Len(table) <= MaxExternal
        /\ \A k \in DOMAIN table : table[k] \in ToSet(int_scan_pose_ids)
        /\ \A k, m \in DOMAIN table : k # m => table[k] # table[m]
        /\ \/ all(table) = <<>> /\ job' = NoGraph /\ constraints' = constraints
           \/ \E keys \in SUBSET PoseTable :
                /\ 0 \in keys
                /\ job' = [poses |-> pose_counter, keys |-> keys,
                           scan_pose_nr |-> Cardinality(ScanPoses(all(table))),
                           edges |-> edges(keys, table), closures |-> found \o ex(table)]
                /\ constraints' = SubSeq(edges(keys, table), 1, Len(constraints))
  BY OptimizeResult
<1>4. /\ ex(table) \in Seq(Constraint) /\ all(table) \in Seq(Constraint)
      /\ Len(all(table)) = Len(constraints) + Len(table)
      /\ Len(constraints) \in Nat /\ Len(table) \in Nat
  BY <1>1, AllType, ExternalType
<1>5. pose_counter \in 0 .. MaxPoses /\ constraints \in Seq(Constraint)
      /\ found \in Seq(Constraint) /\ Len(found) = Len(constraints)
      /\ int_scan_pose_ids \in Seq(Pose)
  BY <1>1 DEF TypeOK
<1> HIDE DEF all, ex, edges
<1>6. /\ job' \in Graph /\ (job'.keys # {} => 0 \in job'.keys
                             /\ job'.keys \subseteq 0 .. job'.poses - 1)
      /\ constraints' \in Seq(Constraint) /\ Len(constraints') = Len(constraints)
  <2>1. CASE all(table) = <<>> /\ job' = NoGraph /\ constraints' = constraints
    <3>1. NoGraph \in Graph /\ NoGraph.keys = {}
      BY PosesAreNumbers DEF NoGraph, Graph
    <3>2. QED BY <1>5, <2>1, <3>1
  <2>2. ASSUME NEW keys \in SUBSET PoseTable, 0 \in keys,
               job' = [poses |-> pose_counter, keys |-> keys,
                       scan_pose_nr |-> Cardinality(ScanPoses(all(table))),
                       edges |-> edges(keys, table), closures |-> found \o ex(table)],
               constraints' = SubSeq(edges(keys, table), 1, Len(constraints))
        PROVE  <1>6
    <3>1. keys \in SUBSET Pose /\ keys \in SUBSET (0 .. MaxPoses)
      BY <1>1, TableType
    <3>2. Cardinality(ScanPoses(all(table))) \in Nat
      BY <1>4, ScanPosesType, PosesAreNumbers, Finite
    <3>3. /\ edges(keys, table) \in Seq(Constraint)
          /\ Len(edges(keys, table)) = Len(all(table))
      BY <1>4, <3>1, <3>2, RemappedFirstType DEF edges
    <3>4. Len(constraints) <= Len(edges(keys, table))
      BY <1>4, <3>3
    <3>5. constraints' \in Seq(Constraint) /\ Len(constraints') = Len(constraints)
      BY <1>1, <2>2, <3>3, <3>4, KeptType
    <3>6. found \o ex(table) \in Seq(Constraint)
      BY <1>4, <1>5, ConcatProperties
    <3>7. job' \in Graph
      BY <1>5, <2>2, <3>1, <3>2, <3>3, <3>6 DEF Graph
    <3>8. job'.keys = keys /\ job'.poses = pose_counter
      BY <2>2
    <3>9. QED BY <2>2, <3>5, <3>7, <3>8 DEF PoseTable
  <2>3. QED BY <1>3, <2>1, <2>2
<1>7. TypeOK'
  <2>1. ext_const_table' \in Seq(Pose)
    BY <1>3
  <2>2. QED BY <1>2, <1>5, <1>6, <2>1 DEF TypeOK
<1>8. ScansInTable'
  BY <1>1, <1>2 DEF ScansInTable, PoseTable
<1>9. ClosuresOfScans'
  <2>1. constraints' # <<>> => constraints # <<>>
    BY <1>5, <1>6, EmptySeq
  <2>2. QED BY <1>1, <1>2, <2>1 DEF ClosuresOfScans
<1>10. MatchedScans'
  BY <1>2, <1>3 DEF MatchedScans
<1>11. KeysOfGraph'
  BY <1>6 DEF KeysOfGraph
<1>12. QED BY <1>7, <1>8, <1>9, <1>10, <1>11 DEF Shaped

LEMMA ShapedStep == Shaped /\ [Next]_vars => Shaped'
<1> SUFFICES ASSUME Shaped, [Next]_vars PROVE Shaped'
  OBVIOUS
<1>1. CASE pcl_add_augmented_pose
  BY <1>1, ShapedPose
<1>2. CASE \E id \in Pose : add_scan_pose_id(id)
  BY <1>2, ShapedScan
<1>3. CASE Optimize
  BY <1>3, ShapedOptimize
<1>4. CASE UNCHANGED vars
  BY <1>4 DEF vars, Shaped, TypeOK, ScansInTable, PoseTable, ClosuresOfScans,
              MatchedScans, KeysOfGraph
<1>5. QED BY <1>1, <1>2, <1>3, <1>4 DEF Next

----------------------------------------------------------------------------
(* Every pose is moved once. *)

(* The pose is written back by the subgraph from the last key pose that    *)
(* does not come after it, and by no other.                                *)
LEMMA WrittenOnce ==
  ASSUME TypeOK, KeysOfGraph
  PROVE  EveryPoseMovedOnce
<1> DEFINE keys == job.keys
           N == job.poses
<1>1. job \in Graph
  BY DEF TypeOK
<1>2. N \in Nat /\ N <= MaxPoses /\ MaxPoses \in Nat
  BY <1>1, PosesAreNumbers DEF Graph
<1> SUFFICES ASSUME keys # {}, NEW p \in 0 .. N - 1
             PROVE  Cardinality({key \in keys : p \in Written(job, key)}) = 1
  BY DEF EveryPoseMovedOnce
<1>3. 0 \in keys /\ keys \in SUBSET (0 .. N - 1)
  BY DEF KeysOfGraph
<1>4. p \in Nat /\ p <= N - 1 /\ \A q \in keys : q \in Nat /\ q <= N - 1
  BY <1>2, <1>3
<1>5. keys \in SUBSET (0 .. N)
  BY <1>2, <1>4
<1> HIDE DEF keys, N
<1> DEFINE Upto == {q \in keys : q <= p}
           m == Max(Upto)
           After(key) == {q \in keys : q > key}
           next(key) == Min(After(key))
<1>6. m \in keys /\ m <= p /\ \A q \in keys : q <= p => q <= m
  <2>1. Upto \in SUBSET (0 .. N) /\ Upto # {}
    <3>1. 0 \in keys /\ 0 <= p
      BY <1>3, <1>4
    <3>2. 0 \in Upto
      BY <3>1
    <3>3. Upto \in SUBSET keys
      OBVIOUS
    <3>4. QED BY <1>5, <3>2, <3>3
  <2>2. m \in Upto /\ \A q \in Upto : q <= m
    BY <1>2, <2>1, Greatest
  <2>3. QED BY <2>2
<1>7. Max(keys) \in keys /\ \A q \in keys : q <= Max(keys)
  BY <1>2, <1>3, <1>5, Greatest
<1>8. \A key \in keys : key # Max(keys) =>
        next(key) \in keys /\ key < next(key)
          /\ \A q \in keys : key < q => next(key) <= q
  <2> TAKE key \in keys
  <2> HAVE key # Max(keys)
  <2>1. Max(keys) \in After(key)
    BY <1>4, <1>7
  <2>2. After(key) \in SUBSET (0 .. N) /\ After(key) # {}
    BY <1>5, <2>1
  <2>3. next(key) \in After(key) /\ \A q \in After(key) : next(key) <= q
    BY <1>2, <2>2, Least
  <2>4. \A q \in keys : key < q => q \in After(key)
    BY <1>4
  <2>5. next(key) \in keys /\ key < next(key)
    BY <1>4, <2>3
  <2>6. QED BY <2>3, <2>4, <2>5
<1> HIDE DEF m
<1>9. \A key \in keys : key # Max(keys) =>
        Written(job, key) = key .. next(key) - 1
  <2> TAKE key \in keys
  <2> HAVE key # Max(keys)
  <2>1. key \in Nat /\ next(key) \in Nat /\ key < next(key)
    BY <1>4, <1>8
  <2>2. NextKey(job, key) = next(key)
    BY DEF NextKey, keys
  <2>3. Written(job, key) = IF next(key) - key + 1 = 2 THEN {key}
                            ELSE key .. key + (next(key) - key + 1) - 2
    BY <2>2 DEF Written, keys
  <2> HIDE DEF next
  <2>4. CASE next(key) - key + 1 = 2
    <3>1. next(key) - 1 = key
      BY <2>1, <2>4
    <3>2. key .. key = {key}
      BY <2>1
    <3>3. QED BY <2>3, <2>4, <3>1, <3>2
  <2>5. CASE next(key) - key + 1 # 2
    <3>1. key + (next(key) - key + 1) - 2 = next(key) - 1
      BY <2>1
    <3>2. QED BY <2>3, <2>5, <3>1
  <2>6. QED BY <2>4, <2>5
<1>10. Written(job, Max(keys)) = Max(keys) .. N - 1
  BY DEF Written, keys, N
<1> HIDE DEF next
<1>11. \A key \in keys : p \in Written(job, key) => key = m
  <2> SUFFICES ASSUME NEW key \in keys, p \in Written(job, key) PROVE key = m
    OBVIOUS
  <2>1. key \in Nat /\ m \in Nat
    BY <1>4, <1>6
  <2>2. CASE key = Max(keys)
    <3>1. key <= p
      BY <1>4, <1>10, <2>1, <2>2
    <3>2. key <= m /\ m <= key
      BY <1>6, <1>7, <2>2, <3>1
    <3>3. QED BY <2>1, <3>2
  <2>3. CASE key # Max(keys)
    <3>1. next(key) \in Nat /\ key <= p /\ p <= next(key) - 1
      <4>1. next(key) \in keys
        BY <1>8, <2>3
      <4>2. next(key) \in Nat
        BY <1>4, <4>1
      <4>3. p \in key .. next(key) - 1
        BY <1>9, <2>3
      <4>4. QED BY <1>4, <2>1, <4>2, <4>3
    <3>2. key <= m
      BY <1>6, <3>1
    <3>3. ~(key < m)
      <4> SUFFICES ASSUME key < m PROVE FALSE
        OBVIOUS
      <4>1. next(key) <= m
        BY <1>6, <1>8, <2>3
      <4>2. QED BY <1>4, <1>6, <2>1, <3>1, <4>1
    <3>4. QED BY <2>1, <3>2, <3>3
  <2>4. QED BY <2>2, <2>3
<1>12. p \in Written(job, m)
  <2>1. m \in Nat /\ m \in keys
    BY <1>4, <1>6
  <2>2. CASE m = Max(keys)
    BY <1>4, <1>6, <1>10, <2>1, <2>2
  <2>3. CASE m # Max(keys)
    <3>1. next(m) \in keys /\ m < next(m) /\ Written(job, m) = m .. next(m) - 1
      BY <1>8, <1>9, <2>1, <2>3
    <3>2. next(m) \in Nat
      BY <1>4, <3>1
    <3>3. ~(next(m) <= p)
      BY <1>6, <2>1, <3>1, <3>2
    <3>4. QED BY <1>4, <1>6, <2>1, <3>1, <3>2, <3>3
  <2>4. QED BY <2>2, <2>3
<1>13. {key \in keys : p \in Written(job, key)} = {m}
  BY <1>6, <1>11, <1>12
<1>14. QED BY <1>13, FS_Singleton DEF keys

----------------------------------------------------------------------------
(* The constraints that are reached. *)

LEMMA InvInit == Init => Inv
<1> SUFFICES ASSUME Init PROVE Inv
  OBVIOUS
<1>1. Shaped
  BY ShapedInit
<1>2. TypeOK
  BY <1>1 DEF Shaped
<1>3. constraints = <<>> /\ found = <<>> /\ job = NoGraph
  BY DEF Init
<1>4. ClosuresInOrder
  BY <1>3 DEF ClosuresInOrder
<1>5. NotRenumbered
  BY <1>3 DEF NotRenumbered
<1>6. EdgesInGraph
  <2>1. ext_const_table = <<>>
    BY DEF Init
  <2>2. ReachedInGraph /\ ReachedEnough
    BY <1>3, <2>1 DEF ReachedInGraph, ReachedEnough, AllReached, NoGraph
  <2>3. QED BY <1>2, <2>2 DEF EdgesInGraph
<1>7. SolvesItsGraph
  <2>1. ScanPoses(<<>>) = {}
    BY DEF ScanPoses
  <2>2. job.closures = <<>> /\ job.edges = <<>> /\ job.keys = {}
    BY <1>3 DEF NoGraph
  <2>3. [k \in DOMAIN job.closures |->
          [fromIdx |-> PlaceIn(job.keys, job.closures[k].fromIdx),
           toIdx |-> PlaceIn(job.keys, job.closures[k].toIdx)]] = <<>>
    BY <2>2
  <2>4. QED BY <2>1, <2>2, <2>3 DEF SolvesItsGraph
<1>8. QED BY <1>1, <1>4, <1>5, <1>6, <1>7 DEF Inv, FirstGraphSolved

LEMMA InvPose ==
  ASSUME Inv, pcl_add_augmented_pose
  PROVE  Inv'
<1>1. Shaped'
  BY ShapedPose DEF Inv
<1>2. TypeOK'
  BY <1>1 DEF Shaped
<1>3. UNCHANGED <<int_scan_pose_ids, constraints, ext_const_table, found, job,
                  optimizations>>
  BY DEF pcl_add_augmented_pose
<1>4. ClosuresInOrder' /\ NotRenumbered'
  BY <1>3 DEF Inv, ClosuresInOrder, NotRenumbered
<1>5. EdgesInGraph'
  BY <1>2, <1>3 DEF Inv, EdgesInGraph, ReachedInGraph, ReachedEnough, AllReached
<1>6. FirstGraphSolved'
  BY <1>3 DEF Inv, FirstGraphSolved, AllReached, SolvesItsGraph
<1>7. QED BY <1>1, <1>4, <1>5, <1>6 DEF Inv

(* A new scan begins behind the ends of all constraints.                   *)
LEMMA InvScan ==
  ASSUME Inv, NEW id \in Pose, add_scan_pose_id(id)
  PROVE  Inv'
<1>1. Shaped /\ ClosuresInOrder /\ NotRenumbered /\ EdgesInGraph /\ FirstGraphSolved
  BY DEF Inv
<1>2. Shaped'
  BY <1>1, ShapedScan
<1>3. TypeOK /\ TypeOK' /\ ScansInTable
  BY <1>1, <1>2 DEF Shaped
<1>4. /\ int_scan_pose_ids' = Append(int_scan_pose_ids, id)
      /\ UNCHANGED <<pose_counter, ext_const_table, job, optimizations>>
      /\ \A k \in DOMAIN int_scan_pose_ids : int_scan_pose_ids[k] < id
  BY DEF add_scan_pose_id, ScanArrives
<1>5. int_scan_pose_ids \in Seq(Pose) /\ constraints \in Seq(Constraint)
      /\ found \in Seq(Constraint) /\ Len(found) = Len(constraints)
      /\ id \in Nat
  BY <1>3, PosesAreNumbers DEF TypeOK
<1> DEFINE L == Len(int_scan_pose_ids)
           n == Len(constraints)
<1>6. /\ Len(int_scan_pose_ids') = L + 1
      /\ \A k \in 1 .. L : int_scan_pose_ids'[k] = int_scan_pose_ids[k]
      /\ int_scan_pose_ids'[L + 1] = id
      /\ int_scan_pose_ids' \in Seq(Pose)
  BY <1>4, <1>5, AppendProperties
<1>7. /\ DOMAIN int_scan_pose_ids = 1 .. L /\ L \in Nat
      /\ DOMAIN int_scan_pose_ids' = 1 .. L + 1
      /\ DOMAIN constraints = 1 .. n /\ n \in Nat
  BY <1>5, <1>6, LenProperties
<1>8. \A k \in 1 .. L : int_scan_pose_ids[k] \in Nat /\ int_scan_pose_ids[k] < id
  <2> TAKE k \in 1 .. L
  <2>1. int_scan_pose_ids[k] \in Pose
    BY <1>5, <1>7
  <2>2. int_scan_pose_ids[k] \in Nat
    BY <2>1, PosesAreNumbers
  <2>3. QED BY <1>4, <1>7, <2>2
<1>8a. 0 \notin ToSet(int_scan_pose_ids') =>
         /\ 0 \notin ToSet(int_scan_pose_ids)
         /\ \A k \in 1 .. L : 0 < int_scan_pose_ids[k]
  <2> SUFFICES ASSUME 0 \notin ToSet(int_scan_pose_ids')
               PROVE  \A k \in 1 .. L : 0 # int_scan_pose_ids[k]
    BY <1>7, <1>8 DEF ToSet
  <2>1. \A k \in 1 .. L : k \in DOMAIN int_scan_pose_ids'
                          /\ int_scan_pose_ids'[k] = int_scan_pose_ids[k]
    BY <1>6, <1>7
  <2>2. QED BY <2>1 DEF ToSet
<1>9. \A k \in 1 .. n :
        /\ constraints[k].toIdx < constraints[k].fromIdx
        /\ 0 \notin ToSet(int_scan_pose_ids) => 0 < constraints[k].toIdx
        /\ constraints[k].fromIdx \in Nat
        /\ \E m \in 1 .. L : constraints[k].fromIdx <= int_scan_pose_ids[m]
  <2> TAKE k \in 1 .. n
  <2>1. constraints[k] \in Constraint
    BY <1>5, <1>7
  <2>2. constraints[k].fromIdx \in Nat
    BY <2>1, PosesAreNumbers DEF Constraint
  <2>3. QED BY <1>1, <1>7, <2>2 DEF ClosuresInOrder
<1> HIDE DEF L, n
<1>10. \A k \in 1 .. n : /\ constraints[k].fromIdx < id
                         /\ \E m \in 1 .. L + 1 :
                              constraints[k].fromIdx <= int_scan_pose_ids'[m]
  <2> TAKE k \in 1 .. n
  <2>1. PICK m \in 1 .. L : constraints[k].fromIdx <= int_scan_pose_ids[m]
    BY <1>9
  <2>2. constraints[k].fromIdx < id
    BY <1>5, <1>8, <1>9, <2>1
  <2>3. m \in 1 .. L + 1 /\ int_scan_pose_ids'[m] = int_scan_pose_ids[m]
    BY <1>6, <1>7
  <2>4. QED BY <2>1, <2>2, <2>3
<1>11. ClosuresInOrder'
  <2>1. CASE UNCHANGED <<constraints, found>>
    BY <1>1, <1>7, <1>8a, <1>9, <1>10, <2>1 DEF ClosuresInOrder
  <2>2. ASSUME NEW k \in DOMAIN int_scan_pose_ids,
               NEW c \in Constraint,
               c = [fromIdx |-> id, toIdx |-> int_scan_pose_ids[k]],
               constraints' = Append(constraints, c)
        PROVE  ClosuresInOrder'
    <3>1. /\ c.fromIdx = id /\ c.toIdx < c.fromIdx
          /\ 0 \notin ToSet(int_scan_pose_ids') => 0 < c.toIdx
      BY <1>7, <1>8, <1>8a, <2>2
    <3>2. /\ Len(constraints') = n + 1 /\ constraints' \in Seq(Constraint)
          /\ \A j \in 1 .. n : constraints'[j] = constraints[j]
          /\ constraints'[n + 1] = c
      BY <1>5, <2>2, AppendProperties DEF n
    <3>3. DOMAIN constraints' = 1 .. n + 1
      BY <3>2, LenProperties
    <3>4. ASSUME NEW j \in 1 .. n + 1
          PROVE  /\ constraints'[j].toIdx < constraints'[j].fromIdx
                 /\ 0 \notin ToSet(int_scan_pose_ids') => 0 < constraints'[j].toIdx
                 /\ \E m \in 1 .. L + 1 : constraints'[j].fromIdx <= int_scan_pose_ids'[m]
      <4>1. CASE j \in 1 .. n
        BY <1>8a, <1>9, <1>10, <3>2, <4>1
      <4>2. CASE j = n + 1
        <5>1. L + 1 \in 1 .. L + 1 /\ id <= int_scan_pose_ids'[L + 1]
          BY <1>5, <1>6, <1>7
        <5>2. QED BY <3>1, <3>2, <4>2, <5>1
      <4>3. QED BY <1>7, <4>1, <4>2
    <3>5. ASSUME NEW j \in 1 .. n + 1, NEW m \in 1 .. n + 1, j < m
          PROVE  constraints'[j].fromIdx < constraints'[m].fromIdx
      <4>1. j \in 1 .. n
        BY <1>7, <3>5
      <4>2. CASE m \in 1 .. n
        BY <1>1, <1>7, <3>2, <3>5, <4>1, <4>2 DEF ClosuresInOrder
      <4>3. CASE m = n + 1
        BY <1>10, <3>1, <3>2, <4>1, <4>3
      <4>4. QED BY <1>7, <4>2, <4>3
    <3>6. QED BY <1>7, <3>3, <3>4, <3>5 DEF ClosuresInOrder
  <2>3. QED BY <1>3, <2>1, <2>2, ClosureFound
<1>12. NotRenumbered'
  <2>1. constraints = found => constraints' = found'
    <3>1. CASE UNCHANGED <<constraints, found>>
      BY <3>1
    <3>2. ASSUME NEW c, constraints' = Append(constraints, c),
                 found' = Append(found, c)
          PROVE  <2>1
      BY <3>2
    <3>3. QED BY <1>3, <3>1, <3>2, ClosureFound
  <2>2. QED BY <1>1, <1>4, <2>1 DEF NotRenumbered
<1>13. EdgesInGraph'
  <2>1. ReachedInGraph' /\ ReachedEnough'
    BY <1>1, <1>4, <1>8a DEF EdgesInGraph, ReachedInGraph, ReachedEnough, AllReached
  <2>2. QED BY <1>3, <2>1 DEF EdgesInGraph
<1>14. FirstGraphSolved'
  <2>1. found' = <<>> => found = <<>>
    <3>1. CASE UNCHANGED <<constraints, found>>
      BY <3>1
    <3>2. ASSUME NEW c \in Constraint, found' = Append(found, c)
          PROVE  <2>1
      <4>1. found \in Seq(Constraint)
        BY <1>5
      <4>2. Append(found, c) # <<>>
        BY <4>1, AppendProperties
      <4>3. QED BY <3>2, <4>2
    <3>3. QED BY <1>3, <3>1, <3>2, ClosureFound
  <2>2. QED BY <1>1, <1>4, <2>1 DEF FirstGraphSolved, AllReached, SolvesItsGraph
<1>15. QED BY <1>2, <1>11, <1>12, <1>13, <1>14 DEF Inv

(* Where the constraints of an optimisation lead: from a pose of the table *)
(* to an earlier one, but for the one that ties the first pose to itself.  *)
LEMMA ConstraintsInTable ==
  ASSUME Shaped, ClosuresInOrder, NEW table \in Seq(Pose),
         \A k \in DOMAIN table : table[k] \in ToSet(int_scan_pose_ids)
  PROVE  LET ex == ExternalConstraints(table)
             all == constraints \o ex
         IN  /\ \A k \in DOMAIN ex :
                  /\ ex[k].toIdx = 0
                  /\ 0 \notin ToSet(int_scan_pose_ids) => 0 < ex[k].fromIdx
             /\ \A k \in DOMAIN all :
                  /\ all[k].toIdx <= all[k].fromIdx
                  /\ all[k].toIdx = all[k].fromIdx =>
                       ~(k <= Len(constraints)) /\ all[k] = get_ext_constraint(0)
                  /\ all[k].fromIdx \in PoseTable /\ all[k].toIdx \in PoseTable
<1> DEFINE ex == ExternalConstraints(table)
           all == constraints \o ex
           n == Len(constraints)
<1>1. TypeOK /\ ScansInTable
  BY DEF Shaped
<1>2. int_scan_pose_ids \in Seq(Pose) /\ constraints \in Seq(Constraint)
      /\ pose_counter \in Nat
  BY <1>1 DEF TypeOK
<1>3. ex \in Seq(Constraint) /\ Len(ex) = Len(table)
      /\ \A k \in DOMAIN ex :
           k \in DOMAIN table /\ ex[k].fromIdx = table[k] /\ ex[k].toIdx = 0
  BY ExternalType
<1>4. /\ all \in Seq(Constraint) /\ Len(all) = n + Len(table)
      /\ DOMAIN all = 1 .. Len(all) /\ n \in Nat /\ Len(table) \in Nat
      /\ \A k \in 1 .. Len(all) :
           all[k] = IF k <= n THEN constraints[k] ELSE ex[k - n]
  BY <1>1, AllType
<1>5. \A m \in DOMAIN int_scan_pose_ids :
        int_scan_pose_ids[m] \in Nat /\ int_scan_pose_ids[m] < pose_counter
  <2> TAKE m \in DOMAIN int_scan_pose_ids
  <2>1. int_scan_pose_ids[m] \in PoseTable
    BY <1>1 DEF ScansInTable, ToSet
  <2>2. QED BY <1>2, <2>1 DEF PoseTable
<1>6. DOMAIN constraints = 1 .. n /\ DOMAIN ex = 1 .. Len(table)
  BY <1>2, <1>3, LenProperties
<1> HIDE DEF ex, n
<1>7. \A k \in DOMAIN ex :
        /\ ex[k].toIdx = 0 /\ (0 \notin ToSet(int_scan_pose_ids) => 0 < ex[k].fromIdx)
        /\ ex[k].fromIdx \in Nat /\ ex[k].fromIdx < pose_counter
  <2> TAKE k \in DOMAIN ex
  <2>1. ex[k].fromIdx \in ToSet(int_scan_pose_ids) /\ ex[k].toIdx = 0
    BY <1>3
  <2>2. PICK m \in DOMAIN int_scan_pose_ids : ex[k].fromIdx = int_scan_pose_ids[m]
    BY <2>1 DEF ToSet
  <2>3. ex[k].fromIdx \in Nat /\ ex[k].fromIdx < pose_counter
    BY <1>5, <2>2
  <2>4. 0 \notin ToSet(int_scan_pose_ids) => 0 < ex[k].fromIdx
    BY <2>1, <2>3
  <2>5. QED BY <2>1, <2>3, <2>4
<1> HIDE DEF all
<1>8. ASSUME NEW k \in DOMAIN all
      PROVE  /\ all[k].toIdx <= all[k].fromIdx
             /\ all[k].toIdx = all[k].fromIdx => ~(k <= n) /\ all[k] = get_ext_constraint(0)
             /\ all[k].fromIdx \in PoseTable /\ all[k].toIdx \in PoseTable
  <2>1. all[k] \in Constraint
    BY <1>4
  <2>2. all[k].fromIdx \in Nat /\ all[k].toIdx \in Nat
    BY <2>1, PosesAreNumbers DEF Constraint
  <2>3. /\ all[k].toIdx <= all[k].fromIdx /\ all[k].fromIdx < pose_counter
        /\ all[k].toIdx = all[k].fromIdx => ~(k <= n) /\ all[k].fromIdx = 0
    <3>1. CASE k <= n
      <4>1. k \in DOMAIN constraints /\ all[k] = constraints[k]
        BY <1>4, <1>6, <3>1
      <4>2. PICK m \in DOMAIN int_scan_pose_ids :
              constraints[k].fromIdx <= int_scan_pose_ids[m]
        BY <4>1 DEF ClosuresInOrder
      <4>3. constraints[k].toIdx < constraints[k].fromIdx
        BY <4>1 DEF ClosuresInOrder
      <4>4. int_scan_pose_ids[m] \in Nat /\ int_scan_pose_ids[m] < pose_counter
        BY <1>5
      <4>5. QED BY <1>2, <2>2, <4>1, <4>2, <4>3, <4>4
    <3>2. CASE ~(k <= n)
      <4>1. k - n \in DOMAIN ex /\ all[k] = ex[k - n]
        BY <1>4, <1>6, <3>2
      <4>2. QED BY <1>7, <2>2, <3>2, <4>1
    <3>3. QED BY <3>1, <3>2
  <2>4. all[k].toIdx = all[k].fromIdx => all[k] = get_ext_constraint(0)
    <3>1. all[k].toIdx = all[k].fromIdx => all[k].fromIdx = 0 /\ all[k].toIdx = 0
      BY <2>3
    <3>2. QED BY <2>1, <3>1 DEF get_ext_constraint, Constraint
  <2>5. QED BY <1>2, <2>2, <2>3, <2>4 DEF PoseTable
<1>9. QED BY <1>7, <1>8 DEF ex, all, n

(* An optimisation remaps the constraints it reaches to places that are in *)
(* the same order as the poses.                                            *)
LEMMA InvOptimize ==
  ASSUME Inv, Optimize
  PROVE  Inv'
<1>1. Shaped /\ ClosuresInOrder /\ NotRenumbered /\ FirstGraphSolved
  BY DEF Inv
<1>2. Shaped'
  BY <1>1, ShapedOptimize
<1>3. TypeOK /\ TypeOK'
  BY <1>1, <1>2 DEF Shaped
<1>4. optimizations \in Nat /\ optimizations' = optimizations + 1
      /\ UNCHANGED <<pose_counter, int_scan_pose_ids, found>>
  BY <1>3 DEF Optimize, TypeOK
<1>5. NotRenumbered'
  BY <1>4 DEF NotRenumbered
<1>6. PICK table \in Seq(Pose) :
        /\ ext_const_table' = table
        /\ \A k \in DOMAIN table : table[k] \in ToSet(int_scan_pose_ids)
        /\ LET ex == ExternalConstraints(table)
               all == constraints \o ex
           IN  \/ all = <<>> /\ job' = NoGraph /\ constraints' = constraints
               \/ \E keys \in SUBSET PoseTable :
                    LET edges == RemappedFirst(keys, all, Cardinality(ScanPoses(all)))
                    IN  /\ 0 \in keys
                        /\ ScanPoses(all) \cap PoseTable \subseteq keys
                        /\ job' = [poses |-> pose_counter, keys |-> keys,
                                   scan_pose_nr |-> Cardinality(ScanPoses(all)),
                                   edges |-> edges, closures |-> found \o ex]
                        /\ constraints' = SubSeq(edges, 1, Len(constraints))
  BY <1>1, OptimizeResult
<1> DEFINE ex == ExternalConstraints(table)
           all == constraints \o ex
           S == ScanPoses(all)
           n == Len(constraints)
<1>7. CASE all = <<>> /\ job' = NoGraph /\ constraints' = constraints
  <2>1. ClosuresInOrder'
    BY <1>1, <1>4, <1>7 DEF ClosuresInOrder
  <2>2. EdgesInGraph'
    <3>1. Len(table) \in Nat
      BY LenProperties
    <3>2. ReachedInGraph' /\ ReachedEnough'
      BY <1>6, <1>7, <3>1 DEF ReachedInGraph, ReachedEnough, AllReached, NoGraph
    <3>3. QED BY <1>3, <3>2 DEF EdgesInGraph
  <2>3. SolvesItsGraph'
    <3>1. ScanPoses(<<>>) = {}
      BY DEF ScanPoses
    <3>2. job'.closures = <<>> /\ job'.edges = <<>> /\ job'.keys = {}
      BY <1>7 DEF NoGraph
    <3>3. [k \in DOMAIN job'.closures |->
            [fromIdx |-> PlaceIn(job'.keys, job'.closures[k].fromIdx),
             toIdx |-> PlaceIn(job'.keys, job'.closures[k].toIdx)]] = <<>>
      BY <3>2
    <3>4. QED BY <3>1, <3>2, <3>3 DEF SolvesItsGraph, ScanPoses, PlaceIn
  <2>4. QED BY <1>2, <1>5, <2>1, <2>2, <2>3 DEF Inv, FirstGraphSolved
<1>8. ASSUME NEW keys \in SUBSET PoseTable,
             0 \in keys, S \cap PoseTable \subseteq keys,
             job' = [poses |-> pose_counter, keys |-> keys,
                     scan_pose_nr |-> Cardinality(S),
                     edges |-> RemappedFirst(keys, all, Cardinality(S)),
                     closures |-> found \o ex],
             constraints' = SubSeq(RemappedFirst(keys, all, Cardinality(S)), 1, n)
      PROVE  ClosuresInOrder' /\ EdgesInGraph' /\ FirstGraphSolved'
  <2>1. /\ all \in Seq(Constraint) /\ Len(all) = n + Len(table)
        /\ DOMAIN all = 1 .. Len(all) /\ n \in Nat /\ Len(table) \in Nat
        /\ \A k \in 1 .. Len(all) :
             all[k] = IF k <= n THEN constraints[k] ELSE ex[k - n]
    BY <1>3, AllType
  <2>2. constraints \in Seq(Constraint) /\ found \in Seq(Constraint)
        /\ Len(found) = n /\ DOMAIN constraints = 1 .. n
    BY <1>3, LenProperties DEF TypeOK
  <2>3. /\ \A k \in DOMAIN ex :
             /\ ex[k].toIdx = 0
             /\ 0 \notin ToSet(int_scan_pose_ids) => 0 < ex[k].fromIdx
        /\ \A k \in DOMAIN all :
             /\ all[k].toIdx <= all[k].fromIdx
             /\ all[k].toIdx = all[k].fromIdx => ~(k <= n) /\ all[k] = get_ext_constraint(0)
             /\ all[k].fromIdx \in PoseTable /\ all[k].toIdx \in PoseTable
    BY <1>1, <1>6, ConstraintsInTable
  <2>4. ex \in Seq(Constraint) /\ Len(ex) = Len(table)
    BY ExternalType
  <2>5. /\ n <= Cardinality(S)
        /\ Len(table) <= 2 /\ 0 \notin ToSet(int_scan_pose_ids) =>
             Len(all) <= Cardinality(S)
    <3>1. \A k, m \in DOMAIN constraints :
            k < m => constraints[k].fromIdx < constraints[m].fromIdx
      BY <1>1 DEF ClosuresInOrder
    <3>2. ASSUME Len(table) <= 2, 0 \notin ToSet(int_scan_pose_ids)
          PROVE  Len(all) <= Cardinality(S)
      <4>1. \A k \in DOMAIN constraints :
              0 < constraints[k].toIdx /\ constraints[k].toIdx < constraints[k].fromIdx
        BY <1>1, <3>2 DEF ClosuresInOrder
      <4>2. Len(ex) <= 2 /\ \A k \in DOMAIN ex : ex[k].toIdx = 0 /\ 0 < ex[k].fromIdx
        BY <2>3, <2>4, <3>2
      <4> HIDE DEF ex
      <4>3. QED BY <2>2, <2>4, <3>1, <4>1, <4>2, ScanPosesSuffice
    <3>3. n <= Cardinality(S)
      <4> HIDE DEF ex
      <4>1. QED BY <2>2, <2>4, <3>1, InternalReached
    <3>4. QED BY <3>2, <3>3
  <2>6. keys \in SUBSET (0 .. MaxPoses)
    BY <1>3, TableType
  <2>7. \A k \in DOMAIN all : all[k].fromIdx \in keys /\ all[k].toIdx \in keys
                              /\ all[k] \in Constraint
    <3> TAKE k \in DOMAIN all
    <3>1. all[k].fromIdx \in S /\ all[k].toIdx \in S
      BY <2>1, ScanPosesType
    <3>2. all[k].fromIdx \in PoseTable /\ all[k].toIdx \in PoseTable
      BY <2>3
    <3> HIDE DEF S, ex
    <3>3. all[k] \in Constraint
      BY <2>1
    <3> HIDE DEF all
    <3>4. QED BY <1>8, <3>1, <3>2, <3>3
  <2>8. S \in SUBSET (0 .. MaxPoses) /\ Cardinality(S) \in Nat
    BY <2>1, ScanPosesType, PosesAreNumbers, Finite
  <2> DEFINE edges == RemappedFirst(keys, all, Cardinality(S))
             placed(c) == [fromIdx |-> PlaceIn(keys, c.fromIdx),
                           toIdx |-> PlaceIn(keys, c.toIdx)]
  <2>9. edges \in Seq(Constraint) /\ Len(edges) = Len(all) /\ DOMAIN edges = DOMAIN all
        /\ \A k \in DOMAIN all :
             edges[k] = IF k <= Cardinality(S) THEN Remapped(keys, all[k]) ELSE all[k]
    BY <2>1, <2>6, <2>8, RemappedFirstType
  <2> HIDE DEF ex, all, S, n
  <2>10. \A k \in DOMAIN all : k <= Cardinality(S) => edges[k] = Remapped(keys, all[k])
    BY <2>9
  <2> HIDE DEF edges
  <2>11. \A k \in DOMAIN all : k <= Cardinality(S) =>
           /\ edges[k] = placed(all[k])
           /\ all[k].toIdx < all[k].fromIdx => edges[k].toIdx < edges[k].fromIdx
           /\ edges[k].fromIdx < Cardinality(keys)
           /\ edges[k].fromIdx <= all[k].fromIdx
           /\ 0 < all[k].toIdx => 0 < edges[k].toIdx
    <3> TAKE k \in DOMAIN all
    <3> HAVE k <= Cardinality(S)
    <3>1. QED BY <1>8, <2>3, <2>6, <2>7, <2>10, RemappedConstraint
  <2>12. /\ job'.keys = keys /\ job'.edges = edges /\ job'.closures = found \o ex
         /\ job'.scan_pose_nr = Cardinality(S)
    BY <1>8 DEF edges
  <2>13. EdgesInGraph'
    <3>1. ASSUME NEW k \in DOMAIN edges, k <= Cardinality(S)
          PROVE  /\ edges[k].fromIdx < Cardinality(keys)
                 /\ \/ edges[k].toIdx < edges[k].fromIdx
                    \/ (found \o ex)[k] = get_ext_constraint(0) /\ edges[k] = (found \o ex)[k]
      <4>1. k \in DOMAIN all
        BY <2>9, <3>1
      <4>2. CASE all[k].toIdx < all[k].fromIdx
        BY <2>11, <3>1, <4>1, <4>2
      <4>3. CASE all[k].toIdx = all[k].fromIdx
        <5>1. ~(k <= n) /\ all[k] = get_ext_constraint(0)
          BY <2>3, <4>1, <4>3
        <5>2. (found \o ex)[k] = all[k]
          <6>1. /\ found \o ex \in Seq(Constraint)
                /\ \A i \in 1 .. n + Len(ex) :
                     (found \o ex)[i] = IF i <= n THEN found[i] ELSE ex[i - n]
            BY <2>2, <2>4, ConcatProperties
          <6>2. k \in 1 .. Len(all) /\ Len(all) = n + Len(ex)
            BY <2>1, <2>4, <4>1
          <6>3. (found \o ex)[k] = ex[k - n] /\ all[k] = ex[k - n]
            BY <2>1, <5>1, <6>1, <6>2
          <6>4. QED BY <6>3
        <5>3. PlaceIn(keys, 0) = 0
          <6>1. PlaceIn(keys, 0) \in Nat /\ PlaceIn(keys, 0) <= 0
            BY <2>6, PosesAreNumbers, PlaceType
          <6>2. QED BY <6>1
        <5>4. edges[k] = get_ext_constraint(0)
          <6>1. edges[k] = placed(get_ext_constraint(0))
            <7>1. edges[k] = placed(all[k])
              BY <2>11, <3>1, <4>1
            <7> HIDE DEF placed
            <7>2. QED BY <5>1, <7>1
          <6>2. QED BY <5>3, <6>1 DEF get_ext_constraint
        <5>5. QED BY <2>11, <3>1, <4>1, <5>1, <5>2, <5>4
      <4>4. all[k].fromIdx \in Nat /\ all[k].toIdx \in Nat
        <5>1. all[k].fromIdx \in keys /\ all[k].toIdx \in keys
          BY <2>7, <4>1
        <5>2. QED BY <2>6, <5>1, PosesAreNumbers, Finite
      <4>5. all[k].toIdx <= all[k].fromIdx
        BY <2>3, <4>1
      <4>6. all[k].toIdx < all[k].fromIdx \/ all[k].toIdx = all[k].fromIdx
        BY <4>4, <4>5
      <4>7. QED BY <4>2, <4>3, <4>6
    <3>2. ReachedInGraph'
      BY <2>12, <3>1 DEF ReachedInGraph, get_ext_constraint
    <3>3. ReachedEnough'
      <4>1. Len(edges) - Len(table) = n
        BY <2>1, <2>9
      <4>2. Len(table) <= 2 /\ 0 \notin ToSet(int_scan_pose_ids) =>
              Len(edges) <= Cardinality(S)
        BY <2>5, <2>9
      <4>3. QED BY <1>4, <1>6, <2>5, <2>12, <4>1, <4>2
               DEF ReachedEnough, AllReached
    <3>4. QED BY <1>3, <3>2, <3>3 DEF EdgesInGraph
  <2>14. FirstGraphSolved'
    <3>1. SUFFICES ASSUME optimizations' <= 1 \/ found = <<>>, AllReached'
                   PROVE  SolvesItsGraph'
      BY <1>4 DEF FirstGraphSolved
    <3>1a. \A k \in DOMAIN all : edges[k] = placed(all[k])
      <4>1. Len(all) <= Cardinality(S)
        BY <2>9, <2>12, <3>1 DEF AllReached
      <4>2. \A k \in DOMAIN all : k <= Cardinality(S)
        BY <2>1, <2>8, <4>1
      <4>3. QED BY <2>11, <4>2
    <3>2. constraints = found
      <4>1. CASE optimizations' <= 1
        BY <1>1, <1>4, <4>1 DEF NotRenumbered
      <4>2. CASE found = <<>>
        <5>1. n = 0
          BY <2>2, <4>2
        <5>2. QED BY <2>2, <4>2, <5>1, EmptySeq DEF n
      <4>3. QED BY <3>1, <4>1, <4>2
    <3>3. job'.closures = all
      BY <2>12, <3>2 DEF all
    <3>4. S \subseteq keys
      <4>1. ASSUME NEW p \in S PROVE p \in keys
        <5>1. PICK k \in DOMAIN all : p = all[k].fromIdx \/ p = all[k].toIdx
          BY DEF S, ScanPoses
        <5>2. QED BY <2>7, <5>1
      <4>2. QED BY <4>1
    <3>5. edges = [k \in DOMAIN all |-> placed(all[k])]
      <4>1. edges = [k \in DOMAIN all |-> edges[k]]
        <5>1. DOMAIN edges = 1 .. Len(edges)
          BY <2>9, LenProperties
        <5>2. edges \in [DOMAIN all -> Constraint]
          BY <2>9, <5>1
        <5>3. QED BY <5>2
      <4>2. QED BY <3>1a, <4>1
    <3>6. ScanPoses(job.closures)' = S
      BY <3>3 DEF ScanPoses, S
    <3>7. QED BY <2>12, <3>3, <3>4, <3>5, <3>6 DEF SolvesItsGraph, PlaceIn
  <2>15. /\ DOMAIN constraints' = 1 .. n
         /\ \A k \in 1 .. n : /\ constraints'[k] = edges[k] /\ k \in DOMAIN all
                              /\ all[k] = constraints[k] /\ k <= Cardinality(S)
                              /\ all[k].toIdx < all[k].fromIdx
    <3>1. n <= Len(edges)
      BY <2>1, <2>9
    <3>2. constraints' = SubSeq(edges, 1, n)
      BY <1>8 DEF edges
    <3>3. DOMAIN constraints' = 1 .. n /\ \A k \in 1 .. n : constraints'[k] = edges[k]
      BY <1>3, <2>9, <3>1, <3>2, KeptType DEF n
    <3>4. \A k \in 1 .. n : k \in 1 .. Len(all) /\ k <= n
      BY <2>1
    <3>5. \A k \in 1 .. n : k <= Cardinality(S)
      BY <2>1, <2>5, <2>8
    <3>6. \A k \in 1 .. n : constraints[k].toIdx < constraints[k].fromIdx
      BY <1>1, <2>2 DEF ClosuresInOrder
    <3>7. QED BY <2>1, <3>3, <3>4, <3>5, <3>6
  <2>16. ASSUME NEW k \in 1 .. n
         PROVE  /\ constraints'[k].toIdx < constraints'[k].fromIdx
                /\ 0 \notin ToSet(int_scan_pose_ids) => 0 < constraints'[k].toIdx
                /\ \E m \in DOMAIN int_scan_pose_ids :
                     constraints'[k].fromIdx <= int_scan_pose_ids[m]
    <3>1. /\ constraints'[k] = edges[k] /\ k \in DOMAIN all /\ all[k] = constraints[k]
          /\ k <= Cardinality(S) /\ all[k].toIdx < all[k].fromIdx
      BY <2>15
    <3>2. PICK m \in DOMAIN int_scan_pose_ids :
            /\ 0 \notin ToSet(int_scan_pose_ids) => 0 < constraints[k].toIdx
            /\ constraints[k].fromIdx <= int_scan_pose_ids[m]
      BY <1>1, <2>2 DEF ClosuresInOrder
    <3>3. edges[k] \in Constraint /\ constraints[k] \in Constraint
      BY <2>2, <2>9, <3>1
    <3>4. edges[k].fromIdx \in Nat /\ constraints[k].fromIdx \in Nat
      BY <3>3, PosesAreNumbers DEF Constraint
    <3>5. int_scan_pose_ids[m] \in Nat
      <4>1. int_scan_pose_ids \in Seq(Pose)
        BY <1>3 DEF TypeOK
      <4>2. int_scan_pose_ids[m] \in Pose
        BY <4>1
      <4>3. QED BY <4>2, PosesAreNumbers
    <3>6. edges[k].fromIdx <= int_scan_pose_ids[m]
      <4>1. edges[k].fromIdx <= constraints[k].fromIdx
        <5>1. edges[k].fromIdx <= all[k].fromIdx
          BY <2>11, <3>1
        <5>2. QED BY <3>1, <5>1
      <4>2. QED BY <3>2, <3>4, <3>5, <4>1
    <3>7. QED BY <2>11, <3>1, <3>2, <3>6
  <2>17. ASSUME NEW k \in 1 .. n, NEW m \in 1 .. n, k < m
         PROVE  constraints'[k].fromIdx < constraints'[m].fromIdx
    <3>1. /\ constraints'[k] = edges[k] /\ all[k] = constraints[k] /\ k \in DOMAIN all
          /\ constraints'[m] = edges[m] /\ all[m] = constraints[m] /\ m \in DOMAIN all
          /\ k <= Cardinality(S) /\ m <= Cardinality(S)
      BY <2>15
    <3>2. constraints[k].fromIdx < constraints[m].fromIdx
      BY <1>1, <2>2, <2>17 DEF ClosuresInOrder
    <3>3. edges[k].fromIdx = PlaceIn(keys, constraints[k].fromIdx)
            /\ edges[m].fromIdx = PlaceIn(keys, constraints[m].fromIdx)
      <4>1. edges[k] = placed(constraints[k]) /\ edges[m] = placed(constraints[m])
        <5>1. edges[k] = placed(all[k]) /\ edges[m] = placed(all[m])
          BY <2>11, <3>1
        <5> HIDE DEF placed
        <5>2. QED BY <3>1, <5>1
      <4>2. QED BY <4>1
    <3>4. constraints[k].fromIdx \in keys /\ constraints[m].fromIdx \in keys
      BY <2>7, <3>1
    <3>5. constraints[m].fromIdx \in Nat
      BY <2>6, <3>4, PosesAreNumbers, Finite
    <3>6. QED BY <2>6, <3>1, <3>2, <3>3, <3>4, <3>5, PosesAreNumbers, PlaceGrows
  <2>18. ClosuresInOrder'
    BY <1>4, <2>15, <2>16, <2>17 DEF ClosuresInOrder
  <2>19. QED BY <2>13, <2>14, <2>18
<1>9. QED BY <1>2, <1>5, <1>6, <1>7, <1>8 DEF Inv

LEMMA InvStep == Inv /\ [Next]_vars => Inv'
<1> SUFFICES ASSUME Inv, [Next]_vars PROVE Inv'
  OBVIOUS
<1>1. CASE pcl_add_augmented_pose
  BY <1>1, InvPose
<1>2. CASE \E id \in Pose : add_scan_pose_id(id)
  BY <1>2, InvScan
<1>3. CASE Optimize
  BY <1>3, InvOptimize
<1>4. CASE UNCHANGED vars
  <2>1. Shaped'
    BY <1>4, ShapedStep DEF Inv
  <2>2. UNCHANGED <<pose_counter, int_scan_pose_ids, constraints,
                    ext_const_table, found, job, optimizations>>
    BY <1>4 DEF vars
  <2>3. TypeOK'
    BY <2>1 DEF Shaped
  <2>4. ClosuresInOrder' /\ NotRenumbered'
    BY <2>2 DEF Inv, ClosuresInOrder, NotRenumbered
  <2>5. EdgesInGraph' /\ FirstGraphSolved'
    BY <2>2, <2>3 DEF Inv, EdgesInGraph, ReachedInGraph, ReachedEnough, AllReached,
                      FirstGraphSolved, SolvesItsGraph
  <2>6. QED BY <2>1, <2>4, <2>5 DEF Inv
<1>5. QED BY <1>1, <1>2, <1>3, <1>4 DEF Next

----------------------------------------------------------------------------
(* The theorems. *)

LEMMA AlwaysShaped == Spec => []Shaped
<1>1. Init => Shaped
  BY ShapedInit
<1>2. Shaped /\ [Next]_vars => Shaped'
  BY ShapedStep
<1>3. QED BY <1>1, <1>2, PTL DEF Spec

(* Renumbering a constraint yields poses again, however often: the ends of *)
(* every constraint that is stored, or given to the solver, are poses of   *)
(* the mission.                                                            *)
THEOREM TypeCorrect == Spec => []TypeOK
<1>1. Shaped => TypeOK
  BY DEF Shaped
<1>2. QED BY <1>1, AlwaysShaped, PTL

(* Each optimisation moves every pose of the table exactly once, however   *)
(* many constraints there are and wherever the poses lie.                  *)
THEOREM EveryPoseMovedTheorem == Spec => []EveryPoseMovedOnce
<1>1. Shaped => EveryPoseMovedOnce
  BY WrittenOnce DEF Shaped
<1>2. QED BY <1>1, AlwaysShaped, PTL

(* Whatever scans are matched, the stored constraints stay in order, and   *)
(* so those that are reached keep their direction.                         *)
THEOREM PoseGraphInvariant == Spec => []Inv
<1>1. Init => Inv
  BY InvInit
<1>2. Inv /\ [Next]_vars => Inv'
  BY InvStep
<1>3. QED BY <1>1, <1>2, PTL DEF Spec

(* The internal constraints are always reached, all constraints while at   *)
(* most two scans are matched with other drones; and those reached are     *)
(* edges between two different key poses, the later one first, also after  *)
(* the constraints have been renumbered.                                   *)
THEOREM EdgesInGraphTheorem == Spec => []EdgesInGraph
<1>1. Inv => EdgesInGraph
  BY DEF Inv
<1>2. QED BY <1>1, PoseGraphInvariant, PTL

(* If all constraints are reached, the first optimisation solves the graph *)
(* of the constraints that were found, and so does every one that has      *)
(* external constraints only.                                              *)
THEOREM FirstGraphTheorem == Spec => []FirstGraphSolved
<1>1. Inv => FirstGraphSolved
  BY DEF Inv
<1>2. QED BY <1>1, PoseGraphInvariant, PTL
=============================================================================
