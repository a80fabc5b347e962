--------------------------- MODULE DashboardProofs ---------------------------
(***************************************************************************)
(* Proofs about module Dashboard: what a load by offset shows of a list    *)
(* that grows at its head while the load goes on.  The first part proves   *)
(* what the sums of a chart need (FoldLeft is a recursive function over    *)
(* the subsets of the positions), the second the inductive invariant.      *)
(***************************************************************************)
EXTENDS Dashboard, FiniteSetTheorems, WellFoundedInduction, TLAPS

-----------------------------------------------------------------------------
(* Sums of sequences of counts *)

\* Induction, as the provers take it: a set of numbers has a least one.
LEMMA LeastOf == ASSUME NEW T \in SUBSET Nat, T # {}
                 PROVE  \E n \in T : \A m \in T : n <= m
<1> DEFINE R == OpToRel(<, Nat)
<1>1. R = {ss \in Nat \X Nat : ss[1] < ss[2]}
  BY DEF OpToRel
<1>2. IsWellFoundedOn(R, Nat)
  BY NatLessThanWellFounded
<1> HIDE DEF R
<1>3. PICK n \in T : \A m \in T : ~ (<<m, n>> \in R)
  BY <1>2, WFMin
<1>4. ASSUME NEW m \in T
      PROVE  n <= m
  <2>1. <<m, n>> \notin {ss \in Nat \X Nat : ss[1] < ss[2]}
    BY <1>1, <1>3
  <2> QED
    BY <2>1
<1> QED
  BY <1>4

\* What folding over the subsets of D is, when pick says which element goes first.
Folding(it, D, pick, val) ==
  it = [s \in SUBSET D |-> IF s = {} THEN 0 ELSE it[s \ {pick[s]}] + val[pick[s]]]

Upto(it, D, pick, val, n) ==
  \A s \in SUBSET D : Cardinality(s) <= n =>
    it[s] = IF s = {} THEN 0 ELSE it[s \ {pick[s]}] + val[pick[s]]

\* The recursion has a solution for the subsets of any size, hence for all of them.
LEMMA FoldingUpto == ASSUME NEW D, IsFiniteSet(D), NEW val, NEW pick, NEW n \in Nat,
                            \A s \in SUBSET D : s # {} => pick[s] \in s
                     PROVE  \E it : it = [s \in SUBSET D |-> it[s]] /\ Upto(it, D, pick, val, n)
<1> DEFINE P(k) == \E it : it = [s \in SUBSET D |-> it[s]] /\ Upto(it, D, pick, val, k)
           T == {k \in Nat : ~P(k)}
<1>0. \A s \in SUBSET D : IsFiniteSet(s) /\ Cardinality(s) \in Nat /\ (Cardinality(s) = 0 <=> s = {})
  BY FS_Subset, FS_CardinalityType, FS_EmptySet
<1>1. SUFFICES ASSUME T # {}
               PROVE  FALSE
  OBVIOUS
<1> HIDE DEF P
<1>2. PICK k \in T : k \in Nat /\ \A m \in T : k <= m
  BY <1>1, LeastOf
<1> HIDE DEF T
<1>3. CASE k = 0
  <2> DEFINE g == [s \in SUBSET D |-> 0]
  <2>1. g = [s \in SUBSET D |-> g[s]] /\ Upto(g, D, pick, val, 0)
    BY <1>0 DEF Upto
  <2> QED
    BY <1>2, <1>3, <2>1 DEF P, T
<1>4. CASE k # 0
  <2>1. k - 1 \in Nat /\ k - 1 \notin T
    BY <1>2, <1>4
  <2>2. P(k - 1)
    BY <2>1 DEF T
  <2>3. PICK it : it = [s \in SUBSET D |-> it[s]] /\ Upto(it, D, pick, val, k - 1)
    BY <2>2 DEF P
  <2> DEFINE g == [s \in SUBSET D |-> IF Cardinality(s) < k THEN it[s]
                                     ELSE it[s \ {pick[s]}] + val[pick[s]]]
  <2>4. ASSUME NEW s \in SUBSET D, Cardinality(s) <= k
        PROVE  g[s] = IF s = {} THEN 0 ELSE g[s \ {pick[s]}] + val[pick[s]]
    <3>1. CASE s = {}
      <4>1. Cardinality(s) = 0
        BY <1>0, <3>1
      <4>2. Cardinality(s) <= k - 1
        BY <1>2, <1>4, <4>1
      <4>3. it[s] = 0
        BY <2>3, <3>1, <4>2 DEF Upto
      <4> QED
        BY <1>2, <1>4, <3>1, <4>1, <4>3
    <3>2. CASE s # {}
      <4>1. /\ pick[s] \in s /\ s \ {pick[s]} \in SUBSET D
            /\ Cardinality(s \ {pick[s]}) = Cardinality(s) - 1
        BY <1>0, <3>2, FS_RemoveElement
      <4>2. g[s \ {pick[s]}] = it[s \ {pick[s]}]
        BY <1>0, <1>2, <2>4, <4>1
      <4>3. CASE Cardinality(s) < k
        <5>1. Cardinality(s) <= k - 1
          BY <1>0, <1>2, <4>3
        <5>2. it[s] = it[s \ {pick[s]}] + val[pick[s]]
          BY <2>3, <3>2, <5>1 DEF Upto
        <5> QED
          BY <3>2, <4>2, <4>3, <5>2
      <4>4. CASE ~(Cardinality(s) < k)
        BY <3>2, <4>2, <4>4
      <4> QED
        BY <4>3, <4>4
    <3> QED
      BY <3>1, <3>2
  <2>5. g = [s \in SUBSET D |-> g[s]]
    OBVIOUS
  <2>6. P(k)
    BY <2>4, <2>5 DEF P, Upto
  <2> QED
    BY <1>2, <2>6 DEF T
<1> QED
  BY <1>3, <1>4

LEMMA FoldingExists == ASSUME NEW D, IsFiniteSet(D), NEW val, NEW pick,
                              \A s \in SUBSET D : s # {} => pick[s] \in s
                       PROVE  \E it : Folding(it, D, pick, val)
<1>1. Cardinality(D) \in Nat /\ \A s \in SUBSET D : Cardinality(s) <= Cardinality(D)
  BY FS_Subset, FS_CardinalityType
<1>2. PICK it : it = [s \in SUBSET D |-> it[s]] /\ Upto(it, D, pick, val, Cardinality(D))
  BY <1>1, FoldingUpto
<1> DEFINE g == [s \in SUBSET D |-> IF s = {} THEN 0 ELSE it[s \ {pick[s]}] + val[pick[s]]]
<1>3. it = g
  BY <1>1, <1>2 DEF Upto
<1> QED
  BY <1>3 DEF Folding

\* The running sums of a sequence f in hour h.
Running(p, f, n, h) == /\ p \in [0 .. n -> Nat] /\ p[0] = 0
                       /\ \A k \in 1 .. n : p[k] = p[k - 1] + f[k][h]
                       /\ SumOf(f, h) = p[n]

LEMMA LastIsPicked == ASSUME NEW k \in Nat \ {0}
                      PROVE  Max(1 .. k) = k /\ (1 .. k) \ {k} = 1 .. (k - 1)
BY DEF Max

LEMMA RunningSums == ASSUME NEW n \in Nat, NEW f \in [1 .. n -> Counts], NEW h \in Hour
                     PROVE  \E p : Running(p, f, n, h)
<1> DEFINE D == 1 .. n
           pick == [s \in SUBSET D |-> Max(s)]
           val == [i \in D |-> f[i][h]]
<1>1. IsFiniteSet(D) /\ DOMAIN f = D
  BY FS_Interval
<1>2. ASSUME NEW s \in SUBSET D, s # {}
      PROVE  pick[s] \in s
  <2> DEFINE T == {n - i : i \in s}
  <2>1. T \in SUBSET Nat /\ T # {}
    <3>1. \A i \in s : n - i \in Nat
      OBVIOUS
    <3> QED
      BY <1>2, <3>1
  <2>2. PICK m \in T : \A j \in T : m <= j
    BY <2>1, LeastOf
  <2>3. PICK x \in s : m = n - x
    BY <2>2
  <2>4. ASSUME NEW y \in s
        PROVE  x >= y
    <3>1. n - y \in T
      OBVIOUS
    <3>2. m <= n - y /\ x \in 1 .. n /\ y \in 1 .. n
      BY <2>2, <3>1
    <3> QED
      BY <2>3, <3>2
  <2>5. Max(s) \in s
    BY <2>4 DEF Max
  <2> QED
    BY <2>5
<1>3. PICK it : Folding(it, D, pick, val) /\ SumOf(f, h) = it[D]
  <2> DEFINE Step(it) == [s \in SUBSET D |-> IF s = {} THEN 0 ELSE it[s \ {Max(s)}] + f[Max(s)][h]]
  <2>1. SumOf(f, h) = (CHOOSE it : it = Step(it))[D]
    BY <1>1 DEF SumOf, FoldLeft, MapThenFoldSet
  <2>2. ASSUME NEW it
        PROVE  Folding(it, D, pick, val) <=> it = Step(it)
    <3>1. \A s \in SUBSET D : s # {} => pick[s] = Max(s) /\ val[pick[s]] = f[Max(s)][h]
      BY <1>2
    <3> QED
      BY <3>1 DEF Folding
  <2>3. \E it : it = Step(it)
    BY <1>1, <1>2, <2>2, FoldingExists
  <2> HIDE DEF Step
  <2> QED
    BY <2>1, <2>2, <2>3
<1> DEFINE p == [k \in 0 .. n |-> it[1 .. k]]
<1>4. p[0] = 0
  BY <1>3 DEF Folding
<1>5. ASSUME NEW k \in 1 .. n
      PROVE  p[k] = p[k - 1] + f[k][h]
  <2>1. 1 .. k \in SUBSET D /\ 1 .. k # {} /\ pick[1 .. k] = k /\ (1 .. k) \ {k} = 1 .. (k - 1)
    <3>1. k \in Nat \ {0}
      OBVIOUS
    <3>2. Max(1 .. k) = k /\ (1 .. k) \ {k} = 1 .. (k - 1)
      BY <3>1, LastIsPicked
    <3>3. 1 .. k \in SUBSET D /\ k \in 1 .. k
      OBVIOUS
    <3> QED
      BY <3>2, <3>3
  <2>2. it[1 .. k] = it[(1 .. k) \ {k}] + val[k]
    BY <1>3, <2>1 DEF Folding
  <2>3. p[k] = it[1 .. k] /\ k - 1 \in 0 .. n /\ p[k - 1] = it[1 .. (k - 1)] /\ val[k] = f[k][h]
    OBVIOUS
  <2> QED
    BY <2>1, <2>2, <2>3
<1> HIDE DEF p
<1>6. ASSUME NEW k \in 0 .. n, p[k] \notin Nat
      PROVE  FALSE
  <2> DEFINE T == {j \in 0 .. n : p[j] \notin Nat}
  <2>0. T \in SUBSET Nat /\ k \in T
    BY <1>6
  <2>1. PICK j \in T : \A m \in T : j <= m
    BY <2>0, LeastOf
  <2>2. j # 0 /\ j - 1 \in 0 .. n /\ j - 1 \notin T
    BY <1>4, <2>1
  <2>3. f[j][h] \in Nat
    BY <2>1, <2>2 DEF Counts
  <2> QED
    BY <1>5, <2>1, <2>2, <2>3
<1>7. p \in [0 .. n -> Nat] /\ p[n] = it[D]
  BY <1>6 DEF p
<1> QED
  BY <1>3, <1>4, <1>5, <1>7 DEF Running

LEMMA SumType == ASSUME NEW n \in Nat, NEW f \in [1 .. n -> Counts], NEW h \in Hour
                 PROVE  SumOf(f, h) \in Nat /\ (n = 0 => SumOf(f, h) = 0)
BY RunningSums DEF Running

\* Term by term as large, as large in sum.
LEMMA SumGrows == ASSUME NEW n \in Nat, NEW f \in [1 .. n -> Counts], NEW g \in [1 .. n -> Counts],
                         NEW h \in Hour, \A i \in 1 .. n : f[i][h] <= g[i][h]
                  PROVE  SumOf(f, h) <= SumOf(g, h)
<1>1. PICK p : Running(p, f, n, h)
  BY RunningSums
<1>2. PICK q : Running(q, g, n, h)
  BY RunningSums
<1> DEFINE T == {k \in 0 .. n : ~(p[k] <= q[k])}
<1>3. SUFFICES ASSUME T # {}
               PROVE  FALSE
  <2>1. SUFFICES ASSUME T = {}
                 PROVE  SumOf(f, h) <= SumOf(g, h)
    OBVIOUS
  <2>2. n \in 0 .. n /\ n \notin T
    BY <2>1
  <2>3. p[n] <= q[n]
    BY <2>2
  <2> QED
    BY <1>1, <1>2, <2>3 DEF Running
<1>4. PICK k \in T : \A m \in T : k <= m
  <2>1. T \in SUBSET Nat
    OBVIOUS
  <2> QED
    BY <1>3, <2>1, LeastOf
<1>5. k \in 1 .. n /\ k - 1 \in 0 .. n /\ k - 1 \notin T
  BY <1>1, <1>2, <1>4 DEF Running
<1>6. p[k - 1] <= q[k - 1] /\ f[k][h] \in Nat /\ g[k][h] \in Nat /\ f[k][h] <= g[k][h]
  BY <1>5 DEF Counts
<1>7. p[k] = p[k - 1] + f[k][h] /\ q[k] = q[k - 1] + g[k][h] /\ p[k - 1] \in Nat /\ q[k - 1] \in Nat
  BY <1>1, <1>2, <1>5 DEF Running
<1> QED
  BY <1>4, <1>6, <1>7

\* The sum of one sequence behind another.
LEMMA SumJoins == ASSUME NEW n \in Nat, NEW m \in Nat, NEW h \in Hour,
                         NEW f \in [1 .. n -> Counts], NEW g \in [1 .. m -> Counts],
                         NEW e \in [1 .. (n + m) -> Counts],
                         \A i \in 1 .. n : e[i] = f[i], \A i \in 1 .. m : e[n + i] = g[i]
                  PROVE  SumOf(e, h) = SumOf(f, h) + SumOf(g, h)
<1>1. PICK p : Running(p, f, n, h)
  BY RunningSums
<1>2. PICK q : Running(q, g, m, h)
  BY RunningSums
<1>3. PICK r : Running(r, e, n + m, h)
  BY RunningSums
<1>4. \A k \in 0 .. n : r[k] = p[k]
  <2> DEFINE T == {k \in 0 .. n : r[k] # p[k]}
  <2>1. SUFFICES ASSUME T # {}
                 PROVE  FALSE
    OBVIOUS
  <2>2. PICK k \in T : \A j \in T : k <= j
    <3>1. T \in SUBSET Nat
      OBVIOUS
    <3> QED
      BY <2>1, <3>1, LeastOf
  <2>3. k \in 1 .. n /\ k - 1 \in 0 .. n /\ k - 1 \notin T
    BY <1>1, <1>3, <2>2 DEF Running
  <2>4. r[k] = r[k - 1] + e[k][h] /\ p[k] = p[k - 1] + f[k][h]
    BY <1>1, <1>3, <2>3 DEF Running
  <2> QED
    BY <2>2, <2>3, <2>4
<1>5. \A k \in 0 .. m : r[n + k] = p[n] + q[k]
  <2> DEFINE T == {k \in 0 .. m : r[n + k] # p[n] + q[k]}
  <2>1. SUFFICES ASSUME T # {}
                 PROVE  FALSE
    OBVIOUS
  <2>2. PICK k \in T : \A j \in T : k <= j
    <3>1. T \in SUBSET Nat
      OBVIOUS
    <3> QED
      BY <2>1, <3>1, LeastOf
  <2>3. k # 0
    BY <1>1, <1>2, <1>4, <2>2 DEF Running
  <2>4. k \in 1 .. m /\ k - 1 \in 0 .. m /\ k - 1 \notin T
    BY <2>2, <2>3
  <2>5. r[n + (k - 1)] = p[n] + q[k - 1]
    BY <2>4
  <2>6. r[n + k] = r[(n + k) - 1] + e[n + k][h] /\ q[k] = q[k - 1] + g[k][h] /\ e[n + k] = g[k]
    <3>1. n + k \in 1 .. (n + m)
      BY <2>4
    <3>2. r[n + k] = r[(n + k) - 1] + e[n + k][h]
      BY <1>3, <3>1 DEF Running
    <3>3. q[k] = q[k - 1] + g[k][h]
      BY <1>2, <2>4 DEF Running
    <3> QED
      BY <2>4, <3>2, <3>3
  <2>7. p[n] \in Nat /\ q[k - 1] \in Nat /\ g[k][h] \in Nat /\ (n + k) - 1 = n + (k - 1)
    BY <1>1, <1>2, <2>4 DEF Running, Counts
  <2> QED
    BY <2>2, <2>5, <2>6, <2>7
<1> QED
  BY <1>1, <1>2, <1>3, <1>5 DEF Running

\* A sequence s that is r with one more term behind the first c.
LEMMA SumInserts == ASSUME NEW n \in Nat, NEW c \in 0 .. n, NEW h \in Hour,
                           NEW r \in [1 .. n -> Counts], NEW s \in [1 .. (n + 1) -> Counts],
                           \A i \in 1 .. n : r[i] = IF i <= c THEN s[i] ELSE s[i + 1]
                    PROVE  SumOf(r, h) <= SumOf(s, h)
<1>1. PICK p : Running(p, r, n, h)
  BY RunningSums
<1>2. PICK q : Running(q, s, n + 1, h)
  BY RunningSums
<1> DEFINE Good(k) == (k <= c => p[k] = q[k]) /\ p[k] <= q[k + 1]
           T == {k \in 0 .. n : ~Good(k)}
<1>3. \A k \in 1 .. (n + 1) : s[k][h] \in Nat
  BY DEF Counts
<1>4. ASSUME NEW k \in 0 .. n
      PROVE  /\ p[k] \in Nat /\ q[k] \in Nat /\ q[k + 1] \in Nat /\ q[k] <= q[k + 1]
             /\ q[k + 1] = q[k] + s[k + 1][h]
  <2>1. k + 1 \in 1 .. (n + 1) /\ (k + 1) - 1 = k
    OBVIOUS
  <2>2. p[k] \in Nat /\ q[k] \in Nat /\ q[k + 1] \in Nat
    BY <1>1, <1>2, <2>1 DEF Running
  <2>3. q[k + 1] = q[k] + s[k + 1][h]
    BY <1>2, <2>1 DEF Running
  <2> QED
    BY <1>3, <2>1, <2>2, <2>3
<1>5. SUFFICES ASSUME T # {}
               PROVE  FALSE
  <2>1. SUFFICES ASSUME T = {}
                 PROVE  SumOf(r, h) <= SumOf(s, h)
    OBVIOUS
  <2>2. n \in 0 .. n /\ n \notin T
    BY <2>1
  <2>3. p[n] <= q[n + 1]
    BY <2>2
  <2> QED
    BY <1>1, <1>2, <2>3 DEF Running
<1>6. PICK k \in T : \A m \in T : k <= m
  <2>1. T \in SUBSET Nat
    OBVIOUS
  <2> QED
    BY <1>5, <2>1, LeastOf
<1>7. k # 0
  <2>1. p[0] = 0 /\ q[0] = 0 /\ 0 \in 0 .. n
    BY <1>1, <1>2 DEF Running
  <2>2. Good(0)
    BY <1>4, <2>1
  <2> QED
    BY <1>6, <2>2
<1>8. k \in 1 .. n /\ k - 1 \in 0 .. n /\ k - 1 \notin T /\ (k - 1) + 1 = k
  BY <1>6, <1>7
<1>9. (k - 1 <= c => p[k - 1] = q[k - 1]) /\ p[k - 1] <= q[k]
  BY <1>8
<1>10. p[k] = p[k - 1] + r[k][h] /\ q[k] = q[k - 1] + s[k][h]
  <2>1. k \in 1 .. (n + 1)
    BY <1>8
  <2> QED
    BY <1>1, <1>2, <1>8, <2>1 DEF Running
<1>11. /\ p[k] \in Nat /\ p[k - 1] \in Nat /\ q[k] \in Nat /\ q[k - 1] \in Nat /\ q[k + 1] \in Nat
       /\ q[k] <= q[k + 1] /\ q[k + 1] = q[k] + s[k + 1][h]
  BY <1>4, <1>8
<1>12. CASE k <= c
  <2>1. r[k] = s[k] /\ p[k] = q[k]
    BY <1>8, <1>9, <1>10, <1>12
  <2> QED
    BY <1>6, <1>11, <2>1
<1>13. CASE ~(k <= c)
  <2>1. r[k] = s[k + 1] /\ s[k + 1][h] \in Nat
    BY <1>3, <1>8, <1>13
  <2>2. p[k] <= q[k + 1]
    BY <1>9, <1>10, <1>11, <2>1
  <2> QED
    BY <1>6, <1>13, <2>2
<1> QED
  BY <1>12, <1>13

-----------------------------------------------------------------------------
(* The inductive invariant: what a load knows after any number of pages *)

Window(k) == {list[i] : i \in 1 .. k}
SentOf(rows) == [i \in DOMAIN rows |-> rows[i].sent]
RestFrom(k) == [i \in 1 .. (Len(list) - k) |-> sent[list[k + i]]]

\* The list holds each of its dispatches once, and they are numbered by their birth.
ListInv == /\ list \in Seq(Dispatch) /\ Len(list) <= MaxList
           /\ \A i \in 1 .. Len(list) : list[i] \in 1 .. Len(list)
           /\ \A i, k \in 1 .. Len(list) : list[i] = list[k] => i = k
           /\ sent \in [Dispatch -> [Hour -> 0 .. MaxSent]]
           /\ faults \in 0 .. MaxFaults

ScanInv == /\ scan \in Scan
           /\ scan.offset = Len(scan.got) /\ scan.offset <= Len(list)
           /\ scan.offset < Cap /\ scan.calls < MaxCalls
           /\ ~scan.on => scan.offset = 0 /\ scan.born = 0 /\ scan.first = <<>>

\* What a load that has read got, k rows deep, knows of the list.
Missed(got, k) == Cardinality(Window(k) \ Ids(got)) <= scan.born
Shifted(got, k) == \A q \in 1 .. Len(scan.first) :
                     \E i \in q .. (q + scan.born) :
                        /\ i <= Len(list) /\ list[i] = scan.first[q]
                        /\ i <= k => scan.first[q] \in Ids(got)
Weighed(got, k) == \A h \in Hour : scan.low[h] <= SumOf(SentOf(got), h) + SumOf(RestFrom(k), h)
Unmoved(got, k) == scan.born = 0 => \A i \in 1 .. k : /\ got[i].id = list[i]
                                                      /\ \A h \in Hour : got[i].sent[h] <= sent[list[i]][h]

Knows(got, k) == Missed(got, k) /\ Shifted(got, k) /\ Weighed(got, k) /\ Unmoved(got, k)

ResultInv == result \in Result /\ CountsBracketed /\ CopiesBounded /\ WindowCovered

IInv == ListInv /\ ScanInv /\ Knows(scan.got, scan.offset) /\ ResultInv

LEMMA MaxCallsType == MaxCalls \in Nat \ {0}
BY DashboardAssumption DEF MaxCalls

LEMMA SentCounts == ASSUME ListInv
                    PROVE  sent \in [Dispatch -> Counts]
BY DashboardAssumption DEF ListInv, Counts

LEMMA NoScanTyped == /\ NoScan \in Scan /\ NoScan.offset = Len(NoScan.got)
                     /\ NoScan.got = <<>> /\ NoScan.first = <<>> /\ NoScan.born = 0 /\ NoScan.offset = 0
                     /\ NoScan.calls = 0 /\ NoScan.low = [h \in Hour |-> 0] /\ ~NoScan.on
BY DEF NoScan, Scan, Counts

LEMMA NoResultTyped == NoResult \in Result
<1> DEFINE e == <<>>
<1>1. /\ NoResult = [capped |-> FALSE, buckets |-> [h \in Hour |-> 0], got |-> e,
                    high |-> [h \in Hour |-> 0], scan |-> NoScan]
      /\ e \in Seq(Row) /\ [h \in Hour |-> 0] \in Counts /\ NoScan \in Scan
  BY NoScanTyped DEF NoResult, Counts
<1> HIDE DEF e
<1> QED
  BY <1>1 DEF Result

LEMMA InitInv == ASSUME Init PROVE IInv
<1>1. ListInv
  BY DashboardAssumption DEF Init, ListInv
<1>2. ScanInv
  BY NoScanTyped, MaxCallsType, DashboardAssumption DEF Init, ScanInv
<1> DEFINE e == <<>>
<1>3. /\ scan = NoScan /\ list = e /\ Len(e) = 0 /\ DOMAIN e = 1 .. 0
      /\ scan.got = e /\ scan.offset = 0 /\ scan.first = e /\ scan.born = 0
      /\ \A h \in Hour : scan.low[h] = 0
  BY NoScanTyped DEF Init
<1> HIDE DEF e
<1>4. \A h \in Hour : SumOf(SentOf(e), h) = 0 /\ SumOf(RestFrom(0), h) = 0
  <2>1. SentOf(e) \in [1 .. 0 -> Counts] /\ RestFrom(0) \in [1 .. 0 -> Counts]
    BY <1>3 DEF SentOf, RestFrom
  <2> QED
    BY <2>1, SumType
<1>5. Window(0) \ Ids(e) = {}
  BY <1>3 DEF Window
<1>6. Knows(e, 0)
  <2>1. Missed(e, 0)
    <3>1. Cardinality(Window(0) \ Ids(e)) = 0
      BY <1>5, FS_EmptySet
    <3> QED
      BY <1>3, <3>1 DEF Missed
  <2>2. Shifted(e, 0) /\ Unmoved(e, 0)
    BY <1>3 DEF Shifted, Unmoved
  <2>3. Weighed(e, 0)
    BY <1>3, <1>4 DEF Weighed
  <2> QED
    BY <2>1, <2>2, <2>3 DEF Knows
<1>7. ResultInv
  <2>1. /\ result = NoResult /\ result.scan = NoScan /\ result.got = e
        /\ \A h \in Hour : result.buckets[h] = 0 /\ result.high[h] = 0
    BY DEF Init, NoResult, e
  <2>2. Ids(e) = {}
    BY <1>3 DEF Ids
  <2>3. CountsBracketed
    BY <2>1, NoScanTyped DEF CountsBracketed
  <2>4. CopiesBounded
    BY <1>3, <2>1, <2>2, NoScanTyped, FS_EmptySet DEF CopiesBounded
  <2>5. WindowCovered
    BY <1>3, <2>1, NoScanTyped DEF WindowCovered, e
  <2> QED
    BY <2>1, <2>3, <2>4, <2>5, NoResultTyped DEF ResultInv
<1> QED
  BY <1>1, <1>2, <1>3, <1>6, <1>7 DEF IInv

-----------------------------------------------------------------------------
(* A load that begins *)

LEMMA RestTyped == ASSUME ListInv, NEW k \in 0 .. Len(list)
                   PROVE  RestFrom(k) \in [1 .. (Len(list) - k) -> Counts]
BY SentCounts DEF ListInv, RestFrom

LEMMA SumOfRows == ASSUME NEW g \in Seq(Row), NEW h \in Hour
                   PROVE  SentOf(g) \in [1 .. Len(g) -> Counts] /\ SumOf(SentOf(g), h) \in Nat
<1>1. SentOf(g) \in [1 .. Len(g) -> Counts] /\ Len(g) \in Nat
  <2>1. \A i \in 1 .. Len(g) : g[i].sent \in Counts
    <3>1. \A i \in 1 .. Len(g) : g[i] \in Row
      OBVIOUS
    <3> QED
      BY <3>1 DEF Row
  <2>2. DOMAIN g = 1 .. Len(g) /\ Len(g) \in Nat
    OBVIOUS
  <2> QED
    BY <2>1, <2>2 DEF SentOf
<1> QED
  BY <1>1, SumType

LEMMA TrueCountsAreRest == ASSUME ListInv
                           PROVE  /\ TrueCounts \in Counts
                                  /\ \A h \in Hour : TrueCounts[h] = SumOf(RestFrom(0), h)
<1>1. [i \in DOMAIN list |-> sent[list[i]]] = RestFrom(0)
  <2>1. DOMAIN list = 1 .. Len(list) /\ Len(list) \in Nat
    BY DEF ListInv
  <2> QED
    BY <2>1 DEF RestFrom
<1>2. RestFrom(0) \in [1 .. Len(list) -> Counts] /\ Len(list) \in Nat
  BY RestTyped DEF ListInv
<1>3. \A h \in Hour : SumOf(RestFrom(0), h) \in Nat
  BY <1>2, SumType
<1> QED
  BY <1>1, <1>3 DEF TrueCounts, Counts

LEMMA BegunInv == ASSUME ListInv, NEW r \in BOOLEAN, scan' = Begun(r), UNCHANGED <<list, sent>>
                  PROVE  ScanInv' /\ Knows(scan.got, scan.offset)'
<1> DEFINE e == <<>>
<1>1. /\ scan' = [NoScan EXCEPT !.on = TRUE, !.retried = r, !.first = list, !.low = TrueCounts]
      /\ list \in Seq(Dispatch) /\ Len(list) \in Nat /\ TrueCounts \in Counts
  BY TrueCountsAreRest DEF Begun, ListInv
<1>2. /\ scan' \in Scan /\ scan'.got = e /\ scan'.offset = 0 /\ scan'.calls = 0 /\ scan'.born = 0
      /\ scan'.first = list /\ scan'.low = TrueCounts /\ scan'.on
      /\ Len(e) = 0 /\ DOMAIN e = 1 .. 0
  <2>1. scan' = [on |-> TRUE, got |-> e, offset |-> 0, calls |-> 0, retried |-> r,
                 first |-> list, low |-> TrueCounts, born |-> 0]
    BY <1>1 DEF NoScan
  <2>2. e \in Seq(Row)
    OBVIOUS
  <2> HIDE DEF e
  <2>3. scan' \in Scan
    BY <1>1, NoScanTyped DEF Scan
  <2>4. Len(e) = 0 /\ DOMAIN e = 1 .. 0
    BY DEF e
  <2> QED
    BY <2>1, <2>3, <2>4
<1>3. ScanInv'
  <2>1. Cap \in Nat \ {0} /\ MaxCalls \in Nat \ {0}
    BY MaxCallsType, DashboardAssumption
  <2> QED
    BY <1>1, <1>2, <2>1 DEF ScanInv
<1> HIDE DEF e
<1>4. Missed(e, 0)'
  <2>1. Window(0)' \ Ids(e) = {}
    BY DEF Window
  <2>2. Cardinality(Window(0)' \ Ids(e)) = 0
    BY <2>1, FS_EmptySet
  <2> QED
    BY <1>2, <2>2 DEF Missed, Window, Ids
<1>5. Shifted(e, 0)'
  <2>1. ASSUME NEW q \in 1 .. Len(list)
        PROVE  \E i \in q .. (q + 0) : /\ i <= Len(list) /\ list[i] = list[q]
                                       /\ i <= 0 => list[q] \in Ids(e)
    BY <1>1
  <2> QED
    BY <1>2, <2>1 DEF Shifted, Ids
<1>6. Weighed(e, 0)'
  <2>1. SentOf(e) \in [1 .. 0 -> Counts] /\ RestFrom(0)' = RestFrom(0)
    BY <1>2 DEF SentOf, RestFrom
  <2>2. \A h \in Hour : SumOf(SentOf(e), h) = 0
    BY <2>1, SumType
  <2>3. \A h \in Hour : TrueCounts[h] <= SumOf(SentOf(e), h) + SumOf(RestFrom(0)', h)
    BY <2>1, <2>2, TrueCountsAreRest DEF Counts
  <2> QED
    BY <1>2, <2>3 DEF Weighed, SentOf
<1>7. Unmoved(e, 0)'
  BY <1>2 DEF Unmoved
<1> QED
  BY <1>2, <1>3, <1>4, <1>5, <1>6, <1>7 DEF Knows

LEMMA NoScanInv == ASSUME ListInv, scan' = NoScan, UNCHANGED <<list, sent>>
                   PROVE  ScanInv' /\ Knows(scan.got, scan.offset)'
<1> DEFINE e == <<>>
<1>1. ScanInv'
  BY NoScanTyped, MaxCallsType, DashboardAssumption DEF ListInv, ScanInv
<1>2. /\ scan'.got = e /\ scan'.offset = 0 /\ scan'.born = 0
      /\ scan'.first = e /\ scan'.low = [h \in Hour |-> 0]
      /\ Len(e) = 0 /\ DOMAIN e = 1 .. 0
  BY NoScanTyped
<1> HIDE DEF e
<1>3. Missed(e, 0)'
  <2>1. Window(0)' \ Ids(e) = {}
    BY DEF Window
  <2>2. Cardinality(Window(0)' \ Ids(e)) = 0
    BY <2>1, FS_EmptySet
  <2> QED
    BY <1>2, <2>2 DEF Missed, Window, Ids
<1>4. Shifted(e, 0)' /\ Unmoved(e, 0)'
  BY <1>2 DEF Shifted, Unmoved
<1>5. Weighed(e, 0)'
  <2>1. SentOf(e) \in [1 .. 0 -> Counts] /\ RestFrom(0)' = RestFrom(0)
    BY <1>2 DEF SentOf, RestFrom
  <2>2. \A h \in Hour : SumOf(SentOf(e), h) \in Nat
    BY <2>1, SumType
  <2>3. \A h \in Hour : SumOf(RestFrom(0)', h) \in Nat
    BY <2>1, TrueCountsAreRest DEF Counts
  <2>4. \A h \in Hour : scan'.low[h] <= SumOf(SentOf(e), h) + SumOf(RestFrom(0)', h)
    BY <1>2, <2>2, <2>3
  <2> QED
    BY <2>4 DEF Weighed, SentOf
<1> QED
  BY <1>1, <1>2, <1>3, <1>4, <1>5 DEF Knows

LEMMA NoResultInv == ASSUME result' = NoResult
                     PROVE  ResultInv'
<1> DEFINE e == <<>>
<1>1. /\ result'.scan = NoScan /\ result'.got = e
      /\ \A h \in Hour : result'.buckets[h] = 0 /\ result'.high[h] = 0
      /\ Len(e) = 0 /\ DOMAIN e = 1 .. 0
  BY DEF NoResult
<1>2. /\ NoScan.first = e /\ NoScan.born = 0 /\ \A h \in Hour : NoScan.low[h] = 0
  BY NoScanTyped
<1> HIDE DEF e
<1>3. Ids(e) = {}
  BY <1>1 DEF Ids
<1>4. CountsBracketed'
  BY <1>1, <1>2 DEF CountsBracketed
<1>5. CopiesBounded'
  <2>1. Cardinality(Ids(e)) = 0
    BY <1>3, FS_EmptySet
  <2> QED
    BY <1>1, <1>2, <2>1 DEF CopiesBounded, Ids
<1>6. WindowCovered'
  BY <1>1, <1>2 DEF WindowCovered
<1> QED
  BY <1>4, <1>5, <1>6, NoResultTyped DEF ResultInv

LEMMA ListKept == ASSUME ListInv, UNCHANGED <<list, sent>>, faults' \in 0 .. MaxFaults
                  PROVE  ListInv'
BY DEF ListInv

LEMMA LoadInv == ASSUME IInv, Load
                 PROVE  IInv'
<1>1. ListInv' /\ ScanInv' /\ Knows(scan.got, scan.offset)'
  BY BegunInv, ListKept DEF IInv, Load, ListInv
<1> QED
  BY <1>1, NoResultInv DEF IInv, Load

LEMMA PageFailsInv == ASSUME IInv, PageFails
                      PROVE  IInv'
<1>1. faults' \in 0 .. MaxFaults
  BY DashboardAssumption DEF PageFails, IInv, ListInv
<1>2. ListInv'
  BY <1>1, ListKept DEF IInv, PageFails
<1>3. ScanInv' /\ Knows(scan.got, scan.offset)'
  BY BegunInv, NoScanInv DEF IInv, PageFails
<1>4. ResultInv'
  BY DEF IInv, PageFails, ResultInv, CountsBracketed, CopiesBounded, WindowCovered, Ids
<1> QED
  BY <1>2, <1>3, <1>4 DEF IInv

-----------------------------------------------------------------------------
(* The service moves on *)

LEMMA Joined == ASSUME NEW S, NEW c \in Seq(S), NEW b \in Seq(S)
                PROVE  /\ c \o b \in Seq(S) /\ Len(c \o b) = Len(c) + Len(b)
                       /\ \A i \in 1 .. (Len(c) + Len(b)) :
                            (c \o b)[i] = IF i <= Len(c) THEN c[i] ELSE b[i - Len(c)]
OBVIOUS

\* Where a new dispatch goes, and what moves behind it.
LEMMA Inserted == ASSUME ListInv, NEW place \in {1, 2}, place <= Len(list) + 1, Len(list) < MaxList,
                         NEW l, l = InsertAt(list, place, Len(list) + 1)
                  PROVE  /\ l \in Seq(Dispatch) /\ Len(l) = Len(list) + 1
                         /\ \A i \in 1 .. Len(l) : l[i] = IF i < place THEN list[i]
                                                          ELSE IF i = place THEN Len(list) + 1
                                                          ELSE list[i - 1]
<1> DEFINE a == SubSeq(list, 1, place - 1)
           b == SubSeq(list, place, Len(list))
           n == Len(list)
           e == n + 1
<1>1. list \in Seq(Dispatch) /\ n \in Nat /\ place \in Nat /\ place >= 1 /\ e \in Dispatch
  BY DashboardAssumption DEF ListInv, Dispatch
<1>2. /\ a \in Seq(Dispatch) /\ Len(a) = place - 1 /\ \A i \in 1 .. (place - 1) : a[i] = list[i]
  BY <1>1
<1>3. /\ b \in Seq(Dispatch) /\ Len(b) = n - (place - 1)
      /\ \A i \in 1 .. (n - (place - 1)) : b[i] = list[place + i - 1]
  BY <1>1
<1> DEFINE c == a \o <<e>>
<1>4. l = c \o b
  BY DEF InsertAt
<1> HIDE DEF a, b, e
<1>5. c \in Seq(Dispatch) /\ Len(c) = place /\ \A i \in 1 .. place : c[i] = IF i < place THEN list[i] ELSE e
  BY <1>1, <1>2
<1> HIDE DEF c
<1>6. l \in Seq(Dispatch) /\ Len(l) = Len(c) + Len(b) /\ Len(l) = n + 1
  <2>1. c \in Seq(Dispatch) /\ b \in Seq(Dispatch)
    BY <1>3, <1>5
  <2>2. c \o b \in Seq(Dispatch) /\ Len(c \o b) = Len(c) + Len(b)
    BY <2>1, Joined
  <2>3. Len(c) + Len(b) = n + 1
    BY <1>1, <1>3, <1>5
  <2> QED
    BY <1>4, <2>2, <2>3
<1>7. ASSUME NEW i \in 1 .. Len(l)
      PROVE  l[i] = IF i <= place THEN c[i] ELSE b[i - place]
  BY <1>3, <1>4, <1>5, <1>6, Joined
<1>8. ASSUME NEW i \in 1 .. Len(l)
      PROVE  l[i] = IF i < place THEN list[i] ELSE IF i = place THEN n + 1 ELSE list[i - 1]
  <2>1. CASE i <= place
    BY <1>1, <1>5, <1>7, <2>1 DEF e
  <2>2. CASE ~(i <= place)
    <3>1. i - place \in 1 .. (n - (place - 1)) /\ place + (i - place) - 1 = i - 1
      BY <1>1, <1>6, <2>2
    <3> QED
      BY <1>1, <1>3, <1>7, <2>2, <3>1
  <2> QED
    BY <2>1, <2>2
<1> QED
  BY <1>6, <1>8

\* The first k of the list are k dispatches.
LEMMA WindowFinite == ASSUME ListInv, NEW k \in 0 .. Len(list)
                      PROVE  IsFiniteSet(Window(k)) /\ Cardinality(Window(k)) = k
<1> DEFINE f == [i \in 1 .. k |-> list[i]]
<1>1. Len(list) \in Nat /\ k \in Nat
  BY DEF ListInv
<1>2. f \in [1 .. k -> Window(k)] /\ \A w \in Window(k) : \E i \in 1 .. k : f[i] = w
  BY DEF Window
<1>3. ASSUME NEW i \in 1 .. k, NEW j \in 1 .. k, f[i] = f[j]
      PROVE  i = j
  <2>1. i \in 1 .. Len(list) /\ j \in 1 .. Len(list) /\ list[i] = list[j]
    BY <1>1, <1>3
  <2> QED
    BY <2>1 DEF ListInv
<1> HIDE DEF f
<1>4. f \in Bijection(1 .. k, Window(k))
  BY <1>2, <1>3 DEF Bijection, Injection, Surjection, IsInjective
<1>5. IsFiniteSet(1 .. k) /\ Cardinality(1 .. k) = k
  BY <1>1, FS_Interval
<1> QED
  BY <1>4, <1>5, FS_Bijection DEF ExistsBijection

\* The step on what a load that has got the rows g, k of them, knows.
InsertedAt(place) == /\ Len(list') = Len(list) + 1 /\ place \in 1 .. Len(list')
                     /\ \A i \in 1 .. Len(list') : list'[i] = IF i < place THEN list[i]
                                                             ELSE IF i = place THEN Len(list')
                                                             ELSE list[i - 1]
                     /\ UNCHANGED sent
                     /\ scan'.first = scan.first /\ scan'.low = scan.low
                     /\ scan'.born = IF scan.on THEN scan.born + 1 ELSE 0

LEMMA InsertMissed == ASSUME ListInv, ScanInv, NEW g, NEW k \in 0 .. Len(list), k = scan.offset, NEW place,
                             InsertedAt(place), Missed(g, k)
                      PROVE  Missed(g, k)'
<1> DEFINE W == Window(k) \ Ids(g)
           V == Window(k)' \ Ids(g)
           n == Len(list)
<1>0. n \in Nat /\ scan.born \in Nat /\ k \in Nat
  BY DEF ListInv, ScanInv, Scan
<1>1. IsFiniteSet(W) /\ Cardinality(W) \in Nat
  <2>1. IsFiniteSet(Window(k))
    BY WindowFinite
  <2> QED
    BY <2>1, FS_Subset, FS_CardinalityType
<1>2. V \subseteq W \cup {n + 1}
  <2>1. ASSUME NEW i \in 1 .. k
        PROVE  list'[i] \in {list[j] : j \in 1 .. k} \cup {n + 1}
    BY <1>0 DEF InsertedAt
  <2>2. Window(k)' = {list'[i] : i \in 1 .. k}
    BY DEF Window
  <2> QED
    BY <2>1, <2>2 DEF Window
<1> HIDE DEF W, V, n
<1>3. Cardinality(V) <= Cardinality(W) + 1 /\ Cardinality(V) \in Nat
  <2> DEFINE U == W \cup {n + 1}
  <2>1. IsFiniteSet(U) /\ Cardinality(U) = IF n + 1 \in W THEN Cardinality(W) ELSE Cardinality(W) + 1
    BY <1>1, FS_AddElement
  <2>2. Cardinality(U) \in Nat
    BY <2>1, FS_CardinalityType
  <2> HIDE DEF U
  <2>3. V \subseteq U
    BY <1>2 DEF U
  <2>4. IsFiniteSet(V) /\ Cardinality(V) <= Cardinality(U)
    BY <2>1, <2>3, FS_Subset
  <2>5. Cardinality(V) \in Nat
    BY <2>4, FS_CardinalityType
  <2> QED
    BY <1>1, <2>1, <2>2, <2>4, <2>5
<1>4. Cardinality(W) <= scan.born /\ (Missed(g, k)' <=> Cardinality(V) <= scan'.born)
  BY DEF Missed, W, V, Ids
<1>5. CASE scan.on
  BY <1>0, <1>1, <1>3, <1>4, <1>5 DEF InsertedAt
<1>6. CASE ~scan.on
  <2>1. k = 0
    BY <1>6 DEF ScanInv
  <2>2. V = {}
    BY <2>1 DEF V, Window
  <2>3. Cardinality(V) = 0
    BY <2>2, FS_EmptySet
  <2> QED
    BY <1>4, <1>6, <2>3 DEF InsertedAt
<1> QED
  BY <1>5, <1>6

LEMMA InsertShifted == ASSUME ListInv, ScanInv, NEW g, NEW k \in 0 .. Len(list), NEW place,
                              InsertedAt(place), Shifted(g, k)
                       PROVE  Shifted(g, k)'
<1>1. CASE scan.on
  <2>1. ASSUME NEW q \in 1 .. Len(scan.first)
        PROVE  \E j \in q .. (q + (scan.born + 1)) : /\ j <= Len(list') /\ list'[j] = scan.first[q]
                                                     /\ j <= k => scan.first[q] \in Ids(g)
    <3>0. q \in Nat /\ q >= 1 /\ scan.born \in Nat /\ Len(list) \in Nat /\ k \in Nat
      BY DEF ListInv, ScanInv, Scan
    <3>1. PICK i \in q .. (q + scan.born) : /\ i <= Len(list) /\ list[i] = scan.first[q]
                                            /\ i <= k => scan.first[q] \in Ids(g)
      BY DEF Shifted
    <3>2. CASE i < place
      <4>1. list'[i] = list[i] /\ i <= Len(list')
        BY <3>0, <3>1, <3>2 DEF InsertedAt
      <4> QED
        BY <3>0, <3>1, <4>1
    <3>3. CASE ~(i < place)
      <4>1. i + 1 \in 1 .. Len(list') /\ i + 1 # place /\ ~(i + 1 < place) /\ (i + 1) - 1 = i
        BY <3>0, <3>1, <3>3 DEF InsertedAt
      <4>2. list'[i + 1] = list[i]
        BY <4>1 DEF InsertedAt
      <4>3. i + 1 \in q .. (q + (scan.born + 1)) /\ i + 1 <= Len(list')
        BY <3>0, <3>1, <4>1
      <4>4. i + 1 <= k => scan.first[q] \in Ids(g)
        BY <3>0, <3>1
      <4> QED
        BY <3>1, <4>2, <4>3, <4>4
    <3> QED
      BY <3>2, <3>3
  <2> QED
    BY <1>1, <2>1 DEF InsertedAt, Shifted, Ids
<1>2. CASE ~scan.on
  BY <1>2 DEF ScanInv, InsertedAt, Shifted
<1> QED
  BY <1>1, <1>2

LEMMA InsertWeighed == ASSUME ListInv, ListInv', ScanInv, NEW g \in Seq(Row), NEW k \in 0 .. Len(list), NEW place,
                              InsertedAt(place), Weighed(g, k)
                       PROVE  Weighed(g, k)'
<1> DEFINE n == Len(list)
           r == RestFrom(k)
           s == RestFrom(k)'
<1>0. n \in Nat /\ k \in Nat /\ Len(list') = n + 1 /\ place \in 1 .. (n + 1)
  BY DEF ListInv, InsertedAt
<1>1. r \in [1 .. (n - k) -> Counts] /\ s \in [1 .. ((n - k) + 1) -> Counts]
  <2>1. k \in 0 .. Len(list') /\ Len(list') - k = (n - k) + 1
    BY <1>0
  <2>2. \A i \in 1 .. ((n - k) + 1) : k + i \in 1 .. Len(list')
    BY <1>0
  <2>3. sent' \in [Dispatch -> Counts] /\ \A i \in 1 .. Len(list') : list'[i] \in Dispatch
    BY SentCounts DEF ListInv, InsertedAt
  <2>4. s = [i \in 1 .. ((n - k) + 1) |-> sent'[list'[k + i]]]
    BY <2>1 DEF RestFrom
  <2> QED
    BY RestTyped, <2>2, <2>3, <2>4
<1>2. \A i \in 1 .. (n - k) : r[i] = sent[list[k + i]]
  BY DEF RestFrom
<1>3. \A i \in 1 .. ((n - k) + 1) : s[i] = sent[list'[k + i]]
  BY <1>0 DEF RestFrom, InsertedAt
<1> HIDE DEF r, s
<1>4. ASSUME NEW h \in Hour
      PROVE  SumOf(r, h) <= SumOf(s, h) /\ SumOf(r, h) \in Nat /\ SumOf(s, h) \in Nat
  <2> DEFINE c == IF place <= k THEN 0 ELSE place - k - 1
             m == n - k
  <2>1. m \in Nat /\ m + 1 \in Nat /\ c \in 0 .. m
    BY <1>0
  <2>2. ASSUME NEW i \in 1 .. m
        PROVE  r[i] = IF i <= c THEN s[i] ELSE s[i + 1]
    <3>1. k + i \in 1 .. n /\ i \in 1 .. (m + 1) /\ i + 1 \in 1 .. (m + 1) /\ k + (i + 1) \in 1 .. (n + 1)
          /\ (k + (i + 1)) - 1 = k + i
      BY <1>0
    <3>2. r[i] = sent[list[k + i]] /\ s[i] = sent[list'[k + i]] /\ s[i + 1] = sent[list'[k + (i + 1)]]
      BY <1>2, <1>3, <3>1
    <3>3. CASE i <= c
      <4>1. k + i < place
        BY <1>0, <3>1, <3>3
      <4>2. list'[k + i] = list[k + i]
        BY <1>0, <3>1, <4>1 DEF InsertedAt
      <4> QED
        BY <3>2, <3>3, <4>2
    <3>4. CASE ~(i <= c)
      <4>1. ~(k + (i + 1) < place) /\ k + (i + 1) # place
        BY <1>0, <3>1, <3>4
      <4>2. list'[k + (i + 1)] = list[k + i]
        BY <1>0, <3>1, <4>1 DEF InsertedAt
      <4> QED
        BY <3>2, <3>4, <4>2
    <3> QED
      BY <3>3, <3>4
  <2>3. r \in [1 .. m -> Counts] /\ s \in [1 .. (m + 1) -> Counts]
    BY <1>1
  <2> HIDE DEF c, m
  <2>4. SumOf(r, h) <= SumOf(s, h)
    BY <2>1, <2>2, <2>3, SumInserts
  <2> QED
    BY <2>1, <2>3, <2>4, SumType
<1>5. ASSUME NEW h \in Hour
      PROVE  SumOf(SentOf(g), h) \in Nat /\ scan.low[h] \in Nat
  BY SumOfRows DEF ScanInv, Scan, Counts
<1>6. \A h \in Hour : scan.low[h] <= SumOf(SentOf(g), h) + SumOf(s, h)
  <2>1. \A h \in Hour : scan.low[h] <= SumOf(SentOf(g), h) + SumOf(r, h)
    BY DEF Weighed, r
  <2> QED
    BY <1>4, <1>5, <2>1
<1> QED
  BY <1>6 DEF Weighed, InsertedAt, s, SentOf

LEMMA InsertUnmoved == ASSUME ScanInv, NEW g, NEW k \in Nat, k = scan.offset, NEW place,
                              InsertedAt(place), Unmoved(g, k)
                       PROVE  Unmoved(g, k)'
<1>1. CASE scan.on
  <2>1. scan.born \in Nat /\ scan'.born = scan.born + 1
    BY <1>1 DEF ScanInv, Scan, InsertedAt
  <2> QED
    BY <2>1 DEF Unmoved
<1>2. CASE ~scan.on
  BY <1>2 DEF ScanInv, Unmoved
<1> QED
  BY <1>1, <1>2

LEMMA NewSendInv == ASSUME IInv, NEW place \in {1, 2}, NewSend(place)
                    PROVE  IInv'
<1> DEFINE n == Len(list)
<1>1. /\ list' \in Seq(Dispatch) /\ Len(list') = n + 1 /\ n + 1 <= MaxList /\ n \in Nat
      /\ \A i \in 1 .. (n + 1) : list'[i] = IF i < place THEN list[i]
                                            ELSE IF i = place THEN n + 1 ELSE list[i - 1]
      /\ UNCHANGED <<sent, result, faults>> /\ place \in 1 .. (n + 1)
  BY Inserted, DashboardAssumption DEF NewSend, IInv, ListInv
<1>2. ListInv'
  <2>1. \A i \in 1 .. n : list[i] \in 1 .. n
    BY DEF IInv, ListInv
  <2>2. \A i \in 1 .. (n + 1) : list'[i] \in 1 .. (n + 1)
    BY <1>1, <2>1
  <2>3. \A i, j \in 1 .. n : list[i] = list[j] => i = j
    BY DEF IInv, ListInv
  <2>4. \A i, j \in 1 .. (n + 1) : list'[i] = list'[j] => i = j
    <3>1. SUFFICES ASSUME NEW i \in 1 .. (n + 1), NEW j \in 1 .. (n + 1), list'[i] = list'[j]
                   PROVE  i = j
      OBVIOUS
    <3> DEFINE old(m) == IF m < place THEN m ELSE m - 1
    <3>2. \A m \in 1 .. (n + 1) : m # place => old(m) \in 1 .. n /\ list'[m] = list[old(m)] /\ list'[m] # n + 1
      BY <1>1, <2>1
    <3>3. list'[place] = n + 1
      BY <1>1
    <3>4. CASE i = place \/ j = place
      BY <3>1, <3>2, <3>3, <3>4
    <3>5. CASE i # place /\ j # place
      <4>1. old(i) = old(j)
        BY <2>3, <3>1, <3>2, <3>5
      <4> QED
        BY <1>1, <3>5, <4>1
    <3> QED
      BY <3>4, <3>5
  <2> QED
    BY <1>1, <2>2, <2>4 DEF IInv, ListInv
<1>3. PICK g, k : g = scan.got /\ k = scan.offset
  OBVIOUS
<1>4. /\ scan' \in Scan /\ scan'.got = g /\ scan'.offset = k /\ scan'.calls = scan.calls
      /\ scan'.on = scan.on /\ scan'.first = scan.first /\ scan'.low = scan.low
      /\ scan'.born = IF scan.on THEN scan.born + 1 ELSE 0
      /\ g \in Seq(Row) /\ k \in Nat /\ k <= n /\ k = Len(g)
  <2> DEFINE x == IF scan.on THEN scan.born + 1 ELSE 0
  <2>1. scan \in Scan /\ scan.offset = Len(scan.got) /\ scan.offset <= Len(list)
    BY DEF IInv, ScanInv
  <2>2. scan.born \in Nat /\ scan.got \in Seq(Row) /\ scan.offset \in Nat
    BY <2>1 DEF Scan
  <2>3. x \in Nat /\ scan' = [scan EXCEPT !.born = x]
    BY <2>2 DEF NewSend
  <2> HIDE DEF x
  <2>4. /\ scan' \in Scan /\ scan'.got = scan.got /\ scan'.offset = scan.offset
        /\ scan'.calls = scan.calls /\ scan'.on = scan.on /\ scan'.first = scan.first
        /\ scan'.low = scan.low /\ scan'.born = x
    BY <2>1, <2>3 DEF Scan
  <2> QED
    BY <1>3, <2>1, <2>2, <2>4 DEF x
<1>5. ScanInv'
  BY <1>1, <1>3, <1>4 DEF IInv, ScanInv
<1>6. InsertedAt(place)
  BY <1>1, <1>4 DEF InsertedAt
<1>7. k \in 0 .. Len(list) /\ Knows(g, k)
  BY <1>1, <1>3, <1>4 DEF IInv
<1>8. Knows(g, k)'
  BY <1>2, <1>3, <1>4, <1>6, <1>7, InsertMissed, InsertShifted, InsertWeighed, InsertUnmoved DEF IInv, Knows
<1>9. ResultInv'
  BY <1>1 DEF IInv, ResultInv, CountsBracketed, CopiesBounded, WindowCovered, Ids
<1> QED
  BY <1>2, <1>4, <1>5, <1>8, <1>9 DEF IInv

LEMMA SentInv == ASSUME IInv, NEW d \in Dispatch, NEW h \in Hour, Sent(d, h)
                 PROVE  IInv'
<1>1. /\ sent' \in [Dispatch -> [Hour -> 0 .. MaxSent]] /\ UNCHANGED <<list, scan, result, faults>>
      /\ \A e \in Dispatch, x \in Hour : sent[e][x] <= sent'[e][x]
  BY DashboardAssumption DEF Sent, IInv, ListInv
<1>2. ListInv' /\ ScanInv' /\ ResultInv'
  BY <1>1 DEF IInv, ListInv, ScanInv, ResultInv, CountsBracketed, CopiesBounded, WindowCovered, Ids
<1>3. PICK g, k : g = scan.got /\ k = scan.offset
  OBVIOUS
<1>4. /\ Knows(g, k) /\ g \in Seq(Row) /\ k \in 0 .. Len(list) /\ k = Len(g) /\ Len(list) \in Nat
      /\ scan.low \in Counts
  BY <1>3 DEF IInv, ListInv, ScanInv, Scan
<1>5. Missed(g, k)' /\ Shifted(g, k)'
  BY <1>1, <1>4 DEF Knows, Missed, Shifted, Window, Ids
<1>6. Weighed(g, k)'
  <2>1. SUFFICES ASSUME NEW x \in Hour
                 PROVE  scan.low[x] <= SumOf(SentOf(g), x) + SumOf(RestFrom(k)', x)
    BY <1>1 DEF Weighed, SentOf
  <2>2. RestFrom(k) \in [1 .. (Len(list) - k) -> Counts] /\ RestFrom(k)' \in [1 .. (Len(list) - k) -> Counts]
    <3>1. k \in 0 .. Len(list') /\ Len(list') = Len(list)
      BY <1>1, <1>4
    <3>2. \A i \in 1 .. (Len(list) - k) : list[k + i] \in Dispatch
      BY <1>4 DEF IInv, ListInv
    <3>3. sent' \in [Dispatch -> Counts]
      BY <1>1, DashboardAssumption DEF Counts
    <3>4. RestFrom(k)' = [i \in 1 .. (Len(list) - k) |-> sent'[list[k + i]]]
      BY <1>1 DEF RestFrom
    <3> QED
      BY <1>4, <3>2, <3>3, <3>4, RestTyped DEF IInv
  <2>3. \A i \in 1 .. (Len(list) - k) : RestFrom(k)[i][x] <= RestFrom(k)'[i][x]
    <3>1. ASSUME NEW i \in 1 .. (Len(list) - k)
          PROVE  RestFrom(k)[i][x] <= RestFrom(k)'[i][x]
      <4>1. list[k + i] \in Dispatch
        BY <1>4 DEF IInv, ListInv
      <4>2. RestFrom(k)[i] = sent[list[k + i]] /\ RestFrom(k)'[i] = sent'[list[k + i]]
        BY <1>1 DEF RestFrom
      <4> QED
        BY <1>1, <4>1, <4>2
    <3> QED
      BY <3>1
  <2>4. Len(list) - k \in Nat
    BY <1>4
  <2>5. SumOf(RestFrom(k), x) <= SumOf(RestFrom(k)', x)
    BY <2>2, <2>3, <2>4, SumGrows
  <2>6. SumOf(RestFrom(k), x) \in Nat /\ SumOf(RestFrom(k)', x) \in Nat /\ SumOf(SentOf(g), x) \in Nat
    BY <1>4, <2>2, <2>4, SumType, SumOfRows
  <2>7. scan.low[x] <= SumOf(SentOf(g), x) + SumOf(RestFrom(k), x) /\ scan.low[x] \in Nat
    BY <1>4 DEF Knows, Weighed, Counts
  <2> QED
    BY <2>5, <2>6, <2>7
<1>7. Unmoved(g, k)'
  <2>1. SUFFICES ASSUME scan.born = 0, NEW i \in 1 .. k
                 PROVE  g[i].id = list[i] /\ \A x \in Hour : g[i].sent[x] <= sent'[list[i]][x]
    BY <1>1 DEF Unmoved
  <2>2. g[i].id = list[i] /\ \A x \in Hour : g[i].sent[x] <= sent[list[i]][x]
    BY <1>4, <2>1 DEF Knows, Unmoved
  <2>3. g[i].sent \in Counts /\ list[i] \in Dispatch
    <3>1. g[i] \in Row
      BY <1>4
    <3> QED
      BY <1>4, <3>1 DEF Row, IInv, ListInv
  <2>4. \A x \in Hour : /\ g[i].sent[x] \in Nat /\ sent[list[i]][x] \in Nat /\ sent'[list[i]][x] \in Nat
                        /\ sent[list[i]][x] <= sent'[list[i]][x]
    <3>1. sent \in [Dispatch -> Counts] /\ sent' \in [Dispatch -> Counts]
      BY <1>1, SentCounts, DashboardAssumption DEF IInv, Counts
    <3> QED
      BY <1>1, <2>3, <3>1 DEF Counts
  <2> QED
    BY <2>2, <2>4
<1> QED
  BY <1>1, <1>2, <1>3, <1>5, <1>6, <1>7 DEF IInv, Knows

-----------------------------------------------------------------------------
(* A page is read *)

\* The rows g are those of the load and m more, as they stand in the list.
PageRead(g, m) == /\ g \in Seq(Row) /\ Len(g) = scan.offset + m
                  /\ m \in 0 .. Page /\ scan.offset + m <= Len(list)
                  /\ m < Page => scan.offset + m = Len(list)
                  /\ \A i \in 1 .. scan.offset : g[i] = scan.got[i]
                  /\ \A i \in 1 .. m : g[scan.offset + i].id = list[scan.offset + i]
                                       /\ g[scan.offset + i].sent = sent[list[scan.offset + i]]

\* A page has the rows behind the offset, and is short at the end of the list only.
LEMMA PageIsRead == ASSUME ListInv, ScanInv
                    PROVE  /\ PageRead(scan.got \o PageAt(scan.offset), Len(PageAt(scan.offset)))
                           /\ Exhausted(PageAt(scan.offset)) <=> Len(PageAt(scan.offset)) < Page
<1> DEFINE k == scan.offset
           m == Left(k)
           r == PageAt(k)
<1>1. /\ k \in Nat /\ Len(list) \in Nat /\ k <= Len(list) /\ Page \in Nat \ {0}
      /\ scan.got \in Seq(Row) /\ Len(scan.got) = k
  BY DashboardAssumption DEF ListInv, ScanInv, Scan
<1>2. m \in 0 .. Page /\ k + m <= Len(list) /\ (m < Page => k + m = Len(list)) /\ m \in Nat
  <2>1. CASE Len(list) > k + Page
    BY <1>1, <2>1 DEF Left
  <2>2. CASE Len(list) <= k
    BY <1>1, <2>2 DEF Left
  <2>3. CASE ~(Len(list) > k + Page) /\ ~(Len(list) <= k)
    BY <1>1, <2>3 DEF Left
  <2> QED
    BY <2>1, <2>2, <2>3
<1> HIDE DEF m, k
<1>3. r = [i \in 1 .. m |-> [id |-> list[k + i], sent |-> sent[list[k + i]]]]
  BY DEF PageAt, Rows, m
<1> HIDE DEF r
<1>4. \A i \in 1 .. m : list[k + i] \in Dispatch /\ sent[list[k + i]] \in Counts
  BY <1>1, <1>2, SentCounts DEF ListInv
<1>5. \A i \in 1 .. m : r[i] \in Row /\ r[i].id = list[k + i] /\ r[i].sent = sent[list[k + i]]
  BY <1>3, <1>4 DEF Row
<1>6. r \in Seq(Row) /\ Len(r) = m
  BY <1>2, <1>3, <1>5
<1> DEFINE g == scan.got \o r
<1>7. /\ g \in Seq(Row) /\ Len(g) = k + m
      /\ \A i \in 1 .. (k + m) : g[i] = IF i <= k THEN scan.got[i] ELSE r[i - k]
  <2>1. PICK u, v : u = scan.got /\ v = r
    OBVIOUS
  <2>2. u \in Seq(Row) /\ v \in Seq(Row) /\ Len(u) = k /\ Len(v) = m
    BY <1>1, <1>6, <2>1
  <2>3. /\ u \o v \in Seq(Row) /\ Len(u \o v) = k + m
        /\ \A i \in 1 .. (k + m) : (u \o v)[i] = IF i <= k THEN u[i] ELSE v[i - k]
    BY <2>2, Joined
  <2> QED
    BY <2>1, <2>3
<1> HIDE DEF g
<1>8. \A i \in 1 .. k : g[i] = scan.got[i]
  BY <1>1, <1>2, <1>7
<1>9. \A i \in 1 .. m : g[k + i] = r[i]
  <2>1. \A i \in 1 .. m : k + i \in 1 .. (k + m) /\ ~(k + i <= k) /\ (k + i) - k = i
    BY <1>1, <1>2
  <2> QED
    BY <1>7, <2>1
<1>10. PageRead(g, m)
  BY <1>2, <1>5, <1>7, <1>8, <1>9 DEF PageRead, k
<1> QED
  BY <1>6, <1>10 DEF g, r, k, Exhausted

LEMMA ReadMissed == ASSUME ListInv, ScanInv, NEW g, NEW m, PageRead(g, m), Missed(scan.got, scan.offset)
                    PROVE  Missed(g, scan.offset + m)
<1> DEFINE k == scan.offset
           W == Window(k) \ Ids(scan.got)
           V == Window(k + m) \ Ids(g)
<1>1. k \in Nat /\ m \in Nat /\ k \in 0 .. Len(list) /\ scan.born \in Nat
      /\ scan.got \in Seq(Row) /\ Len(scan.got) = k /\ g \in Seq(Row) /\ Len(g) = k + m
  BY DashboardAssumption DEF ListInv, ScanInv, Scan, PageRead
<1>2. V \subseteq W
  <2>1. ASSUME NEW i \in 1 .. (k + m), list[i] \notin Ids(g)
        PROVE  list[i] \in W
    <3>1. DOMAIN g = 1 .. (k + m) /\ DOMAIN scan.got = 1 .. k
      BY <1>1
    <3>2. CASE i <= k
      <4>1. \A j \in 1 .. k : scan.got[j].id = g[j].id /\ j \in 1 .. (k + m)
        BY <1>1 DEF PageRead
      <4>2. list[i] \notin Ids(scan.got)
        BY <2>1, <3>1, <4>1 DEF Ids
      <4> QED
        BY <1>1, <3>2, <4>2 DEF Window
    <3>3. CASE ~(i <= k)
      <4>1. i - k \in 1 .. m /\ k + (i - k) = i
        BY <1>1, <3>3
      <4>2. g[i].id = list[i]
        BY <4>1 DEF PageRead
      <4> QED
        BY <2>1, <3>1, <4>2 DEF Ids
    <3> QED
      BY <3>2, <3>3
  <2> QED
    BY <2>1 DEF Window
<1>3. IsFiniteSet(W) /\ Cardinality(W) \in Nat
  <2>1. IsFiniteSet(Window(k))
    BY <1>1, WindowFinite
  <2> QED
    BY <2>1, FS_Subset, FS_CardinalityType
<1> HIDE DEF W, V
<1>4. IsFiniteSet(V) /\ Cardinality(V) <= Cardinality(W)
  BY <1>2, <1>3, FS_Subset
<1>5. Cardinality(V) \in Nat /\ Cardinality(W) <= scan.born
  BY <1>4, FS_CardinalityType DEF Missed, W
<1> QED
  BY <1>1, <1>3, <1>4, <1>5 DEF Missed, V

LEMMA ReadShifted == ASSUME ListInv, ScanInv, NEW g, NEW m, PageRead(g, m), Shifted(scan.got, scan.offset)
                     PROVE  Shifted(g, scan.offset + m)
<1> DEFINE k == scan.offset
<1>1. k \in Nat /\ m \in Nat /\ scan.born \in Nat /\ Len(list) \in Nat /\ Len(scan.first) \in Nat
      /\ scan.got \in Seq(Row) /\ Len(scan.got) = k /\ g \in Seq(Row) /\ Len(g) = k + m
  BY DashboardAssumption DEF ListInv, ScanInv, Scan, PageRead
<1>2. DOMAIN g = 1 .. (k + m) /\ DOMAIN scan.got = 1 .. k
  BY <1>1
<1>3. ASSUME NEW q \in 1 .. Len(scan.first)
      PROVE  \E i \in q .. (q + scan.born) : /\ i <= Len(list) /\ list[i] = scan.first[q]
                                             /\ i <= k + m => scan.first[q] \in Ids(g)
  <2>1. PICK i \in q .. (q + scan.born) : /\ i <= Len(list) /\ list[i] = scan.first[q]
                                          /\ i <= k => scan.first[q] \in Ids(scan.got)
    BY DEF Shifted
  <2>2. CASE i <= k
    <3>1. PICK j \in 1 .. k : scan.got[j].id = scan.first[q]
      BY <1>2, <2>1, <2>2 DEF Ids
    <3>2. g[j].id = scan.first[q] /\ j \in DOMAIN g
      BY <1>1, <1>2, <3>1 DEF PageRead
    <3> QED
      BY <2>1, <3>2 DEF Ids
  <2>3. CASE i <= k + m /\ ~(i <= k)
    <3>1. i - k \in 1 .. m /\ k + (i - k) = i /\ i \in DOMAIN g
      BY <1>1, <1>2, <2>3
    <3>2. g[i].id = list[i]
      BY <3>1 DEF PageRead
    <3> QED
      BY <2>1, <3>1, <3>2 DEF Ids
  <2>4. CASE ~(i <= k + m)
    BY <2>1, <2>4
  <2> QED
    BY <2>2, <2>3, <2>4
<1> QED
  BY <1>3 DEF Shifted

LEMMA RestSplits == ASSUME NEW k \in Nat, NEW m \in Nat, NEW n \in Nat, k + m <= n
                    PROVE  n - k = m + (n - (k + m)) /\ n - (k + m) \in Nat
OBVIOUS

LEMMA ReadWeighed == ASSUME ListInv, ScanInv, NEW g, NEW m, PageRead(g, m), Weighed(scan.got, scan.offset)
                     PROVE  Weighed(g, scan.offset + m)
<1> DEFINE k == scan.offset
           n == Len(list)
<1>1. k \in Nat /\ m \in Nat /\ n \in Nat /\ k + m <= n /\ k \in 0 .. n /\ k + m \in 0 .. n
      /\ scan.got \in Seq(Row) /\ Len(scan.got) = k /\ g \in Seq(Row) /\ Len(g) = k + m
  BY DashboardAssumption DEF ListInv, ScanInv, Scan, PageRead
<1>2. SUFFICES ASSUME NEW h \in Hour
               PROVE  scan.low[h] <= SumOf(SentOf(g), h) + SumOf(RestFrom(k + m), h)
  BY DEF Weighed
<1> DEFINE p == [i \in 1 .. m |-> sent[list[k + i]]]
           a == SentOf(scan.got)
           b == SentOf(g)
           r == RestFrom(k)
           s == RestFrom(k + m)
<1>3. /\ a \in [1 .. k -> Counts] /\ b \in [1 .. (k + m) -> Counts] /\ SumOf(a, h) \in Nat /\ SumOf(b, h) \in Nat
  BY <1>1, SumOfRows
<1>4. r \in [1 .. (n - k) -> Counts] /\ s \in [1 .. (n - (k + m)) -> Counts]
  BY <1>1, RestTyped
<1>5. p \in [1 .. m -> Counts]
  <2>1. \A i \in 1 .. m : list[k + i] \in Dispatch
    BY <1>1 DEF ListInv
  <2> QED
    BY <2>1, SentCounts
<1>6. /\ \A i \in 1 .. k : b[i] = a[i]
      /\ \A i \in 1 .. m : b[k + i] = p[i]
  <2>1. DOMAIN g = 1 .. (k + m) /\ DOMAIN scan.got = 1 .. k
    BY <1>1
  <2>2. \A i \in 1 .. m : k + i \in 1 .. (k + m)
    BY <1>1
  <2> QED
    BY <1>1, <2>1, <2>2 DEF SentOf, PageRead
<1>7. /\ \A i \in 1 .. m : r[i] = p[i]
      /\ \A i \in 1 .. (n - (k + m)) : r[m + i] = s[i]
  <2>1. \A i \in 1 .. m : i \in 1 .. (n - k)
    BY <1>1
  <2>2. \A i \in 1 .. (n - (k + m)) : m + i \in 1 .. (n - k) /\ k + (m + i) = (k + m) + i
    BY <1>1
  <2> QED
    BY <2>1, <2>2 DEF RestFrom
<1> HIDE DEF a, b, p, r, s
<1>8. SumOf(b, h) = SumOf(a, h) + SumOf(p, h)
  BY <1>1, <1>3, <1>5, <1>6, SumJoins
<1>9. SumOf(r, h) = SumOf(p, h) + SumOf(s, h)
  <2>1. n - k = m + (n - (k + m)) /\ n - (k + m) \in Nat
    BY <1>1, RestSplits
  <2>2. r \in [1 .. (m + (n - (k + m))) -> Counts]
    BY <1>4, <2>1
  <2> QED
    BY <1>1, <1>4, <1>5, <1>7, <2>1, <2>2, SumJoins
<1>10. SumOf(p, h) \in Nat /\ SumOf(s, h) \in Nat
  <2>1. n - (k + m) \in Nat
    BY <1>1
  <2> QED
    BY <1>1, <1>4, <1>5, <2>1, SumType
<1>11. scan.low[h] <= SumOf(a, h) + SumOf(r, h)
  BY DEF Weighed, a, r
<1> QED
  BY <1>3, <1>8, <1>9, <1>10, <1>11 DEF b, s

LEMMA ReadUnmoved == ASSUME ListInv, ScanInv, NEW g, NEW m, PageRead(g, m), Unmoved(scan.got, scan.offset)
                     PROVE  Unmoved(g, scan.offset + m)
<1> DEFINE k == scan.offset
<1>1. k \in Nat /\ m \in Nat /\ k + m <= Len(list) /\ Len(list) \in Nat
  BY DashboardAssumption DEF ListInv, ScanInv, Scan, PageRead
<1>2. SUFFICES ASSUME scan.born = 0, NEW i \in 1 .. (k + m)
               PROVE  g[i].id = list[i] /\ \A h \in Hour : g[i].sent[h] <= sent[list[i]][h]
  BY DEF Unmoved
<1>3. CASE i <= k
  BY <1>1, <1>2, <1>3 DEF PageRead, Unmoved
<1>4. CASE ~(i <= k)
  <2>1. i - k \in 1 .. m /\ k + (i - k) = i
    BY <1>1, <1>4
  <2>2. g[i].id = list[i] /\ g[i].sent = sent[list[i]]
    BY <2>1 DEF PageRead
  <2>3. list[i] \in Dispatch
    BY <1>1, <1>2 DEF ListInv
  <2>4. \A h \in Hour : sent[list[i]][h] \in Nat
    BY <2>3, SentCounts DEF Counts
  <2> QED
    BY <2>2, <2>4
<1> QED
  BY <1>3, <1>4

LEMMA ReadKnows == ASSUME IInv, NEW g, NEW m, PageRead(g, m)
                   PROVE  Knows(g, scan.offset + m)
BY ReadMissed, ReadShifted, ReadWeighed, ReadUnmoved DEF IInv, Knows

\* What is shown when the load ends: result' is made of scan, g and the list.
Shown(g, capped) == result' = [capped |-> capped, buckets |-> Aggregate(g), got |-> g,
                               high |-> TrueCounts, scan |-> scan]

LEMMA ShownTyped == ASSUME IInv, NEW g, NEW m, NEW capped \in BOOLEAN, PageRead(g, m), Shown(g, capped)
                    PROVE  result' \in Result
<1>1. g \in Seq(Row) /\ scan \in Scan
  BY DEF PageRead, IInv, ScanInv
<1>2. TrueCounts \in Counts
  BY TrueCountsAreRest DEF IInv
<1>3. Aggregate(g) \in Counts
  <2>1. \A h \in Hour : SumOf(SentOf(g), h) \in Nat
    BY <1>1, SumOfRows
  <2> QED
    BY <2>1 DEF Aggregate, SentOf, Counts
<1> QED
  BY <1>1, <1>2, <1>3 DEF Shown, Result

LEMMA ShownCopies == ASSUME IInv, NEW g, NEW m, NEW capped, PageRead(g, m), Shown(g, capped)
                     PROVE  CopiesBounded'
<1> DEFINE k == scan.offset + m
           W == Window(k) \ Ids(g)
           U == W \cup Ids(g)
<1>1. k \in 0 .. Len(list) /\ k \in Nat /\ g \in Seq(Row) /\ Len(g) = k /\ scan.born \in Nat
  BY DashboardAssumption DEF IInv, ListInv, ScanInv, Scan, PageRead
<1>2. IsFiniteSet(Window(k)) /\ Cardinality(Window(k)) = k
  BY <1>1, WindowFinite DEF IInv
<1>3. IsFiniteSet(W) /\ Cardinality(W) \in Nat /\ Cardinality(W) <= scan.born
  <2>1. IsFiniteSet(W)
    BY <1>2, FS_Subset
  <2>2. Cardinality(W) <= scan.born
    BY ReadKnows DEF Knows, Missed
  <2> QED
    BY <2>1, <2>2, FS_CardinalityType
<1>4. IsFiniteSet(Ids(g)) /\ Cardinality(Ids(g)) \in Nat
  <2> DEFINE f == [i \in 1 .. k |-> g[i].id]
  <2>1. f \in Surjection(1 .. k, Ids(g))
    <3>1. DOMAIN g = 1 .. k
      BY <1>1
    <3> QED
      BY <3>1 DEF Surjection, Ids
  <2>2. IsFiniteSet(1 .. k)
    BY <1>1, FS_Interval
  <2>3. IsFiniteSet(Ids(g))
    BY <2>1, <2>2, FS_Surjection
  <2> QED
    BY <2>3, FS_CardinalityType
<1>5. Window(k) \subseteq U /\ W \cap Ids(g) = {}
  OBVIOUS
<1> HIDE DEF W
<1>6. IsFiniteSet(U) /\ Cardinality(U) = Cardinality(W) + Cardinality(Ids(g))
  <2>1. IsFiniteSet(U) /\ Cardinality(U) = Cardinality(W) + Cardinality(Ids(g)) - Cardinality(W \cap Ids(g))
    BY <1>3, <1>4, FS_Union
  <2>2. Cardinality(W \cap Ids(g)) = 0
    BY <1>5, FS_EmptySet
  <2> QED
    BY <1>3, <1>4, <2>1, <2>2
<1>7. k <= Cardinality(U)
  <2>1. Cardinality(Window(k)) <= Cardinality(U)
    BY <1>5, <1>6, FS_Subset
  <2> QED
    BY <1>2, <2>1
<1> HIDE DEF U, k
<1>8. Len(g) <= Cardinality(Ids(g)) + scan.born
  BY <1>1, <1>3, <1>4, <1>6, <1>7
<1> QED
  BY <1>8 DEF Shown, CopiesBounded, Ids

LEMMA ShownWindow == ASSUME IInv, NEW g, NEW m, NEW capped, PageRead(g, m), Shown(g, capped),
                            scan.offset + m = Len(list) \/ scan.offset + m >= Cap
                     PROVE  WindowCovered'
<1> DEFINE k == scan.offset + m
<1>1. k \in Nat /\ scan.born \in Nat /\ Cap \in Nat /\ scan.first \in Seq(Dispatch) /\ Len(list) \in Nat
  BY DashboardAssumption DEF IInv, ListInv, ScanInv, Scan, PageRead
<1>2. ASSUME NEW q \in DOMAIN scan.first, q + scan.born <= Cap
      PROVE  scan.first[q] \in Ids(g)
  <2>1. q \in 1 .. Len(scan.first) /\ Len(scan.first) \in Nat
    BY <1>1
  <2>2. PICK i \in q .. (q + scan.born) : /\ i <= Len(list) /\ list[i] = scan.first[q]
                                          /\ i <= k => scan.first[q] \in Ids(g)
    BY <2>1, ReadKnows DEF Knows, Shifted
  <2>3. i <= k
    BY <1>1, <1>2, <2>1, <2>2
  <2> QED
    BY <2>2, <2>3
<1> QED
  BY <1>2 DEF Shown, WindowCovered, Ids

LEMMA ShownCounts == ASSUME IInv, NEW g, NEW m, NEW capped, PageRead(g, m), Shown(g, capped),
                            capped \/ scan.offset + m = Len(list)
                     PROVE  CountsBracketed'
<1> DEFINE k == scan.offset + m
<1>1. SUFFICES ASSUME ~capped, NEW h \in Hour
               PROVE  /\ scan.low[h] <= Aggregate(g)[h]
                      /\ scan.born = 0 => Aggregate(g)[h] <= TrueCounts[h]
  BY DEF Shown, CountsBracketed
<1>2. /\ k = Len(list) /\ k \in Nat /\ k \in 0 .. Len(list) /\ g \in Seq(Row) /\ Len(g) = k
      /\ scan.low \in Counts
  BY <1>1, DashboardAssumption DEF IInv, ListInv, ScanInv, Scan, PageRead
<1>3. Aggregate(g)[h] = SumOf(SentOf(g), h)
  BY DEF Aggregate, SentOf
<1>4. SentOf(g) \in [1 .. k -> Counts] /\ SumOf(SentOf(g), h) \in Nat
  BY <1>2, SumOfRows
<1>5. scan.low[h] <= SumOf(SentOf(g), h)
  <2>1. scan.low[h] <= SumOf(SentOf(g), h) + SumOf(RestFrom(k), h)
    BY ReadKnows DEF Knows, Weighed
  <2>2. RestFrom(k) \in [1 .. 0 -> Counts]
    BY <1>2, RestTyped DEF IInv
  <2>3. SumOf(RestFrom(k), h) = 0
    BY <2>2, SumType
  <2>4. scan.low[h] \in Nat
    BY <1>2 DEF Counts
  <2> QED
    BY <1>4, <2>1, <2>3, <2>4
<1>6. ASSUME scan.born = 0
      PROVE  SumOf(SentOf(g), h) <= TrueCounts[h]
  <2>1. RestFrom(0) \in [1 .. k -> Counts]
    BY <1>2, RestTyped DEF IInv
  <2>2. \A i \in 1 .. k : SentOf(g)[i][h] <= RestFrom(0)[i][h]
    <3>1. SUFFICES ASSUME NEW i \in 1 .. k
                   PROVE  SentOf(g)[i][h] <= RestFrom(0)[i][h]
      OBVIOUS
    <3>2. g[i].sent[h] <= sent[list[i]][h]
      BY <1>6, ReadKnows DEF Knows, Unmoved
    <3>3. SentOf(g)[i] = g[i].sent /\ RestFrom(0)[i] = sent[list[i]]
      <4>1. DOMAIN g = 1 .. k /\ i \in 1 .. (Len(list) - 0) /\ 0 + i = i
        BY <1>2
      <4> QED
        BY <4>1 DEF SentOf, RestFrom
    <3> QED
      BY <3>2, <3>3
  <2>3. SumOf(SentOf(g), h) <= SumOf(RestFrom(0), h)
    BY <1>2, <1>4, <2>1, <2>2, SumGrows
  <2> QED
    BY <2>3, TrueCountsAreRest DEF IInv
<1> QED
  BY <1>3, <1>5, <1>6

LEMMA ReadPageInv == ASSUME IInv, ReadPage
                     PROVE  IInv'
<1> DEFINE r == PageAt(scan.offset)
           x == scan.got \o r
<1>1. PICK g, m, k : g = x /\ m = Len(r) /\ k = scan.offset + m
  OBVIOUS
<1>2. PageRead(g, m) /\ (Exhausted(r) <=> m < Page)
  BY <1>1, PageIsRead DEF IInv
<1>3. /\ k = Len(g) /\ k \in Nat /\ m \in Nat /\ Page \in Nat /\ k <= Len(list) /\ Cap \in Nat
      /\ (Exhausted(r) => k = Len(list)) /\ (~Exhausted(r) => m = Page) /\ scan \in Scan /\ g \in Seq(Row)
  BY <1>1, <1>2, DashboardAssumption DEF PageRead, IInv, ListInv, ScanInv, Scan
<1>4. scan.on /\ UNCHANGED <<list, sent, faults>>
  BY DEF ReadPage
<1>5. ListInv'
  BY <1>4, ListKept DEF IInv, ListInv
<1>6. ASSUME NEW capped \in BOOLEAN, Finish(g, capped), capped => k >= Cap, ~capped => k = Len(list)
      PROVE  IInv'
  <2>1. Shown(g, capped)
    BY <1>6 DEF Finish, Shown
  <2>2. ResultInv'
    BY <1>1, <1>2, <1>6, <2>1, ShownTyped, ShownCopies, ShownWindow, ShownCounts DEF ResultInv
  <2>3. ScanInv' /\ Knows(scan.got, scan.offset)'
    BY <1>4, <1>6, NoScanInv DEF IInv, Finish
  <2> QED
    BY <1>5, <2>2, <2>3 DEF IInv
<1>7. CASE Exhausted(r) /\ Finish(x, FALSE)
  BY <1>1, <1>3, <1>6, <1>7
<1>8. CASE ~Exhausted(r) /\ Len(x) >= Cap /\ Finish(x, TRUE)
  BY <1>1, <1>3, <1>6, <1>8
<1>9. CASE /\ ~Exhausted(r) /\ Len(x) < Cap /\ scan.calls + 1 < MaxCalls
           /\ scan' = [scan EXCEPT !.got = x, !.offset = @ + Page, !.calls = @ + 1]
           /\ UNCHANGED result
  <2>1. m = Page /\ scan.calls \in Nat /\ scan' = [scan EXCEPT !.got = g, !.offset = k, !.calls = @ + 1]
    BY <1>1, <1>3, <1>9 DEF Scan
  <2>2. scan.calls + 1 \in Nat
    BY <2>1
  <2>3. /\ scan' \in Scan /\ scan'.got = g /\ scan'.offset = k /\ scan'.calls = scan.calls + 1
        /\ scan'.on = scan.on /\ scan'.first = scan.first /\ scan'.low = scan.low /\ scan'.born = scan.born
    BY <1>3, <2>1, <2>2 DEF Scan
  <2>4. ScanInv'
    BY <1>1, <1>3, <1>4, <1>9, <2>3 DEF ScanInv
  <2>5. Knows(g, k)
    BY <1>1, <1>2, ReadKnows
  <2>6. Knows(g, k)'
    BY <1>4, <2>3, <2>5 DEF Knows, Missed, Shifted, Weighed, Unmoved, Window, Ids, SentOf, RestFrom
  <2>7. ResultInv'
    BY <1>9 DEF IInv, ResultInv, CountsBracketed, CopiesBounded, WindowCovered, Ids
  <2> QED
    BY <1>5, <2>3, <2>4, <2>6, <2>7 DEF IInv
<1> QED
  BY <1>7, <1>8, <1>9 DEF ReadPage

-----------------------------------------------------------------------------
(* The theorems *)

LEMMA NextInv == ASSUME IInv, [Next]_vars
                 PROVE  IInv'
<1>1. CASE UNCHANGED vars
  <2>1. UNCHANGED <<list, sent, scan, result, faults>>
    BY <1>1 DEF vars
  <2>2. ListInv' /\ ScanInv'
    BY <2>1 DEF IInv, ListInv, ScanInv
  <2>3. ResultInv'
    BY <2>1 DEF IInv, ResultInv, CountsBracketed, CopiesBounded, WindowCovered, Ids
  <2>4. Knows(scan.got, scan.offset)'
    BY <2>1 DEF IInv, Knows, Missed, Shifted, Weighed, Unmoved, Window, Ids, SentOf, RestFrom
  <2> QED
    BY <2>2, <2>3, <2>4 DEF IInv
<1>2. CASE \E place \in {1, 2} : NewSend(place)
  BY <1>2, NewSendInv
<1>3. CASE \E d \in Dispatch, h \in Hour : Sent(d, h)
  BY <1>3, SentInv
<1>4. CASE Load \/ ReadPage \/ PageFails
  BY <1>4, LoadInv, ReadPageInv, PageFailsInv
<1> QED
  BY <1>1, <1>2, <1>3, <1>4 DEF Next

\* What a load has read tells, at each step, where the sends of its beginning are and
\* how many of the ones it has passed are missing from it.
THEOREM Invariance == Spec => []IInv
BY InitInv, NextInv, PTL DEF Spec

\* The types of the list, of the counts, of the load and of what the last one showed,
\* their history included; a load stays below the cap and below its number of calls
\* (Dashboard.tsx:26).
THEOREM TypesCorrect == Spec => []TypeOK
<1>1. IInv => TypeOK
  BY DEF IInv, ListInv, ScanInv, ResultInv, TypeOK
<1> QED
  BY <1>1, Invariance, PTL

\* The counts of a chart lie between those of the beginning and of the end of its
\* load, for any number of pages, dispatches and hours.
THEOREM CountsAreBracketed == Spec => []CountsBracketed
<1>1. IInv => CountsBracketed
  BY DEF IInv, ResultInv
<1> QED
  BY <1>1, Invariance, PTL

\* No more copies than sends that came in, for any page size and cap.
THEOREM CopiesAreBounded == Spec => []CopiesBounded
<1>1. IInv => CopiesBounded
  BY DEF IInv, ResultInv
<1> QED
  BY <1>1, Invariance, PTL

\* The newest sends of when the load began are shown, but for as many as came in.
THEOREM WindowIsCovered == Spec => []WindowCovered
<1>1. IInv => WindowCovered
  BY DEF IInv, ResultInv
<1> QED
  BY <1>1, Invariance, PTL

=============================================================================
