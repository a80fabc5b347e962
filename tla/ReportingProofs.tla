-------------------------- MODULE ReportingProofs --------------------------
(***************************************************************************)
(* Theorems about Reporting, for any number of processes.  Three           *)
(* arguments: the anchor a check reads is the time of the last claim it    *)
(* can see, unless the cadence was changed since; a cycle belongs to one   *)
(* process, which turns accounts to do into reports; and rows are only     *)
(* added, so whoever counts them after a claim counts no less.  Sum is a   *)
(* recursive function over the subsets of owners; the first part proves    *)
(* what the third needs to know of it.                                     *)
(***************************************************************************)
EXTENDS Reporting, FiniteSetTheorems, WellFoundedInduction, TLAPS

-----------------------------------------------------------------------------
(* Sums over a set of owners *)

\* Induction, as the provers take it: a set of numbers has a least one.
LEMMA LeastOf == ASSUME NEW T \in SUBSET Nat, T # {}
                 PROVE  \E n \in T : \A m \in T : n <= m
<1> DEFINE R == OpToRel(<, Nat)
<1>1. R = {ss \in Nat \X Nat : ss[1] < ss[2]}
  BY DEF OpToRel
<1>2. IsWellFoundedOn(R, Nat)
  BY NatLessThanWellFounded
<1> HIDE DEF R
<1>3. PICK n \in T : \A m \in T : ~ (<<m, n>> \in R)
  BY <1>2, WFMin
<1>4. ASSUME NEW m \in T
      PROVE  n <= m
  <2>1. <<m, n>> \notin {ss \in Nat \X Nat : ss[1] < ss[2]}
    BY <1>1, <1>3
  <2> QED
    BY <2>1
<1> QED
  BY <1>4

\* What folding over the subsets of D is, when pick says which element goes first.
Folding(it, D, pick, val) ==
  it = [s \in SUBSET D |-> IF s = {} THEN 0 ELSE val[pick[s]] + it[s \ {pick[s]}]]

Upto(it, D, pick, val, n) ==
  \A s \in SUBSET D : Cardinality(s) <= n =>
    it[s] = IF s = {} THEN 0 ELSE val[pick[s]] + it[s \ {pick[s]}]

\* The recursion has a solution for the subsets of any size, hence for all of them.
LEMMA FoldingUpto == ASSUME NEW D, IsFiniteSet(D), NEW val, NEW pick, NEW n \in Nat,
                            \A s \in SUBSET D : s # {} => pick[s] \in s
                     PROVE  \E it : it = [s \in SUBSET D |-> it[s]] /\ Upto(it, D, pick, val, n)
<1> DEFINE P(k) == \E it : it = [s \in SUBSET D |-> it[s]] /\ Upto(it, D, pick, val, k)
           T == {k \in Nat : ~P(k)}
<1>0. \A s \in SUBSET D : IsFiniteSet(s) /\ Cardinality(s) \in Nat /\ (Cardinality(s) = 0 <=> s = {})
  BY FS_Subset, FS_CardinalityType, FS_EmptySet
<1>1. SUFFICES ASSUME T # {}
               PROVE  FALSE
  OBVIOUS
<1> HIDE DEF P
<1>2. PICK k \in T : k \in Nat /\ \A m \in T : k <= m
  BY <1>1, LeastOf
<1> HIDE DEF T
<1>3. CASE k = 0
  <2> DEFINE g == [s \in SUBSET D |-> 0]
  <2>1. g = [s \in SUBSET D |-> g[s]] /\ Upto(g, D, pick, val, 0)
    BY <1>0 DEF Upto
  <2> QED
    BY <1>2, <1>3, <2>1 DEF P, T
<1>4. CASE k # 0
  <2>1. k - 1 \in Nat /\ k - 1 \notin T
    BY <1>2, <1>4
  <2>2. P(k - 1)
    BY <2>1 DEF T
  <2>3. PICK it : it = [s \in SUBSET D |-> it[s]] /\ Upto(it, D, pick, val, k - 1)
    BY <2>2 DEF P
  <2> DEFINE g == [s \in SUBSET D |-> IF Cardinality(s) < k THEN it[s]
                                     ELSE val[pick[s]] + it[s \ {pick[s]}]]
  <2>4. ASSUME NEW s \in SUBSET D, Cardinality(s) <= k
        PROVE  g[s] = IF s = {} THEN 0 ELSE val[pick[s]] + g[s \ {pick[s]}]
    <3>1. CASE s = {}
      <4>1. Cardinality(s) = 0
        BY <1>0, <3>1
      <4>2. Cardinality(s) <= k - 1
        BY <1>2, <1>4, <4>1
      <4>3. it[s] = 0
        BY <2>3, <3>1, <4>2 DEF Upto
      <4> QED
        BY <1>2, <1>4, <3>1, <4>1, <4>3
    <3>2. CASE s # {}
      <4>1. /\ pick[s] \in s /\ s \ {pick[s]} \in SUBSET D
            /\ Cardinality(s \ {pick[s]}) = Cardinality(s) - 1
        BY <1>0, <3>2, FS_RemoveElement
      <4>2. g[s \ {pick[s]}] = it[s \ {pick[s]}]
        BY <1>0, <1>2, <2>4, <4>1
      <4>3. CASE Cardinality(s) < k
        <5>1. Cardinality(s) <= k - 1
          BY <1>0, <1>2, <4>3
        <5>2. it[s] = val[pick[s]] + it[s \ {pick[s]}]
          BY <2>3, <3>2, <5>1 DEF Upto
        <5> QED
          BY <3>2, <4>2, <4>3, <5>2
      <4>4. CASE ~(Cardinality(s) < k)
        BY <3>2, <4>2, <4>4
      <4> QED
        BY <4>3, <4>4
    <3> QED
      BY <3>1, <3>2
  <2>5. g = [s \in SUBSET D |-> g[s]]
    OBVIOUS
  <2>6. P(k)
    BY <2>4, <2>5 DEF P, Upto
  <2> QED
    BY <1>2, <2>6 DEF T
<1> QED
  BY <1>3, <1>4

LEMMA FoldingExists == ASSUME NEW D, IsFiniteSet(D), NEW val, NEW pick,
                              \A s \in SUBSET D : s # {} => pick[s] \in s
                       PROVE  \E it : Folding(it, D, pick, val)
<1>1. Cardinality(D) \in Nat /\ \A s \in SUBSET D : Cardinality(s) <= Cardinality(D)
  BY FS_Subset, FS_CardinalityType
<1>2. PICK it : it = [s \in SUBSET D |-> it[s]] /\ Upto(it, D, pick, val, Cardinality(D))
  BY <1>1, FoldingUpto
<1> DEFINE g == [s \in SUBSET D |-> IF s = {} THEN 0 ELSE val[pick[s]] + it[s \ {pick[s]}]]
<1>3. it = g
  BY <1>1, <1>2 DEF Upto
<1> QED
  BY <1>3 DEF Folding

Choice(s) == CHOOSE o \in s : TRUE

Chosen(D) == [s \in SUBSET D |-> Choice(s)]
CountIn(r, D, h) == [o \in D |-> r[o][h]]

\* The one step of the fold that adds up hour h of r.
SumStep(r, D, h, it) == [s \in SUBSET D |-> IF s = {} THEN 0 ELSE r[Choice(s)][h] + it[s \ {Choice(s)}]]

LEMMA SumIsFold == ASSUME NEW D, NEW r, NEW h \in Hour
                   PROVE  Sum(r, D)[h] = (CHOOSE it : it = SumStep(r, D, h, it))[D]
BY DEF Sum, MapThenFoldSet, SumStep, Choice

LEMMA SumFolds == ASSUME NEW D, IsFiniteSet(D), NEW r, NEW h \in Hour
                  PROVE  \E it : Folding(it, D, Chosen(D), CountIn(r, D, h)) /\ Sum(r, D)[h] = it[D]
<1>1. Sum(r, D)[h] = (CHOOSE it : it = SumStep(r, D, h, it))[D]
  BY SumIsFold
<1>2. \A s \in SUBSET D : s # {} => Choice(s) \in s
  BY DEF Choice
<1>3. ASSUME NEW it
      PROVE  Folding(it, D, Chosen(D), CountIn(r, D, h)) <=> it = SumStep(r, D, h, it)
  <2>1. \A s \in SUBSET D : s # {} => /\ Chosen(D)[s] = Choice(s)
                                      /\ CountIn(r, D, h)[Chosen(D)[s]] = r[Choice(s)][h]
    BY <1>2 DEF Chosen, CountIn
  <2> QED
    BY <2>1 DEF Folding, SumStep
<1>4. \A s \in SUBSET D : s # {} => Chosen(D)[s] \in s
  BY <1>2 DEF Chosen
<1>5. \E it : Folding(it, D, Chosen(D), CountIn(r, D, h))
  BY <1>4, FoldingExists
<1> QED
  BY <1>1, <1>3, <1>5

\* Owner by owner no less, no less in sum.
LEMMA SumGrows == ASSUME NEW D, IsFiniteSet(D), NEW h \in Hour, NEW r, NEW s,
                         \A o \in D : r[o][h] \in Nat /\ s[o][h] \in Nat /\ r[o][h] <= s[o][h]
                  PROVE  Sum(r, D)[h] \in Nat /\ Sum(s, D)[h] \in Nat /\ Sum(r, D)[h] <= Sum(s, D)[h]
<1> DEFINE v == CountIn(r, D, h)
           w == CountIn(s, D, h)
           c == Chosen(D)
<1>1. PICK it : Folding(it, D, c, v) /\ Sum(r, D)[h] = it[D]
  BY SumFolds
<1>2. PICK jt : Folding(jt, D, c, w) /\ Sum(s, D)[h] = jt[D]
  BY SumFolds
<1>3. \A x \in SUBSET D : x # {} => c[x] \in x
  BY DEF Chosen, Choice
<1>4. \A o \in D : v[o] \in Nat /\ w[o] \in Nat /\ v[o] <= w[o]
  BY DEF CountIn
<1> HIDE DEF v, w, c
<1> DEFINE Good(x) == it[x] \in Nat /\ jt[x] \in Nat /\ it[x] <= jt[x]
           T == {n \in Nat : \E x \in SUBSET D : Cardinality(x) = n /\ ~Good(x)}
<1>5. \A x \in SUBSET D : IsFiniteSet(x) /\ Cardinality(x) \in Nat
  BY FS_Subset, FS_CardinalityType
<1>6. ASSUME T # {}
      PROVE  FALSE
  <2>1. PICK n \in T : \A m \in T : n <= m
    <3>1. T \in SUBSET Nat
      OBVIOUS
    <3> QED
      BY <1>6, <3>1, LeastOf
  <2>2. PICK x \in SUBSET D : Cardinality(x) = n /\ ~Good(x)
    BY <2>1
  <2>3. CASE x = {}
    BY <1>1, <1>2, <2>2, <2>3 DEF Folding
  <2>4. CASE x # {}
    <3> DEFINE y == x \ {c[x]}
    <3>1. c[x] \in x /\ c[x] \in D /\ y \in SUBSET D
      BY <1>3, <2>4
    <3>2. Cardinality(y) = n - 1 /\ n - 1 \in Nat
      <4>1. IsFiniteSet(x) /\ Cardinality(y) \in Nat /\ n \in Nat
        BY <1>5, <2>1, <3>1
      <4>2. Cardinality(y) = Cardinality(x) - 1
        BY <3>1, <4>1, FS_RemoveElement
      <4> QED
        BY <2>2, <4>1, <4>2
    <3>3. Good(y)
      <4>1. n - 1 \notin T
        BY <2>1, <3>2
      <4> QED
        BY <3>1, <3>2, <4>1
    <3>4. it[x] = v[c[x]] + it[y] /\ jt[x] = w[c[x]] + jt[y]
      BY <1>1, <1>2, <2>4 DEF Folding
    <3>5. v[c[x]] \in Nat /\ w[c[x]] \in Nat /\ v[c[x]] <= w[c[x]]
      BY <1>4, <3>1
    <3> QED
      BY <2>2, <3>3, <3>4, <3>5
  <2> QED
    BY <2>3, <2>4
<1>7. Good(D)
  BY <1>5, <1>6
<1> QED
  BY <1>1, <1>2, <1>7

LEMMA SumOfOne == ASSUME NEW o, NEW r, NEW h \in Hour, r[o][h] \in Nat
                  PROVE  Sum(r, {o})[h] = r[o][h]
<1>1. IsFiniteSet({o})
  BY FS_Singleton
<1>2. PICK it : Folding(it, {o}, Chosen({o}), CountIn(r, {o}, h)) /\ Sum(r, {o})[h] = it[{o}]
  BY <1>1, SumFolds
<1>3. Chosen({o})[{o}] = o /\ CountIn(r, {o}, h)[o] = r[o][h]
  BY DEF Chosen, Choice, CountIn
<1>4. it[{}] = 0 /\ it[{o}] = CountIn(r, {o}, h)[Chosen({o})[{o}]] + it[{o} \ {Chosen({o})[{o}]}]
  BY <1>2 DEF Folding
<1>5. {o} \ {Chosen({o})[{o}]} = {}
  BY <1>3
<1> QED
  BY <1>2, <1>3, <1>4, <1>5

LEMMA SumTyped == ASSUME NEW r \in [Owner -> Counts]
                  PROVE  Sum(r, Account) \in Counts
<1>1. \A h \in Hour : Sum(r, Account)[h] \in Nat
  <2>1. \A h \in Hour : \A o \in Account : r[o][h] \in Nat /\ r[o][h] <= r[o][h]
    BY DEF Counts, Owner
  <2> QED
    BY <2>1, SumGrows, ReportingAssumption
<1> QED
  BY <1>1 DEF Sum, Counts

-----------------------------------------------------------------------------
(* The invariant *)

\* The changes of the row never outnumber those asked for, the one under way included.
SavesCounted == config.saves + (IF request = NoRequest THEN 0 ELSE 1) <= sets

-----------------------------------------------------------------------------
(* Claims *)

\* A claim is older than any later change, and the anchor is the last claim's until one.
AnchorIsLast == /\ \A j \in DOMAIN claims : claims[j].saves <= config.saves /\ claims[j].after < j
                /\ Len(claims) > 0 /\ claims[Len(claims)].saves = config.saves =>
                       config.anchor = claims[Len(claims)].at

\* A process about to claim has seen a row that was due, with the anchor of the claim
\* before it.
Seen(p) == LET l == proc[p]
           IN l.pc = "claim" =>
                /\ Due(l.seen, l.at)
                /\ l.after <= Len(claims)
                /\ l.after > 0 /\ claims[l.after].saves = l.seen.saves =>
                       l.seen.anchor = claims[l.after].at

-----------------------------------------------------------------------------
(* Cycles *)

Gathering == {"users", "global", "accounts"}
Serving == {"next", "enqueue"}
Running == Gathering \cup Serving

\* The account a has a report of cycle c and that scope.
Has(c, a, scope) == Of(c, a, scope) # {}

\* No account is ever forgotten: administrators are known to every claim, and whoever
\* is known stays.
Remembered == /\ Admin \subseteq accounts
              /\ \A c \in DOMAIN claims : Admin \subseteq claims[c].known /\ claims[c].known \subseteq accounts

SameReport(i, k) == /\ reports[i].cycle = reports[k].cycle
                    /\ reports[i].to = reports[k].to
                    /\ reports[i].scope = reports[k].scope

OneEach == \A i, k \in DOMAIN reports : SameReport(i, k) => i = k

\* Only administrators get the global report.
GlobalForAdmins == \A i \in DOMAIN reports : reports[i].scope = "global" => reports[i].to \in Admin

\* A cycle that runs is one process's own.
OwnCycle(p) == proc[p].pc \in Running =>
                 /\ proc[p].cycle \in DOMAIN claims \ finished
                 /\ \A q \in Proc : q # p /\ proc[q].pc \in Running => proc[q].cycle # proc[p].cycle

Blank(p) == /\ proc[p].pc \notin Serving => proc[p].item = Idle.item
            /\ proc[p].pc \in Gathering => \A i \in DOMAIN reports : reports[i].cycle # proc[p].cycle

\* The global report of an administrator is the one that is due next.
GlobalNext(p, a) == proc[p].item = [to |-> a, scope |-> "personal"]

Served(p) ==
  LET l == proc[p]
      c == l.cycle
  IN l.pc \in Serving =>
       /\ \A a \in claims[c].known : a \in l.todo \/ Has(c, a, "personal")
       /\ \A a \in l.todo : ~Has(c, a, "personal") /\ ~Has(c, a, "global")
       /\ l.item.to \in Account => Has(c, l.item.to, l.item.scope)
       /\ \A a \in Admin : Has(c, a, "personal") => (Has(c, a, "global") <=> ~GlobalNext(p, a))
       /\ \A i \in DOMAIN reports : reports[i].cycle = c =>
            \/ i \in enqueued
            \/ l.pc = "enqueue" /\ reports[i].to = l.item.to /\ reports[i].scope = l.item.scope

Complete == \A c \in finished :
              /\ \A a \in claims[c].known : Has(c, a, "personal")
              /\ \A a \in Admin : Has(c, a, "global")
              /\ \A i \in DOMAIN reports : reports[i].cycle = c => i \in enqueued

-----------------------------------------------------------------------------

ClaimInv == /\ AnchorIsLast
            /\ Spaced
            /\ \A p \in Proc : Seen(p)

CycleInv == /\ Remembered
            /\ OneEach
            /\ GlobalForAdmins
            /\ Complete
            /\ \A p \in Proc : OwnCycle(p) /\ Blank(p) /\ Served(p)

IInv == TypeOK /\ SavesCounted /\ ClaimInv /\ CycleInv

-----------------------------------------------------------------------------
(* Rows appended, processes moved *)

LEMMA Appended == ASSUME NEW S, NEW s \in Seq(S), NEW e \in S
                  PROVE  /\ Append(s, e) \in Seq(S)
                         /\ Len(s) \in Nat /\ Len(Append(s, e)) = Len(s) + 1
                         /\ DOMAIN s = 1 .. Len(s) /\ DOMAIN Append(s, e) = 1 .. Len(s) + 1
                         /\ \A i \in DOMAIN s : Append(s, e)[i] = s[i]
                         /\ Append(s, e)[Len(s) + 1] = e
  OBVIOUS

LEMMA Rows == ASSUME TypeOK
              PROVE  /\ Len(claims) \in Nat /\ DOMAIN claims = 1 .. Len(claims)
                     /\ Len(reports) \in Nat /\ DOMAIN reports = 1 .. Len(reports)
                     /\ \A c \in DOMAIN claims : claims[c] \in ClaimRow
                     /\ \A i \in DOMAIN reports : reports[i] \in ReportRow
  BY DEF TypeOK

\* Process p has come to l; the others are where they were.
Moved(p, l) == /\ proc' \in [Proc -> Local]
               /\ proc'[p] = l
               /\ \A q \in Proc : q # p => proc'[q] = proc[q]

LEMMA GotoMoves == ASSUME TypeOK, NEW p \in Proc, NEW l \in Local, Goto(p, l)
                   PROVE  Moved(p, l)
  BY DEF TypeOK, Goto, Moved

LEMMA ProcTyped == ASSUME TypeOK, NEW p \in Proc
                   PROVE  proc[p] \in Local /\ proc[p].cycle \in 0 .. Len(claims)
  BY DEF TypeOK, LinksOK

LEMMA ConfigTyped == ASSUME NEW g \in Config
                     PROVE  g.interval \in Nat /\ g.anchor \in Nat /\ g.saves \in Nat
<1>1. 0 \in Nat /\ Intervals \subseteq Nat /\ Default \in Nat /\ MaxTime \in Nat /\ MaxSets \in Nat
  BY ReportingAssumption
<1>2. /\ g.interval \in {0} \cup {n \in Intervals \cup {Default} : n >= MinInterval}
      /\ g.anchor \in 0 .. MaxTime /\ g.saves \in 0 .. MaxSets
  BY DEF Config
<1>3. g.interval = 0 \/ g.interval \in Intervals \/ g.interval = Default
  BY <1>2, Zenon
<1>4. g.interval \in Nat
  BY <1>1, <1>3, Zenon
<1>5. g.anchor \in Nat /\ g.saves \in Nat
  BY <1>2
<1> QED
  BY <1>4, <1>5

LEMMA ServerIsNobody == Server \in Owner /\ Server \notin Account /\ Account \subseteq Owner
  BY ReportingAssumption DEF Owner

LEMMA IdleTyped == /\ Idle \in Local
                   /\ Idle.pc = "idle" /\ Idle.todo = {} /\ Idle.cycle = 0
                   /\ Idle.item = [to |-> Server, scope |-> "personal"]
  BY ReportingAssumption, ServerIsNobody
     DEF Idle, Local, Config, Counts, NoCounts, Scope

LEMMA EnqueuedFinite == ASSUME TypeOK
                        PROVE  IsFiniteSet(enqueued) /\ Cardinality(enqueued) \in Nat
<1>1. IsFiniteSet(1 .. Len(reports))
  BY Rows, FS_Interval
<1>2. enqueued \subseteq 1 .. Len(reports)
  BY Rows DEF TypeOK, LinksOK
<1> QED
  BY <1>1, <1>2, FS_Subset, FS_CardinalityType

-----------------------------------------------------------------------------
(* What most steps leave as it is *)

LEMMA WorldKeepsClaims == ASSUME ClaimInv, UNCHANGED <<config, claims, proc>>
                          PROVE  ClaimInv'
  BY DEF ClaimInv, AnchorIsLast, Spaced, Seen

LEMMA WorldKeepsCycles == ASSUME CycleInv, UNCHANGED <<reportVars, historyVars, proc>>,
                                 accounts \subseteq accounts'
                          PROVE  CycleInv'
<1> USE DEF reportVars, historyVars
<1>1. \A c, a, scope : Has(c, a, scope)' <=> Has(c, a, scope)
  BY DEF Has, Of
<1>2. Remembered' /\ OneEach' /\ GlobalForAdmins'
  BY DEF CycleInv, Remembered, OneEach, SameReport, GlobalForAdmins
<1>3. Complete'
  BY <1>1 DEF CycleInv, Complete
<1>4. ASSUME NEW p \in Proc
      PROVE  OwnCycle(p)' /\ Blank(p)' /\ Served(p)'
  BY <1>1 DEF CycleInv, OwnCycle, Blank, Served, GlobalNext
<1> QED
  BY <1>2, <1>3, <1>4 DEF CycleInv

LEMMA MoveKeepsClaims == ASSUME ClaimInv, NEW p \in Proc, NEW l \in Local, Moved(p, l),
                                l.pc # "claim", UNCHANGED <<config, claims>>
                         PROVE  ClaimInv'
  BY DEF ClaimInv, AnchorIsLast, Spaced, Seen, Moved

\* A process that is not in a cycle, or that gathers and will go on gathering.
LEMMA MoveKeepsCycles == ASSUME CycleInv, NEW p \in Proc, NEW l \in Local, Moved(p, l),
                                \/ l.pc \notin Running /\ l.item = Idle.item
                                \/ /\ {proc[p].pc, l.pc} \subseteq Gathering
                                   /\ l.cycle = proc[p].cycle /\ l.item = proc[p].item,
                                UNCHANGED <<accounts, reportVars, historyVars>>
                         PROVE  CycleInv'
<1> USE DEF reportVars, historyVars
<1>1. \A c, a, scope : Has(c, a, scope)' <=> Has(c, a, scope)
  BY DEF Has, Of
<1>2. Remembered' /\ OneEach' /\ GlobalForAdmins'
  BY DEF CycleInv, Remembered, OneEach, SameReport, GlobalForAdmins
<1>3. Complete'
  BY <1>1 DEF CycleInv, Complete
<1>4. ASSUME NEW q \in Proc
      PROVE  OwnCycle(q)' /\ Blank(q)' /\ Served(q)'
  <2>1. OwnCycle(q)'
    BY DEF CycleInv, OwnCycle, Moved, Running, Gathering
  <2>2. Blank(q)'
    BY DEF CycleInv, Blank, Moved, Running, Gathering, Serving
  <2>3. Served(q)'
    BY <1>1 DEF CycleInv, Served, GlobalNext, Moved, Running, Gathering, Serving
  <2> QED
    BY <2>1, <2>2, <2>3
<1> QED
  BY <1>2, <1>3, <1>4 DEF CycleInv

-----------------------------------------------------------------------------
(* The world and the administrator *)

LEMMA LinksKept == ASSUME LinksOK, UNCHANGED <<reports, enqueued, sent, proc, claims, finished>>
                   PROVE  LinksOK'
  BY DEF LinksOK

LEMMA ElapseInv == ASSUME IInv, Elapse
                   PROVE  IInv'
<1>1. TypeOK' /\ SavesCounted'
  BY LinksKept, ReportingAssumption DEF Elapse, IInv, TypeOK, SavesCounted, configVars, reportVars, mailVars, historyVars
<1> QED
  BY <1>1, WorldKeepsClaims, WorldKeepsCycles
     DEF Elapse, IInv, configVars, reportVars, mailVars, historyVars

LEMMA RegisterInv == ASSUME IInv, NEW a \in Account, Register(a)
                     PROVE  IInv'
<1>1. TypeOK' /\ SavesCounted'
  BY LinksKept DEF Register, IInv, TypeOK, SavesCounted, configVars, reportVars, mailVars, historyVars
<1> QED
  BY <1>1, WorldKeepsClaims, WorldKeepsCycles
     DEF Register, IInv, configVars, reportVars, mailVars, historyVars

LEMMA UserSendsInv == ASSUME IInv, NEW a \in Account, NEW h \in Hour, UserSends(a, h)
                      PROVE  IInv'
<1>1. rows' \in [Owner -> Counts]
  BY ServerIsNobody DEF UserSends, IInv, TypeOK, LinksOK, Counts
<1>2. TypeOK' /\ SavesCounted'
  BY <1>1, LinksKept DEF UserSends, IInv, TypeOK, SavesCounted, worldVars, configVars, reportVars, historyVars
<1> QED
  BY <1>2, WorldKeepsClaims, WorldKeepsCycles
     DEF UserSends, IInv, worldVars, configVars, reportVars, historyVars

LEMMA ReportSentInv == ASSUME IInv, NEW h \in Hour, ReportSent(h)
                       PROVE  IInv'
<1>1. rows' \in [Owner -> Counts]
  BY ServerIsNobody DEF ReportSent, IInv, TypeOK, LinksOK, Counts
<1>2. sent' \in 0 .. Cardinality(enqueued)
  BY EnqueuedFinite DEF ReportSent, IInv, TypeOK, LinksOK
<1>3. TypeOK' /\ SavesCounted'
  BY <1>1, <1>2 DEF ReportSent, IInv, TypeOK, LinksOK, SavesCounted, worldVars, configVars, reportVars, historyVars
<1> QED
  BY <1>3, WorldKeepsClaims, WorldKeepsCycles
     DEF ReportSent, IInv, worldVars, configVars, reportVars, historyVars

LEMMA SetFrequencyInv == ASSUME IInv, NEW n \in Intervals, SetFrequency(n)
                         PROVE  IInv'
<1>1. TypeOK'
  <2>1. UNCHANGED <<now, accounts, config, ticks, reports, enqueued, sent, rows, proc, claims, finished, faults>>
    BY DEF SetFrequency, worldVars, reportVars, mailVars, historyVars
  <2>2. LinksOK'
    BY <2>1, LinksKept DEF IInv, TypeOK
  <2>3. request' \in [interval : {x \in Intervals : ValidInterval(x)}, at : 0 .. now] /\ sets' \in 0 .. MaxSets
    BY ReportingAssumption DEF SetFrequency, IInv, TypeOK
  <2> QED
    BY <2>1, <2>2, <2>3 DEF IInv, TypeOK
<1>2. SavesCounted'
  BY ReportingAssumption DEF SetFrequency, IInv, SavesCounted, TypeOK, LinksOK, Config
<1> QED
  BY <1>1, <1>2, WorldKeepsClaims, WorldKeepsCycles
     DEF SetFrequency, IInv, worldVars, reportVars, mailVars, historyVars

LEMMA SetIntervalInv == ASSUME IInv, SetInterval
                        PROVE  IInv'
<1>1. request \in [interval : {n \in Intervals : ValidInterval(n)}, at : 0 .. now]
  BY DEF SetInterval, IInv, TypeOK, LinksOK
<1>2. /\ config' = [interval |-> request.interval, anchor |-> request.at, saves |-> config.saves + 1]
      /\ request' = NoRequest
  BY DEF SetInterval
<1>3. request.interval \in {0} \cup {n \in Intervals \cup {Default} : n >= MinInterval}
  BY <1>1 DEF ValidInterval
<1>4. request.at \in 0 .. MaxTime
  BY <1>1, ReportingAssumption DEF IInv, TypeOK, LinksOK
<1>5. config.saves \in Nat /\ config.saves + 1 <= sets /\ sets \in 0 .. MaxSets
  BY ReportingAssumption DEF SetInterval, IInv, SavesCounted, TypeOK, LinksOK, Config
<1>6. config' \in Config /\ config'.saves = config.saves + 1
  BY <1>2, <1>3, <1>4, <1>5, ReportingAssumption DEF Config
<1>7. TypeOK' /\ SavesCounted'
  BY <1>2, <1>5, <1>6, LinksKept
     DEF SetInterval, IInv, TypeOK, SavesCounted, worldVars, reportVars, mailVars, historyVars
<1>8. ClaimInv'
  <2>1. AnchorIsLast'
    BY <1>5, <1>6, Rows DEF SetInterval, IInv, ClaimInv, AnchorIsLast, ClaimRow, historyVars
  <2> QED
    BY <2>1 DEF SetInterval, IInv, ClaimInv, Spaced, Seen, historyVars
<1> QED
  BY <1>7, <1>8, WorldKeepsCycles
     DEF SetInterval, IInv, worldVars, reportVars, mailVars, historyVars

LEMMA BeatInv == ASSUME IInv, Beat
                 PROVE  IInv'
<1>1. TypeOK' /\ SavesCounted'
  BY LinksKept, ReportingAssumption
     DEF Beat, IInv, TypeOK, SavesCounted, worldVars, configVars, reportVars, mailVars, historyVars
<1> QED
  BY <1>1, WorldKeepsClaims, WorldKeepsCycles
     DEF Beat, IInv, worldVars, configVars, reportVars, mailVars, historyVars

-----------------------------------------------------------------------------
(* The due-check and the claim *)

\* The types after a step of a process that changes no row.
LEMMA MoveKeepsTypes == ASSUME TypeOK, SavesCounted, NEW p \in Proc, NEW l \in Local, Moved(p, l),
                               l.cycle \in 0 .. Len(claims), ticks' \in 0 .. MaxTicks,
                               faults' \in 0 .. MaxFaults, finished' \subseteq DOMAIN claims,
                               UNCHANGED <<worldVars, configVars, reportVars, mailVars, claims>>
                        PROVE  TypeOK' /\ SavesCounted'
<1> USE DEF worldVars, configVars, reportVars, mailVars
<1>1. \A q \in Proc : proc'[q].cycle \in 0 .. Len(claims)
  BY DEF Moved, TypeOK, LinksOK
<1>2. LinksOK'
  BY <1>1 DEF TypeOK, LinksOK
<1> QED
  BY <1>2 DEF TypeOK, SavesCounted, Moved

LEMMA TakeTickInv == ASSUME IInv, NEW p \in Proc, TakeTick(p)
                     PROVE  IInv'
<1> DEFINE l == [Idle EXCEPT !.pc = "check", !.at = now]
<1>1. l \in Local /\ l.pc = "check" /\ l.cycle = 0 /\ l.item = Idle.item
  BY IdleTyped DEF IInv, TypeOK, LinksOK, Local
<1>2. Moved(p, l)
  BY <1>1, GotoMoves DEF TakeTick, IInv
<1> HIDE DEF l
<1>3. ticks' \in 0 .. MaxTicks
  BY ReportingAssumption DEF TakeTick, IInv, TypeOK, LinksOK
<1>4. TypeOK' /\ SavesCounted'
  <2>1. /\ TypeOK /\ SavesCounted /\ l.cycle \in 0 .. Len(claims) /\ ticks' \in 0 .. MaxTicks
        /\ faults \in 0 .. MaxFaults /\ finished \subseteq DOMAIN claims
    BY <1>1, <1>3, Rows DEF IInv, TypeOK, LinksOK
  <2>2. UNCHANGED <<worldVars, configVars, reportVars, mailVars, claims, finished, faults>>
    BY DEF TakeTick, historyVars
  <2> QED
    BY <1>1, <1>2, <2>1, <2>2, MoveKeepsTypes
<1>5. ClaimInv' /\ CycleInv'
  BY <1>1, <1>2, MoveKeepsClaims, MoveKeepsCycles
     DEF TakeTick, IInv, worldVars, configVars, historyVars, Running, Gathering, Serving
<1> QED
  BY <1>4, <1>5 DEF IInv

LEMMA CutShortInv == ASSUME IInv, NEW p \in Proc, CutShort(p)
                     PROVE  IInv'
<1>1. Moved(p, Idle)
  BY IdleTyped, GotoMoves DEF CutShort, IInv
<1>2. faults' \in 0 .. MaxFaults
  BY ReportingAssumption DEF CutShort, IInv, TypeOK, LinksOK
<1>3. TypeOK' /\ SavesCounted'
  <2>1. /\ TypeOK /\ SavesCounted /\ Idle \in Local /\ Idle.cycle \in 0 .. Len(claims)
        /\ ticks \in 0 .. MaxTicks /\ finished \subseteq DOMAIN claims
    BY IdleTyped, Rows DEF IInv, TypeOK, LinksOK
  <2>2. UNCHANGED <<worldVars, configVars, ticks, reportVars, mailVars, claims, finished>>
    BY DEF CutShort, historyVars
  <2> QED
    BY <1>1, <1>2, <2>1, <2>2, MoveKeepsTypes
<1>4. ClaimInv' /\ CycleInv'
  BY <1>1, IdleTyped, MoveKeepsClaims, MoveKeepsCycles
     DEF CutShort, IInv, worldVars, configVars, historyVars, Running, Gathering, Serving
<1> QED
  BY <1>3, <1>4 DEF IInv

LEMMA CheckDueInv == ASSUME IInv, NEW p \in Proc, CheckDue(p)
                     PROVE  IInv'
<1> DEFINE l == [proc[p] EXCEPT !.pc = "claim", !.seen = config, !.after = Len(claims)]
<1>1. UNCHANGED <<worldVars, configVars, ticks, reportVars, mailVars, historyVars, faults>>
  BY DEF CheckDue
<1>2. CASE ~Due(config, proc[p].at)
  <2>1. Moved(p, Idle)
    BY <1>2, IdleTyped, GotoMoves DEF CheckDue, IInv
  <2>2. TypeOK' /\ SavesCounted'
    <3>1. TypeOK /\ SavesCounted /\ Idle \in Local /\ Idle.cycle \in 0 .. Len(claims)
      BY IdleTyped, Rows DEF IInv
    <3>2. ticks' \in 0 .. MaxTicks /\ faults' \in 0 .. MaxFaults /\ finished' \subseteq DOMAIN claims
      BY <1>1 DEF IInv, TypeOK, LinksOK, historyVars
    <3> QED
      BY <1>1, <2>1, <3>1, <3>2, MoveKeepsTypes DEF historyVars
  <2>3. ClaimInv' /\ CycleInv'
    BY <1>1, <2>1, IdleTyped, MoveKeepsClaims, MoveKeepsCycles
       DEF IInv, worldVars, configVars, historyVars, Running, Gathering, Serving
  <2> QED
    BY <2>2, <2>3 DEF IInv
<1>3. CASE Due(config, proc[p].at)
  <2>1. /\ l \in Local /\ l.pc = "claim" /\ l.cycle = proc[p].cycle /\ l.at = proc[p].at
        /\ l.seen = config /\ l.after = Len(claims) /\ l.item = proc[p].item
    BY Rows DEF IInv, TypeOK, LinksOK, Local
  <2>2. Moved(p, l)
    BY <1>3, <2>1, GotoMoves DEF CheckDue, IInv
  <2> HIDE DEF l
  <2>3. TypeOK' /\ SavesCounted'
    BY <1>1, <2>1, <2>2, Rows, MoveKeepsTypes DEF IInv, TypeOK, LinksOK, historyVars
  <2>4. CycleInv'
    <3>1. proc[p].item = Idle.item
      BY DEF CheckDue, At, IInv, CycleInv, Blank, Serving
    <3> QED
      BY <1>1, <2>1, <2>2, <3>1, MoveKeepsCycles
         DEF IInv, worldVars, historyVars, Running, Gathering, Serving
  <2>5. \A q \in Proc : Seen(q)'
    BY <1>1, <1>3, <2>1, <2>2, Rows DEF IInv, ClaimInv, AnchorIsLast, Seen, Moved, historyVars
  <2>6. ClaimInv'
    BY <1>1, <2>5 DEF IInv, ClaimInv, AnchorIsLast, Spaced, configVars, historyVars
  <2> QED
    BY <2>3, <2>4, <2>6 DEF IInv
<1> QED
  BY <1>2, <1>3

LEMMA ClaimStepInv == ASSUME IInv, NEW p \in Proc, Claim(p)
                      PROVE  IInv'
<1> DEFINE n == Len(claims) + 1
           l == [proc[p] EXCEPT !.pc = "users", !.cycle = n]
           c == Claimed(p)
<1>1. /\ proc[p] \in Local /\ proc[p].pc = "claim"
      /\ Len(claims) \in Nat /\ DOMAIN claims = 1 .. Len(claims)
  BY Rows, ProcTyped DEF Claim, At, IInv
<1>2. /\ l \in Local /\ l.pc = "users" /\ l.cycle = n /\ l.item = proc[p].item
  <2>1. n \in Nat
    BY <1>1
  <2> HIDE DEF n
  <2> QED
    BY <1>1, <2>1 DEF Local
<1>3. Moved(p, l)
  BY <1>2, GotoMoves DEF Claim, IInv
<1>4. /\ c \in ClaimRow /\ c.at = proc[p].at /\ c.seen = proc[p].seen /\ c.after = proc[p].after
      /\ c.saves = config.saves /\ c.known = accounts
  BY <1>1 DEF Claimed, ClaimRow, IInv, TypeOK, LinksOK, Local, Config
<1>5. /\ claims' = Append(claims, c)
      /\ UNCHANGED <<worldVars, request, sets, ticks, reportVars, mailVars, finished, faults>>
  BY DEF Claim
<1>6. /\ config' \in Config /\ config'.anchor = proc[p].at /\ config'.saves = config.saves
  BY <1>1 DEF Claim, IInv, TypeOK, LinksOK, Config, Local
<1> HIDE DEF l, c
<1>7. /\ claims' \in Seq(ClaimRow) /\ Len(claims') = n /\ DOMAIN claims' = 1 .. n
      /\ \A j \in DOMAIN claims : claims'[j] = claims[j]
      /\ claims'[n] = c
  BY <1>4, <1>5, Appended DEF IInv, TypeOK
<1> USE DEF worldVars, reportVars, mailVars
<1>8. TypeOK' /\ SavesCounted'
  <2>1. \A q \in Proc : proc'[q].cycle \in 0 .. n
    BY <1>1, <1>2, <1>3, ProcTyped DEF Moved, IInv
  <2>2. /\ \A i \in DOMAIN reports : reports[i].cycle \in DOMAIN claims'
        /\ finished \subseteq DOMAIN claims'
    BY <1>1, <1>7 DEF IInv, TypeOK, LinksOK
  <2>3. LinksOK'
    BY <1>5, <1>6, <1>7, <2>1, <2>2 DEF IInv, TypeOK, LinksOK
  <2> QED
    BY <1>3, <1>5, <1>6, <1>7, <2>3 DEF IInv, TypeOK, SavesCounted, Moved
<1>9. AnchorIsLast'
  <2>1. c.after \in Nat /\ c.after <= Len(claims) /\ config.saves \in Nat
    BY <1>1, <1>4 DEF IInv, ClaimInv, Seen, ClaimRow, TypeOK, LinksOK, Config
  <2>2. \A j \in 1 .. n : claims'[j].saves <= config'.saves /\ claims'[j].after < j
    BY <1>1, <1>4, <1>6, <1>7, <2>1 DEF IInv, ClaimInv, AnchorIsLast
  <2> QED
    BY <1>4, <1>6, <1>7, <2>2 DEF AnchorIsLast
<1>10. Spaced'
  <2>1. SUFFICES ASSUME NEW j \in 1 .. n, claims'[j].after > 0,
                        claims'[claims'[j].after].saves = claims'[j].seen.saves
                 PROVE  claims'[j].at >= claims'[claims'[j].after].at + claims'[j].seen.interval
    BY <1>7 DEF Spaced
  <2>2. CASE j = n
    <3>1. c.after \in DOMAIN claims
      BY <1>1, <1>4, <1>7, <2>1, <2>2 DEF IInv, ClaimInv, Seen, Local
    <3>2. claims'[c.after] = claims[c.after]
      BY <1>7, <3>1
    <3>3. Due(c.seen, c.at) /\ c.seen.anchor = claims[c.after].at
      <4>1. c.after > 0 /\ claims[c.after].saves = c.seen.saves
        BY <1>7, <2>1, <2>2, <3>2
      <4>2. Seen(p)
        BY DEF IInv, ClaimInv
      <4> QED
        BY <1>1, <1>4, <4>1, <4>2 DEF Seen
    <3>4. c.seen.anchor \in Nat /\ c.seen.interval \in Nat /\ c.at \in Nat
      BY <1>4, ConfigTyped DEF ClaimRow
    <3> QED
      BY <1>7, <2>2, <3>2, <3>3, <3>4 DEF Due
  <2>3. CASE j # n
    <3>1. j \in DOMAIN claims /\ claims[j].after < j /\ claims[j].after \in Nat
      BY <1>1, <2>3, Rows DEF IInv, ClaimInv, AnchorIsLast, ClaimRow
    <3>2. claims'[j] = claims[j] /\ claims[j].after \in DOMAIN claims
      BY <1>1, <1>7, <2>1, <3>1
    <3> QED
      BY <1>7, <2>1, <3>1, <3>2 DEF IInv, ClaimInv, Spaced
  <2> QED
    BY <2>2, <2>3
<1>11. \A q \in Proc : Seen(q)'
  <2>1. SUFFICES ASSUME NEW q \in Proc, q # p, proc[q].pc = "claim"
                 PROVE  Seen(q)'
    BY <1>2, <1>3 DEF Seen, Moved
  <2>2. Seen(q) /\ proc'[q] = proc[q] /\ proc[q] \in Local
    BY <1>3, <2>1 DEF IInv, ClaimInv, Moved, TypeOK
  <2>3. proc[q].after > 0 => claims'[proc[q].after] = claims[proc[q].after]
    BY <1>1, <1>7, <2>1, <2>2 DEF Seen, Local
  <2> QED
    BY <1>1, <1>7, <2>1, <2>2, <2>3 DEF Seen, Local
<1>12. CycleInv'
  <2>1. \A k, a, scope : Has(k, a, scope)' <=> Has(k, a, scope)
    BY <1>5 DEF Has, Of
  <2>2. Remembered'
    BY <1>1, <1>4, <1>5, <1>7 DEF IInv, CycleInv, Remembered
  <2>3. OneEach' /\ GlobalForAdmins'
    BY <1>5 DEF IInv, CycleInv, OneEach, SameReport, GlobalForAdmins
  <2>4. Complete'
    BY <1>5, <1>7, <2>1 DEF IInv, CycleInv, Complete, TypeOK, LinksOK
  <2>5. \A q \in Proc : q # p => proc'[q] = proc[q] /\ (proc[q].pc \in Running => proc[q].cycle \in DOMAIN claims)
    BY <1>3 DEF Moved, IInv, CycleInv, OwnCycle
  <2>6. n \notin finished /\ n \notin DOMAIN claims /\ \A i \in DOMAIN reports : reports[i].cycle # n
    BY <1>1 DEF IInv, TypeOK, LinksOK
  <2>7. ASSUME NEW q \in Proc, q # p
        PROVE  OwnCycle(q)' /\ Blank(q)' /\ Served(q)'
    <3>1. OwnCycle(q)'
      BY <1>1, <1>2, <1>3, <1>5, <1>7, <2>5, <2>6, <2>7 DEF IInv, CycleInv, OwnCycle, Moved
    <3>2. Blank(q)'
      BY <1>5, <2>5, <2>7 DEF IInv, CycleInv, Blank
    <3>3. Served(q)'
      BY <1>5, <1>7, <2>1, <2>5, <2>7 DEF IInv, CycleInv, Served, GlobalNext, Running, Serving
    <3> QED
      BY <3>1, <3>2, <3>3
  <2>8. OwnCycle(p)'
    BY <1>1, <1>2, <1>3, <1>5, <1>7, <2>5, <2>6 DEF OwnCycle, Moved
  <2>9. Blank(p)' /\ Served(p)'
    <3>1. proc[p].item = Idle.item
      BY <1>1 DEF IInv, CycleInv, Blank, Serving
    <3> QED
      BY <1>2, <1>3, <1>5, <2>6, <3>1 DEF Moved, Blank, Served, Serving
  <2> QED
    BY <2>2, <2>3, <2>4, <2>7, <2>8, <2>9 DEF CycleInv
<1> QED
  BY <1>8, <1>9, <1>10, <1>11, <1>12 DEF IInv, ClaimInv

-----------------------------------------------------------------------------
(* The cycle: what is gathered *)

\* A step of the gathering that reads into a local.
LEMMA GatherInv == ASSUME IInv, NEW p \in Proc, NEW l \in Local, Goto(p, l),
                          {proc[p].pc, l.pc} \subseteq Gathering,
                          l.cycle = proc[p].cycle, l.item = proc[p].item,
                          UNCHANGED <<worldVars, configVars, ticks, reportVars, mailVars, historyVars, faults>>
                   PROVE  IInv'
<1>1. Moved(p, l)
  BY GotoMoves DEF IInv
<1>2. TypeOK' /\ SavesCounted'
  <2>1. TypeOK /\ SavesCounted /\ l.cycle \in 0 .. Len(claims)
    BY ProcTyped DEF IInv
  <2>2. ticks' \in 0 .. MaxTicks /\ faults' \in 0 .. MaxFaults /\ finished' \subseteq DOMAIN claims
    BY DEF IInv, TypeOK, LinksOK, historyVars
  <2> QED
    BY <1>1, <2>1, <2>2, MoveKeepsTypes DEF historyVars
<1>3. ClaimInv'
  BY <1>1, MoveKeepsClaims DEF IInv, configVars, historyVars, Gathering
<1>4. CycleInv'
  BY <1>1, MoveKeepsCycles DEF IInv, worldVars
<1> QED
  BY <1>2, <1>3, <1>4 DEF IInv

LEMMA ReadUsersInv == ASSUME IInv, NEW p \in Proc, ReadUsers(p)
                      PROVE  IInv'
<1> DEFINE users == [a \in Account |-> rows[a]]
           l == [proc[p] EXCEPT !.pc = "global", !.users = users]
<1>1. users \in [Account -> Counts]
  BY ServerIsNobody DEF IInv, TypeOK, LinksOK
<1>2. proc[p] \in Local /\ proc[p].pc = "users"
  BY ProcTyped DEF ReadUsers, At, IInv
<1>3. Goto(p, l) /\ UNCHANGED <<worldVars, configVars, ticks, reportVars, mailVars, historyVars, faults>>
  BY DEF ReadUsers
<1> HIDE DEF users
<1>4. l \in Local /\ l.pc = "global" /\ l.cycle = proc[p].cycle /\ l.item = proc[p].item
  BY <1>1, <1>2 DEF Local
<1> QED
  BY <1>2, <1>3, <1>4, GatherInv DEF Gathering

LEMMA ReadGlobalInv == ASSUME IInv, NEW p \in Proc, ReadGlobal(p)
                       PROVE  IInv'
<1> DEFINE global == Sum(rows, Account)
           l == [proc[p] EXCEPT !.pc = "accounts", !.global = global]
<1>1. global \in Counts
  BY SumTyped DEF IInv, TypeOK, LinksOK
<1>2. proc[p] \in Local /\ proc[p].pc = "global"
  BY ProcTyped DEF ReadGlobal, At, IInv
<1>3. Goto(p, l) /\ UNCHANGED <<worldVars, configVars, ticks, reportVars, mailVars, historyVars, faults>>
  BY DEF ReadGlobal
<1> HIDE DEF global
<1>4. l \in Local /\ l.pc = "accounts" /\ l.cycle = proc[p].cycle /\ l.item = proc[p].item
  BY <1>1, <1>2 DEF Local
<1> QED
  BY <1>2, <1>3, <1>4, GatherInv DEF Gathering

-----------------------------------------------------------------------------
(* The cycle: what is served *)

\* A serving step of p: the rows of its cycle are its own, so what the others and the
\* finished cycles rely on stays as it is.
LEMMA ServeKeepsOthers ==
  ASSUME IInv, NEW p \in Proc, NEW l \in Local, Moved(p, l), proc[p].pc \in Running,
         l.pc \in Running => l.cycle = proc[p].cycle,
         UNCHANGED <<accounts, claims>>,
         finished \subseteq finished',
         \A k \in finished' : k \in finished \/ (k = proc[p].cycle /\ l.pc \notin Running),
         DOMAIN reports \subseteq DOMAIN reports', enqueued \subseteq enqueued',
         \A i \in DOMAIN reports : reports'[i] = reports[i],
         \A i \in DOMAIN reports' \ DOMAIN reports : reports'[i].cycle = proc[p].cycle
  PROVE  /\ \A k, a, scope : k # proc[p].cycle => (Has(k, a, scope)' <=> Has(k, a, scope))
         /\ Remembered'
         /\ \A q \in Proc : OwnCycle(q)'
         /\ \A q \in Proc \ {p} : Blank(q)' /\ Served(q)'
         /\ \A k \in finished : /\ \A a \in claims[k].known : Has(k, a, "personal")'
                                /\ \A a \in Admin : Has(k, a, "global")'
                                /\ \A i \in DOMAIN reports' : reports'[i].cycle = k => i \in enqueued'
<1> DEFINE c == proc[p].cycle
<1>1. OwnCycle(p) /\ c \in DOMAIN claims \ finished
  BY DEF IInv, CycleInv, OwnCycle
<1>2. ASSUME NEW k, k # c, NEW a, NEW scope
      PROVE  Has(k, a, scope)' <=> Has(k, a, scope)
  BY <1>2 DEF Has, Of
<1>3. Remembered'
  BY DEF IInv, CycleInv, Remembered
<1>4. ASSUME NEW q \in Proc
      PROVE  OwnCycle(q)'
  BY <1>1 DEF IInv, CycleInv, OwnCycle, Moved
<1>5. ASSUME NEW q \in Proc \ {p}
      PROVE  Blank(q)' /\ Served(q)'
  <2>1. proc'[q] = proc[q] /\ (proc[q].pc \in Running => proc[q].cycle # c)
    BY <1>1 DEF OwnCycle, Moved
  <2>2. Blank(q)'
    BY <2>1 DEF IInv, CycleInv, Blank, Running
  <2>3. Served(q)'
    <3>1. SUFFICES ASSUME proc[q].pc \in Serving
                   PROVE  Served(q)'
      BY <2>1 DEF Served
    <3>2. \A a, scope : Has(proc[q].cycle, a, scope)' <=> Has(proc[q].cycle, a, scope)
      BY <1>2, <2>1, <3>1 DEF Running
    <3>3. Served(q)
      BY DEF IInv, CycleInv
    <3> QED
      BY <2>1, <3>1, <3>2, <3>3 DEF Served, GlobalNext, Running
  <2> QED
    BY <2>2, <2>3
<1>6. ASSUME NEW k \in finished
      PROVE  /\ \A a \in claims[k].known : Has(k, a, "personal")'
             /\ \A a \in Admin : Has(k, a, "global")'
             /\ \A i \in DOMAIN reports' : reports'[i].cycle = k => i \in enqueued'
  BY <1>1, <1>2 DEF IInv, CycleInv, Complete
<1> QED
  BY <1>2, <1>3, <1>4, <1>5, <1>6

LEMMA ListAccountsInv == ASSUME IInv, NEW p \in Proc, ListAccounts(p)
                         PROVE  IInv'
<1> DEFINE l == [proc[p] EXCEPT !.pc = "next", !.todo = accounts]
           c == proc[p].cycle
<1>1. proc[p] \in Local /\ proc[p].pc = "accounts" /\ c \in 0 .. Len(claims) /\ accounts \subseteq Account
  BY ProcTyped DEF ListAccounts, At, IInv, TypeOK, LinksOK
<1>2. Goto(p, l) /\ UNCHANGED <<worldVars, configVars, ticks, reportVars, mailVars, historyVars, faults>>
  BY DEF ListAccounts
<1>3. l \in Local /\ l.pc = "next" /\ l.cycle = c /\ l.item = proc[p].item /\ l.todo = accounts
  BY <1>1 DEF Local
<1>4. Moved(p, l)
  BY <1>2, <1>3, GotoMoves DEF IInv
<1> HIDE DEF l
<1>5. TypeOK' /\ SavesCounted'
  <2>1. ticks' \in 0 .. MaxTicks /\ faults' \in 0 .. MaxFaults /\ finished' \subseteq DOMAIN claims
    BY <1>2 DEF IInv, TypeOK, LinksOK, historyVars
  <2> QED
    BY <1>1, <1>2, <1>3, <1>4, <2>1, MoveKeepsTypes DEF IInv, historyVars
<1>6. ClaimInv'
  BY <1>2, <1>3, <1>4, MoveKeepsClaims DEF IInv, configVars, historyVars
<1> USE DEF worldVars, reportVars, historyVars
<1>7. OwnCycle(p) /\ Blank(p) /\ c \in DOMAIN claims
  BY <1>1 DEF IInv, CycleInv, OwnCycle, Running, Gathering
<1>8. /\ Remembered' /\ \A q \in Proc : OwnCycle(q)'
      /\ \A q \in Proc \ {p} : Blank(q)' /\ Served(q)'
  BY <1>1, <1>2, <1>3, <1>4, ServeKeepsOthers DEF Running, Gathering
<1>9. Blank(p)' /\ Served(p)'
  <2>1. \A a, scope : ~Has(c, a, scope)'
    BY <1>1, <1>2, <1>3, <1>4, <1>7 DEF Moved, Blank, Gathering, Has, Of
  <2>2. claims[c].known \subseteq accounts
    BY <1>7 DEF IInv, CycleInv, Remembered
  <2> QED
    BY <1>1, <1>2, <1>3, <1>4, <1>7, <2>1, <2>2, IdleTyped, ServerIsNobody
       DEF Blank, Served, Moved, Serving, Gathering
<1>10. OneEach' /\ GlobalForAdmins' /\ Complete'
  BY <1>2 DEF IInv, CycleInv, OneEach, SameReport, GlobalForAdmins, Complete, Has, Of
<1> QED
  BY <1>5, <1>6, <1>8, <1>9, <1>10 DEF IInv, CycleInv

\* The report of the next item, which is there for the first time.
LEMMA CreateReportInv == ASSUME IInv, NEW p \in Proc, CreateReport(p)
                         PROVE  IInv'
<1>1. PICK item \in NextItems(proc[p]) : Create(p, item)
  BY DEF CreateReport
<1> DEFINE l == [proc[p] EXCEPT !.pc = "enqueue", !.item = item, !.todo = @ \ {item.to}]
           c == proc[p].cycle
           n == Len(reports) + 1
           row == [cycle |-> c, to |-> item.to, scope |-> item.scope, counts |-> CountsFor(proc[p], item)]
<1>2. /\ proc[p] \in Local /\ proc[p].pc = "next" /\ c \in Nat /\ c \in DOMAIN claims \ finished
      /\ Len(reports) \in Nat /\ DOMAIN reports = 1 .. Len(reports)
  BY Rows, ProcTyped DEF CreateReport, At, IInv, CycleInv, OwnCycle, Running, Serving, Local
<1>3. UNCHANGED <<worldVars, configVars, ticks, enqueued, mailVars, historyVars, faults>>
  BY DEF CreateReport
<1>4. \/ /\ item.scope = "global" /\ item.to \in Admin
         /\ proc[p].item = [to |-> item.to, scope |-> "personal"]
      \/ /\ item.scope = "personal" /\ item.to \in proc[p].todo
         /\ ~(proc[p].item.to \in Admin /\ proc[p].item.scope = "personal")
  BY <1>2 DEF NextItems, Local
<1>5. item \in [to : Account, scope : Scope]
  BY <1>2, ReportingAssumption DEF NextItems, Local, Scope
<1>6. /\ l \in Local /\ l.pc = "enqueue" /\ l.cycle = c /\ l.item = item
      /\ l.todo = proc[p].todo \ {item.to}
  BY <1>2, <1>5 DEF Local, Owner
<1>7. row \in ReportRow /\ row.cycle = c /\ row.to = item.to /\ row.scope = item.scope
  <2>1. CountsFor(proc[p], item) \in Counts
    BY <1>2, <1>5 DEF CountsFor, Local
  <2> QED
    BY <1>2, <1>5, <2>1 DEF ReportRow
<1>8. reports' = Append(reports, row) /\ Moved(p, l)
  BY <1>1, <1>6, GotoMoves DEF Create, IInv
<1> HIDE DEF l, row
<1>9. /\ reports' \in Seq(ReportRow) /\ DOMAIN reports' = 1 .. n
      /\ \A i \in DOMAIN reports : reports'[i] = reports[i]
      /\ reports'[n] = row
  BY <1>7, <1>8, Appended DEF IInv, TypeOK
<1>10. DOMAIN reports' = DOMAIN reports \cup {n} /\ n \notin DOMAIN reports
  BY <1>2, <1>9
<1> HIDE DEF n
<1> USE DEF worldVars, historyVars
<1>11. TypeOK' /\ SavesCounted'
  <2>1. ASSUME NEW q \in Proc
        PROVE  proc'[q].cycle \in 0 .. Len(claims)
    BY <1>6, <1>8, ProcTyped DEF Moved, IInv
  <2>2. \A i \in DOMAIN reports' : reports'[i].cycle \in DOMAIN claims
    BY <1>2, <1>5, <1>7, <1>9, <1>10 DEF IInv, TypeOK, LinksOK
  <2>3. LinksOK'
    BY <1>3, <1>10, <2>1, <2>2 DEF IInv, TypeOK, LinksOK, configVars, mailVars
  <2> QED
    BY <1>3, <1>8, <1>9, <2>3 DEF IInv, TypeOK, SavesCounted, Moved, configVars, mailVars
<1>12. ClaimInv'
  BY <1>3, <1>6, <1>8, MoveKeepsClaims DEF IInv, configVars
<1>13. /\ Remembered' /\ \A q \in Proc : OwnCycle(q)'
       /\ \A q \in Proc \ {p} : Blank(q)' /\ Served(q)'
       /\ Complete'
  <2>1. \A i \in DOMAIN reports' \ DOMAIN reports : reports'[i].cycle = c
    BY <1>7, <1>9, <1>10
  <2> QED
    BY <1>2, <1>3, <1>6, <1>8, <1>9, <1>10, <2>1, ServeKeepsOthers DEF Running, Serving, Complete
<1>14. ASSUME NEW k, k = c, NEW a, NEW scope
       PROVE  Has(k, a, scope)' <=> Has(c, a, scope) \/ (a = item.to /\ scope = item.scope)
  <2>1. CASE a = item.to /\ scope = item.scope
    <3>1. n \in DOMAIN reports' /\ reports'[n].cycle = k /\ reports'[n].to = a /\ reports'[n].scope = scope
      BY <1>7, <1>9, <1>10, <1>14, <2>1
    <3> QED
      BY <2>1, <3>1 DEF Has, Of
  <2>2. CASE ~(a = item.to /\ scope = item.scope)
    <3>1. \A i \in DOMAIN reports' : reports'[i].to = a /\ reports'[i].scope = scope => i \in DOMAIN reports
      BY <1>7, <1>9, <1>10, <2>2
    <3>2. Has(k, a, scope)' <=> Has(c, a, scope)
      BY <1>9, <1>10, <1>14, <3>1 DEF Has, Of
    <3> QED
      BY <2>2, <3>2
  <2> QED
    BY <2>1, <2>2
<1>16. Served(p) /\ ~Has(c, item.to, item.scope)
  <2>1. Served(p)
    BY DEF IInv, CycleInv
  <2>2. CASE item.scope = "personal"
    BY <1>2, <1>4, <2>1, <2>2 DEF Served, Serving
  <2>3. CASE item.scope = "global"
    <3>1. /\ item.to \in Admin /\ item.to \in Account
          /\ proc[p].item = [to |-> item.to, scope |-> "personal"]
      BY <1>4, <1>5, <2>3
    <3>2. Has(c, item.to, "personal")
      BY <1>2, <2>1, <3>1 DEF Served, Serving
    <3> QED
      BY <1>2, <2>1, <2>3, <3>1, <3>2 DEF Served, Serving, GlobalNext
  <2> QED
    BY <1>4, <2>1, <2>2, <2>3
<1>17. OneEach' /\ GlobalForAdmins'
  <2>1. OneEach'
    <3>1. SUFFICES ASSUME NEW i \in DOMAIN reports', NEW k \in DOMAIN reports', SameReport(i, k)'
                   PROVE  i = k
      BY DEF OneEach
    <3>2. ASSUME NEW j \in DOMAIN reports
          PROVE  ~(reports[j].cycle = c /\ reports[j].to = item.to /\ reports[j].scope = item.scope)
      BY <1>16 DEF Has, Of
    <3>3. CASE i \in DOMAIN reports /\ k \in DOMAIN reports
      BY <1>9, <3>1, <3>3 DEF IInv, CycleInv, OneEach, SameReport
    <3>4. CASE i = n
      BY <1>7, <1>9, <1>10, <3>1, <3>2, <3>4 DEF SameReport
    <3>5. CASE k = n
      BY <1>7, <1>9, <1>10, <3>1, <3>2, <3>5 DEF SameReport
    <3> QED
      BY <1>10, <3>3, <3>4, <3>5
  <2>2. GlobalForAdmins'
    BY <1>4, <1>7, <1>9, <1>10 DEF IInv, CycleInv, GlobalForAdmins
  <2> QED
    BY <2>1, <2>2
<1>18. Served(p)'
  <2>1. PICK k : k = c
    OBVIOUS
  <2>2. proc'[p] = l /\ l.cycle = k /\ UNCHANGED <<claims, enqueued>>
    BY <1>3, <1>6, <1>8, <2>1 DEF Moved
  <2>3. \A a, scope : Has(k, a, scope)' <=> Has(c, a, scope) \/ (a = item.to /\ scope = item.scope)
    BY <1>14, <2>1
  <2>4. \A a \in claims[k].known : a \in l.todo \/ Has(k, a, "personal")'
    BY <1>2, <1>4, <1>5, <1>6, <1>16, <2>1, <2>3 DEF Served, Serving
  <2>5. \A a \in l.todo : ~Has(k, a, "personal")' /\ ~Has(k, a, "global")'
    BY <1>2, <1>6, <1>16, <2>1, <2>3 DEF Served, Serving
  <2>6. Has(k, item.to, item.scope)'
    BY <2>3
  <2>7. ASSUME NEW a \in Admin, Has(k, a, "personal")'
        PROVE  Has(k, a, "global")' <=> item # [to |-> a, scope |-> "personal"]
    <3>1. Has(c, a, "personal") \/ (a = item.to /\ item.scope = "personal")
      BY <2>3, <2>7
    <3>2. Has(k, a, "global")' <=> Has(c, a, "global") \/ (a = item.to /\ item.scope = "global")
      BY <2>3
    <3>3. Has(c, a, "personal") => (Has(c, a, "global") <=> ~GlobalNext(p, a))
      BY <1>2, <1>16 DEF Served, Serving
    <3>4. CASE item.scope = "global"
      <4>1. a # item.to => ~GlobalNext(p, a)
        BY <1>4, <3>4 DEF GlobalNext
      <4> QED
        BY <3>1, <3>2, <3>3, <3>4, <4>1
    <3>5. CASE item.scope = "personal"
      <4>1. ~GlobalNext(p, a)
        BY <1>4, <3>5 DEF GlobalNext
      <4>2. item.to \in proc[p].todo /\ ~Has(c, item.to, "global")
        BY <1>2, <1>4, <1>16, <3>5 DEF Served, Serving
      <4>3. item = [to |-> a, scope |-> "personal"] <=> a = item.to
        BY <1>5, <3>5
      <4> QED
        BY <3>1, <3>2, <3>3, <3>5, <4>1, <4>2, <4>3
    <3> QED
      BY <1>4, <3>4, <3>5
  <2>8. ASSUME NEW i \in DOMAIN reports', reports'[i].cycle = k
        PROVE  i \in enqueued \/ (reports'[i].to = item.to /\ reports'[i].scope = item.scope)
    BY <1>2, <1>7, <1>9, <1>10, <1>16, <2>1, <2>8 DEF Served, Serving
  <2> QED
    BY <1>6, <2>2, <2>4, <2>5, <2>6, <2>7, <2>8 DEF Served, GlobalNext
<1>19. Blank(p)'
  BY <1>6, <1>8 DEF Moved, Blank, Serving, Gathering
<1> QED
  BY <1>11, <1>12, <1>13, <1>17, <1>18, <1>19 DEF IInv, CycleInv

LEMMA EnqueueDeliverInv == ASSUME IInv, NEW p \in Proc, EnqueueDeliver(p)
                           PROVE  IInv'
<1> DEFINE l == [proc[p] EXCEPT !.pc = "next"]
           new == {i \in DOMAIN reports : /\ reports[i].cycle = proc[p].cycle
                                          /\ reports[i].to = proc[p].item.to
                                          /\ reports[i].scope = proc[p].item.scope}
<1>1. proc[p] \in Local /\ proc[p].pc = "enqueue" /\ proc[p].cycle \in 0 .. Len(claims)
  BY ProcTyped DEF EnqueueDeliver, At, IInv
<1>2. /\ l \in Local /\ l.pc = "next" /\ l.cycle = proc[p].cycle /\ l.item = proc[p].item
      /\ l.todo = proc[p].todo
  BY <1>1 DEF Local
<1>3. /\ Goto(p, l) /\ enqueued' = enqueued \cup new
      /\ UNCHANGED <<worldVars, configVars, ticks, reports, mailVars, historyVars, faults>>
  BY DEF EnqueueDeliver
<1>4. Moved(p, l)
  BY <1>2, <1>3, GotoMoves DEF IInv
<1> HIDE DEF l
<1> USE DEF worldVars, historyVars, mailVars
<1>5. TypeOK' /\ SavesCounted'
  <2>1. /\ enqueued' \subseteq DOMAIN reports /\ enqueued \subseteq enqueued'
    BY <1>3 DEF IInv, TypeOK, LinksOK
  <2>2. IsFiniteSet(enqueued') /\ Cardinality(enqueued') \in Nat /\ Cardinality(enqueued) <= Cardinality(enqueued')
    <3>1. IsFiniteSet(1 .. Len(reports)) /\ enqueued' \subseteq 1 .. Len(reports)
      BY <2>1, Rows, FS_Interval DEF IInv
    <3> QED
      BY <2>1, <3>1, FS_Subset, FS_CardinalityType
  <2>3. sent' \in 0 .. Cardinality(enqueued')
    BY <1>3, <2>2, EnqueuedFinite DEF IInv, TypeOK, LinksOK
  <2>4. \A q \in Proc : proc'[q].cycle \in 0 .. Len(claims)
    BY <1>1, <1>2, <1>4, ProcTyped DEF Moved, IInv
  <2>5. LinksOK'
    BY <1>3, <2>1, <2>3, <2>4 DEF IInv, TypeOK, LinksOK, configVars
  <2> QED
    BY <1>3, <1>4, <2>5 DEF IInv, TypeOK, SavesCounted, Moved, configVars
<1>6. ClaimInv'
  BY <1>2, <1>3, <1>4, MoveKeepsClaims DEF IInv, configVars
<1>7. /\ Remembered' /\ \A q \in Proc : OwnCycle(q)'
      /\ \A q \in Proc \ {p} : Blank(q)' /\ Served(q)'
      /\ Complete'
  BY <1>1, <1>2, <1>3, <1>4, ServeKeepsOthers DEF Running, Serving, Complete
<1>8. OneEach' /\ GlobalForAdmins'
  BY <1>3 DEF IInv, CycleInv, OneEach, SameReport, GlobalForAdmins
<1>9. \A k, a, scope : Has(k, a, scope)' <=> Has(k, a, scope)
  BY <1>3 DEF Has, Of
<1>10. Blank(p)' /\ Served(p)'
  <2>1. Served(p)
    BY DEF IInv, CycleInv
  <2>2. proc'[p] = l
    BY <1>4 DEF Moved
  <2>3. \A i \in DOMAIN reports' : reports'[i].cycle = l.cycle => i \in enqueued'
    BY <1>1, <1>2, <1>3, <2>1 DEF Served, Serving
  <2> QED
    BY <1>1, <1>2, <1>3, <1>9, <2>1, <2>2, <2>3 DEF Blank, Served, GlobalNext, Serving, Gathering
<1> QED
  BY <1>5, <1>6, <1>7, <1>8, <1>10 DEF IInv, CycleInv

LEMMA FinishCycleInv == ASSUME IInv, NEW p \in Proc, FinishCycle(p)
                        PROVE  IInv'
<1> DEFINE c == proc[p].cycle
<1>1. /\ proc[p] \in Local /\ proc[p].pc = "next" /\ NextItems(proc[p]) = {}
      /\ c \in DOMAIN claims \ finished
  BY ProcTyped DEF FinishCycle, At, IInv, CycleInv, OwnCycle, Running, Serving
<1>2. /\ Goto(p, Idle) /\ finished' = finished \cup {c}
      /\ UNCHANGED <<worldVars, configVars, ticks, reportVars, mailVars, claims, faults>>
  BY DEF FinishCycle
<1>3. Moved(p, Idle)
  BY <1>2, IdleTyped, GotoMoves DEF IInv
<1>4. TypeOK' /\ SavesCounted'
  <2>1. TypeOK /\ SavesCounted /\ Idle \in Local /\ Idle.cycle \in 0 .. Len(claims)
    BY IdleTyped, Rows DEF IInv
  <2>2. ticks' \in 0 .. MaxTicks /\ faults' \in 0 .. MaxFaults /\ finished' \subseteq DOMAIN claims
    BY <1>1, <1>2 DEF IInv, TypeOK, LinksOK
  <2> QED
    BY <1>2, <1>3, <2>1, <2>2, MoveKeepsTypes
<1>5. ClaimInv'
  BY <1>2, <1>3, IdleTyped, MoveKeepsClaims DEF IInv, configVars
<1> USE DEF worldVars, reportVars
<1>6. /\ Remembered' /\ \A q \in Proc : OwnCycle(q)'
      /\ \A q \in Proc \ {p} : Blank(q)' /\ Served(q)'
  BY <1>1, <1>2, <1>3, IdleTyped, ServeKeepsOthers DEF Running, Serving, Gathering
<1>7. Blank(p)' /\ Served(p)'
  BY <1>3, IdleTyped DEF Moved, Blank, Served, Serving, Gathering
<1>8. OneEach' /\ GlobalForAdmins'
  BY <1>2 DEF IInv, CycleInv, OneEach, SameReport, GlobalForAdmins
<1>9. \A k, a, scope : Has(k, a, scope)' <=> Has(k, a, scope)
  BY <1>2 DEF Has, Of
<1>10. /\ \A a \in claims[c].known : Has(c, a, "personal")
       /\ \A a \in Admin : Has(c, a, "global")
       /\ \A i \in DOMAIN reports : reports[i].cycle = c => i \in enqueued
  <2>1. Served(p) /\ Admin \subseteq claims[c].known
    BY <1>1 DEF IInv, CycleInv, Remembered
  <2>2. proc[p].todo = {} /\ ~(proc[p].item.to \in Admin /\ proc[p].item.scope = "personal")
    BY <1>1 DEF NextItems
  <2>3. \A a \in Admin : ~GlobalNext(p, a)
    BY <2>2 DEF GlobalNext
  <2> QED
    BY <1>1, <2>1, <2>2, <2>3 DEF Served, Serving
<1>11. Complete'
  BY <1>2, <1>9, <1>10 DEF IInv, CycleInv, Complete
<1> QED
  BY <1>4, <1>5, <1>6, <1>7, <1>8, <1>11 DEF IInv, CycleInv

-----------------------------------------------------------------------------
(* What is counted *)

RowsGrow == \A o \in Owner, h \in Hour : rows[o][h] <= rows'[o][h]

\* A claim has kept the rows as they were, and rows are only added.
Based(c) == \A o \in Owner, h \in Hour : claims[c].base[o][h] <= rows[o][h]

\* Whoever has read the counts of a cycle has read them after its claim.
Carried(p) ==
  LET l == proc[p]
      b == claims[l.cycle].base
  IN /\ l.pc \in Running \ {"users"} =>
          \A a \in Account, h \in Hour : b[a][h] <= l.users[a][h] /\ l.users[a][h] <= rows[a][h]
     /\ l.pc \in Running \ {"users", "global"} =>
          \A h \in Hour : Sum(b, Account)[h] <= l.global[h] /\ l.global[h] <= Sum(rows, Account)[h]

Counted(i) ==
  LET r == reports[i]
      b == claims[r.cycle].base
  IN \A h \in Hour :
       /\ r.scope = "global" => Sum(b, Account)[h] <= r.counts[h] /\ r.counts[h] <= Sum(rows, Account)[h]
       /\ r.scope = "personal" => b[r.to][h] <= r.counts[h] /\ r.counts[h] <= rows[r.to][h]

CountInv == /\ \A c \in DOMAIN claims : Based(c)
            /\ \A p \in Proc : Carried(p)
            /\ \A i \in DOMAIN reports : Counted(i)

LEMMA CountsTyped == ASSUME NEW r \in [Owner -> Counts], NEW a \in Account, NEW h \in Hour
                     PROVE  r[a][h] \in Nat /\ Sum(r, Account)[h] \in Nat
BY SumTyped DEF Owner, Counts

LEMMA SumsGrow == ASSUME NEW r \in [Owner -> Counts], NEW s \in [Owner -> Counts], NEW h \in Hour,
                         \A a \in Account : r[a][h] <= s[a][h]
                  PROVE  Sum(r, Account)[h] <= Sum(s, Account)[h]
<1>1. \A a \in Account : r[a][h] \in Nat /\ s[a][h] \in Nat /\ r[a][h] <= s[a][h]
  BY CountsTyped
<1> QED
  BY <1>1, SumGrows, ReportingAssumption

LEMMA BasedStays == ASSUME TypeOK, rows' \in [Owner -> Counts], RowsGrow,
                           NEW c \in DOMAIN claims, claims'[c] = claims[c], Based(c)
                    PROVE  Based(c)'
<1>1. SUFFICES ASSUME NEW o \in Owner, NEW h \in Hour
               PROVE  claims[c].base[o][h] <= rows'[o][h]
  BY DEF Based
<1>2. claims[c].base \in [Owner -> Counts] /\ rows \in [Owner -> Counts]
  BY Rows DEF ClaimRow, TypeOK, LinksOK
<1>3. claims[c].base[o][h] \in Nat /\ rows[o][h] \in Nat /\ rows'[o][h] \in Nat
  BY <1>2 DEF Counts
<1> QED
  BY <1>3 DEF Based, RowsGrow

LEMMA CarriedStays == ASSUME TypeOK, rows' \in [Owner -> Counts], RowsGrow, NEW p \in Proc, Carried(p),
                             proc'[p].pc \in Running =>
                               /\ proc[p].pc \in Running
                               /\ proc[p].pc = "users" => proc'[p].pc = "users"
                               /\ proc[p].pc = "global" => proc'[p].pc = "global"
                               /\ proc'[p].cycle = proc[p].cycle
                               /\ proc'[p].users = proc[p].users /\ proc'[p].global = proc[p].global
                               /\ claims'[proc[p].cycle] = claims[proc[p].cycle]
                      PROVE  Carried(p)'
<1>1. rows \in [Owner -> Counts] /\ proc[p].users \in [Account -> Counts] /\ proc[p].global \in Counts
  BY ProcTyped DEF Local, TypeOK, LinksOK
<1>2. ASSUME proc'[p].pc \in Running \ {"users"}, NEW a \in Account, NEW h \in Hour
      PROVE  /\ claims'[proc'[p].cycle].base[a][h] <= proc'[p].users[a][h]
             /\ proc'[p].users[a][h] <= rows'[a][h]
  <2>1. /\ claims[proc[p].cycle].base[a][h] <= proc[p].users[a][h]
        /\ proc[p].users[a][h] <= rows[a][h]
    BY <1>2 DEF Carried
  <2>2. proc[p].users[a][h] \in Nat /\ rows[a][h] \in Nat /\ rows'[a][h] \in Nat /\ rows[a][h] <= rows'[a][h]
    BY <1>1, CountsTyped DEF RowsGrow, Owner, Counts
  <2> QED
    BY <1>2, <2>1, <2>2
<1>3. ASSUME proc'[p].pc \in Running \ {"users", "global"}, NEW h \in Hour
      PROVE  /\ Sum(claims'[proc'[p].cycle].base, Account)[h] <= proc'[p].global[h]
             /\ proc'[p].global[h] <= Sum(rows', Account)[h]
  <2>1. /\ Sum(claims[proc[p].cycle].base, Account)[h] <= proc[p].global[h]
        /\ proc[p].global[h] <= Sum(rows, Account)[h]
    BY <1>3 DEF Carried
  <2>2. proc[p].global[h] \in Nat /\ Sum(rows, Account)[h] \in Nat /\ Sum(rows', Account)[h] \in Nat
    BY <1>1, SumTyped DEF Counts
  <2>3. Sum(rows, Account)[h] <= Sum(rows', Account)[h]
    BY <1>1, SumsGrow DEF RowsGrow, Owner
  <2>4. claims'[proc'[p].cycle] = claims[proc[p].cycle] /\ proc'[p].global = proc[p].global
    BY <1>3
  <2> QED
    BY <2>1, <2>2, <2>3, <2>4
<1> QED
  BY <1>2, <1>3 DEF Carried

LEMMA CountedStays == ASSUME TypeOK, rows' \in [Owner -> Counts], RowsGrow,
                             NEW i \in DOMAIN reports, reports'[i] = reports[i],
                             claims'[reports[i].cycle] = claims[reports[i].cycle], Counted(i)
                      PROVE  Counted(i)'
<1> DEFINE r == reports[i]
           b == claims[r.cycle].base
<1>1. rows \in [Owner -> Counts] /\ r.counts \in Counts /\ r.to \in Account
  BY Rows DEF ReportRow, TypeOK, LinksOK
<1>2. ASSUME NEW h \in Hour
      PROVE  /\ r.scope = "global" => Sum(b, Account)[h] <= r.counts[h] /\ r.counts[h] <= Sum(rows', Account)[h]
             /\ r.scope = "personal" => b[r.to][h] <= r.counts[h] /\ r.counts[h] <= rows'[r.to][h]
  <2>1. /\ r.scope = "global" => Sum(b, Account)[h] <= r.counts[h] /\ r.counts[h] <= Sum(rows, Account)[h]
        /\ r.scope = "personal" => b[r.to][h] <= r.counts[h] /\ r.counts[h] <= rows[r.to][h]
    BY DEF Counted
  <2>2. /\ r.counts[h] \in Nat /\ Sum(rows, Account)[h] \in Nat /\ Sum(rows', Account)[h] \in Nat
        /\ rows[r.to][h] \in Nat /\ rows'[r.to][h] \in Nat
    BY <1>1, CountsTyped DEF Counts
  <2>3. Sum(rows, Account)[h] <= Sum(rows', Account)[h] /\ rows[r.to][h] <= rows'[r.to][h]
    BY <1>1, SumsGrow DEF RowsGrow, Owner
  <2> QED
    BY <2>1, <2>2, <2>3
<1> QED
  BY <1>2 DEF Counted

\* A step that adds rows, of sends or of claims, and moves processes on with what they have.
LEMMA OthersCount == ASSUME IInv, IInv', CountInv, RowsGrow,
                            NEW P \in SUBSET Proc,
                            DOMAIN claims \subseteq DOMAIN claims', \A c \in DOMAIN claims : claims'[c] = claims[c],
                            \A i \in DOMAIN reports : i \in DOMAIN reports' => reports'[i] = reports[i],
                            \A p \in P : proc'[p].pc \in Running =>
                               /\ proc[p].pc \in Running
                               /\ proc[p].pc = "users" => proc'[p].pc = "users"
                               /\ proc[p].pc = "global" => proc'[p].pc = "global"
                               /\ proc'[p].cycle = proc[p].cycle
                               /\ proc'[p].users = proc[p].users /\ proc'[p].global = proc[p].global
                     PROVE  /\ \A c \in DOMAIN claims : Based(c)'
                            /\ \A p \in P : Carried(p)'
                            /\ \A i \in DOMAIN reports : i \in DOMAIN reports' => Counted(i)'
<1>1. TypeOK /\ rows' \in [Owner -> Counts]
  BY DEF IInv, TypeOK, LinksOK
<1>2. \A c \in DOMAIN claims : Based(c)'
  BY <1>1, BasedStays DEF CountInv
<1>3. ASSUME NEW p \in P
      PROVE  Carried(p)'
  <2>1. proc[p].pc \in Running => proc[p].cycle \in DOMAIN claims
    BY DEF IInv, CycleInv, OwnCycle
  <2>2. proc[p].pc \in Running => claims'[proc[p].cycle] = claims[proc[p].cycle]
    BY <2>1
  <2> QED
    BY <1>1, <2>2, CarriedStays DEF CountInv
<1>4. ASSUME NEW i \in DOMAIN reports, i \in DOMAIN reports'
      PROVE  Counted(i)'
  <2>1. reports[i].cycle \in DOMAIN claims
    BY DEF IInv, TypeOK, LinksOK
  <2> QED
    BY <1>1, <1>4, <2>1, CountedStays DEF CountInv
<1> QED
  BY <1>2, <1>3, <1>4

\* All but process p are where they were, and claims are only added.
LEMMA OneMoves == ASSUME IInv, IInv', CountInv, UNCHANGED <<reports, rows>>,
                         DOMAIN claims \subseteq DOMAIN claims', \A c \in DOMAIN claims : claims'[c] = claims[c],
                         NEW p \in Proc, NEW l, Moved(p, l)
                  PROVE  /\ \A c \in DOMAIN claims : Based(c)'
                         /\ \A q \in Proc : q # p => Carried(q)'
                         /\ \A i \in DOMAIN reports : Counted(i)'
<1>1. RowsGrow
  BY DEF RowsGrow, IInv, TypeOK, LinksOK, Counts
<1>2. PICK P : P = Proc \ {p}
  OBVIOUS
<1>3. P \in SUBSET Proc /\ \A q \in P : proc'[q] = proc[q]
  BY <1>2 DEF Moved
<1>4. /\ \A c \in DOMAIN claims : Based(c)'
      /\ \A q \in P : Carried(q)'
      /\ \A i \in DOMAIN reports : i \in DOMAIN reports' => Counted(i)'
  BY <1>1, <1>3, OthersCount
<1> QED
  BY <1>2, <1>4

LEMMA NextCount == ASSUME IInv, IInv', CountInv, [Next]_vars
                   PROVE  CountInv'
<1> USE DEF worldVars, configVars, reportVars, mailVars, historyVars
<1>0. rows \in [Owner -> Counts] /\ (UNCHANGED rows => RowsGrow)
  BY DEF IInv, TypeOK, LinksOK, RowsGrow, Counts
<1>1. ASSUME UNCHANGED <<claims, reports, proc>>, RowsGrow
      PROVE  CountInv'
  <2>1. /\ \A c \in DOMAIN claims : Based(c)'
        /\ \A p \in Proc : Carried(p)'
        /\ \A i \in DOMAIN reports : i \in DOMAIN reports' => Counted(i)'
    BY <1>1, OthersCount
  <2> QED
    BY <1>1, <2>1 DEF CountInv
<1>2. ASSUME NEW a \in Account, NEW h \in Hour, UserSends(a, h)
      PROVE  CountInv'
  <2>1. RowsGrow
    <3>1. rows' = [rows EXCEPT ![a][h] = @ + 1] /\ a \in Owner
      BY <1>2 DEF UserSends, Owner
    <3> QED
      BY <1>0, <3>1 DEF RowsGrow, Counts
  <2> QED
    BY <1>1, <1>2, <2>1 DEF UserSends
<1>3. ASSUME NEW h \in Hour, ReportSent(h)
      PROVE  CountInv'
  <2>1. RowsGrow
    <3>1. rows' = [rows EXCEPT ![Server][h] = @ + 1] /\ Server \in Owner
      BY <1>3 DEF ReportSent, Owner
    <3> QED
      BY <1>0, <3>1 DEF RowsGrow, Counts
  <2> QED
    BY <1>1, <1>3, <2>1 DEF ReportSent
\* One process moves on with what it has, or leaves its cycle.
<1>4. ASSUME NEW p \in Proc, NEW l, Moved(p, l), UNCHANGED <<claims, reports, rows>>,
             l.pc \in Running => /\ proc[p].pc \in Running
                                 /\ proc[p].pc = "users" => l.pc = "users"
                                 /\ proc[p].pc = "global" => l.pc = "global"
                                 /\ l.cycle = proc[p].cycle
                                 /\ l.users = proc[p].users /\ l.global = proc[p].global
      PROVE  CountInv'
  <2>1. /\ \A c \in DOMAIN claims : Based(c)'
        /\ \A q \in Proc : Carried(q)'
        /\ \A i \in DOMAIN reports : i \in DOMAIN reports' => Counted(i)'
    <3>1. \A q \in Proc : proc'[q] = proc[q] \/ (q = p /\ proc'[q] = l)
      BY <1>4 DEF Moved
    <3> QED
      BY <1>0, <1>4, <3>1, OthersCount
  <2> QED
    BY <1>4, <2>1 DEF CountInv
<1>5. ASSUME NEW p \in Proc, NEW l, Goto(p, l)
      PROVE  Moved(p, l) /\ l \in Local
  BY <1>5 DEF Goto, Moved, IInv, TypeOK
<1>6. ASSUME NEW p \in Proc, TakeTick(p) \/ CheckDue(p) \/ FinishCycle(p) \/ CutShort(p)
      PROVE  CountInv'
  <2>1. UNCHANGED <<claims, reports, rows>>
    BY <1>6 DEF TakeTick, CheckDue, FinishCycle, CutShort
  <2>2. PICK l : Goto(p, l) /\ l.pc \notin Running
    <3>1. CASE TakeTick(p)
      <4>1. [Idle EXCEPT !.pc = "check", !.at = now].pc = "check"
        BY DEF Idle
      <4> QED
        BY <3>1, <4>1 DEF TakeTick, Running, Gathering, Serving
    <3>2. CASE FinishCycle(p) \/ CutShort(p)
      BY <3>2, IdleTyped DEF FinishCycle, CutShort, Running, Gathering, Serving
    <3>3. CASE CheckDue(p)
      <4>1. [proc[p] EXCEPT !.pc = "claim", !.seen = config, !.after = Len(claims)].pc = "claim"
        BY ProcTyped DEF IInv, Local
      <4>2. Goto(p, Idle) \/ Goto(p, [proc[p] EXCEPT !.pc = "claim", !.seen = config, !.after = Len(claims)])
        BY <3>3 DEF CheckDue
      <4> QED
        BY <4>1, <4>2, IdleTyped DEF Running, Gathering, Serving
    <3> QED
      BY <1>6, <3>1, <3>2, <3>3
  <2> QED
    BY <1>4, <1>5, <2>1, <2>2
<1>7. ASSUME NEW p \in Proc, ListAccounts(p) \/ EnqueueDeliver(p)
      PROVE  CountInv'
  <2>1. /\ UNCHANGED <<claims, reports, rows>> /\ proc[p] \in Local
        /\ proc[p].pc \in {"accounts", "enqueue"}
    BY <1>7, ProcTyped DEF ListAccounts, EnqueueDeliver, At, IInv
  <2>2. PICK todo : Goto(p, [proc[p] EXCEPT !.pc = "next", !.todo = todo])
    <3>1. proc[p] = [proc[p] EXCEPT !.todo = proc[p].todo]
      BY <2>1 DEF Local
    <3>2. [proc[p] EXCEPT !.pc = "next"] = [proc[p] EXCEPT !.pc = "next", !.todo = proc[p].todo]
      BY <2>1 DEF Local
    <3> QED
      BY <1>7, <3>2 DEF ListAccounts, EnqueueDeliver
  <2> DEFINE l == [proc[p] EXCEPT !.pc = "next", !.todo = todo]
  <2>3. l.pc = "next" /\ l.cycle = proc[p].cycle /\ l.users = proc[p].users /\ l.global = proc[p].global
    BY <2>1 DEF Local
  <2>4. Goto(p, l)
    BY <2>2
  <2> HIDE DEF l
  <2> QED
    BY <1>4, <1>5, <2>1, <2>3, <2>4 DEF Running, Gathering, Serving
<1>8. ASSUME NEW p \in Proc, ReadUsers(p)
      PROVE  CountInv'
  <2> DEFINE u == [a \in Account |-> rows[a]]
             l == [proc[p] EXCEPT !.pc = "global", !.users = u]
  <2>1. /\ UNCHANGED <<claims, reports, rows>> /\ proc[p] \in Local /\ proc[p].pc = "users" /\ Goto(p, l)
    BY <1>8, ProcTyped DEF ReadUsers, At, IInv
  <2>2. l.pc = "global" /\ l.cycle = proc[p].cycle /\ l.users = u
    BY <2>1 DEF Local
  <2> HIDE DEF l
  <2>3. Moved(p, l)
    BY <1>5, <2>1
  <2>4. /\ \A c \in DOMAIN claims : Based(c)'
        /\ \A q \in Proc : q # p => Carried(q)'
        /\ \A i \in DOMAIN reports : Counted(i)'
    BY <2>1, <2>3, OneMoves
  <2>5. Carried(p)'
    <3>1. proc'[p] = l /\ proc[p].cycle \in DOMAIN claims
      BY <2>1, <2>3 DEF Moved, IInv, CycleInv, OwnCycle, Running, Gathering
    <3>2. ASSUME NEW a \in Account, NEW h \in Hour
          PROVE  /\ claims[proc[p].cycle].base[a][h] <= u[a][h]
                 /\ u[a][h] <= rows[a][h]
      <4>1. Based(proc[p].cycle) /\ rows[a][h] \in Nat
        BY <1>0, <3>1, CountsTyped DEF CountInv
      <4> QED
        BY <4>1 DEF Based, Owner
    <3> HIDE DEF u
    <3>3. rows' = rows /\ claims' = claims
      BY <2>1
    <3> QED
      BY <2>2, <3>1, <3>2, <3>3 DEF Carried
  <2> QED
    BY <2>1, <2>4, <2>5 DEF CountInv
<1>9. ASSUME NEW p \in Proc, ReadGlobal(p)
      PROVE  CountInv'
  <2> DEFINE g == Sum(rows, Account)
             l == [proc[p] EXCEPT !.pc = "accounts", !.global = g]
  <2>1. /\ UNCHANGED <<claims, reports, rows>> /\ proc[p] \in Local /\ proc[p].pc = "global" /\ Goto(p, l)
    BY <1>9, ProcTyped DEF ReadGlobal, At, IInv
  <2>2. l.pc = "accounts" /\ l.cycle = proc[p].cycle /\ l.users = proc[p].users /\ l.global = g
    BY <2>1 DEF Local
  <2> HIDE DEF l
  <2>3. Moved(p, l)
    BY <1>5, <2>1
  <2>4. /\ \A c \in DOMAIN claims : Based(c)'
        /\ \A q \in Proc : q # p => Carried(q)'
        /\ \A i \in DOMAIN reports : Counted(i)'
    BY <2>1, <2>3, OneMoves
  <2>5. Carried(p)'
    <3>1. proc'[p] = l /\ proc[p].cycle \in DOMAIN claims /\ Carried(p)
      BY <2>1, <2>3 DEF Moved, IInv, CycleInv, OwnCycle, Running, Gathering, CountInv
    <3>2. claims[proc[p].cycle].base \in [Owner -> Counts]
      BY <3>1, Rows DEF IInv, ClaimRow
    <3>3. \A h \in Hour : Sum(claims[proc[p].cycle].base, Account)[h] <= g[h] /\ g[h] <= g[h]
      <4>1. \A a \in Account, h \in Hour : claims[proc[p].cycle].base[a][h] <= rows[a][h]
        BY <3>1 DEF CountInv, Based, Owner
      <4>2. \A h \in Hour : g[h] \in Nat
        BY <1>0, SumTyped DEF Counts
      <4> QED
        BY <1>0, <3>2, <4>1, <4>2, SumsGrow
    <3>4. \A a \in Account, h \in Hour : /\ claims[proc[p].cycle].base[a][h] <= proc[p].users[a][h]
                                         /\ proc[p].users[a][h] <= rows[a][h]
      BY <2>1, <3>1 DEF Carried, Running, Gathering
    <3> HIDE DEF g
    <3>5. rows' = rows /\ claims' = claims /\ g = Sum(rows, Account)
      BY <2>1 DEF g
    <3> QED
      BY <2>2, <3>1, <3>3, <3>4, <3>5 DEF Carried
  <2> QED
    BY <2>1, <2>4, <2>5 DEF CountInv
<1>10. ASSUME NEW p \in Proc, Claim(p)
       PROVE  CountInv'
  <2>0. PICK n : n = Len(claims) + 1
    OBVIOUS
  <2> DEFINE l == [proc[p] EXCEPT !.pc = "users", !.cycle = n]
             c == Claimed(p)
  <2>1. /\ UNCHANGED <<reports, rows>> /\ proc[p] \in Local /\ Goto(p, l) /\ claims' = Append(claims, c)
    BY <1>10, <2>0, ProcTyped DEF Claim, At, IInv
  <2>2. l.pc = "users" /\ c.base = rows
    BY <2>1 DEF Local, Claimed
  <2> HIDE DEF l, c
  <2>3. Moved(p, l)
    BY <1>5, <2>1
  <2>4. /\ DOMAIN claims' = DOMAIN claims \cup {n} /\ claims'[n] = c
        /\ \A k \in DOMAIN claims : claims'[k] = claims[k]
    BY <2>0, <2>1 DEF IInv, TypeOK
  <2>5. /\ \A k \in DOMAIN claims : Based(k)'
        /\ \A q \in Proc : Carried(q)'
        /\ \A i \in DOMAIN reports : Counted(i)'
    <3>1. /\ \A k \in DOMAIN claims : Based(k)'
          /\ \A q \in Proc : q # p => Carried(q)'
          /\ \A i \in DOMAIN reports : Counted(i)'
      BY <2>1, <2>3, <2>4, OneMoves
    <3>2. Carried(p)'
      BY <2>2, <2>3 DEF Carried, Moved
    <3> QED
      BY <3>1, <3>2
  <2>6. Based(n)'
    <3>1. claims'[n].base = rows /\ rows' = rows
      BY <2>1, <2>2, <2>4
    <3>2. \A o \in Owner, h \in Hour : rows[o][h] <= rows[o][h]
      BY <1>0 DEF Counts
    <3> QED
      BY <3>1, <3>2 DEF Based
  <2>7. \A k \in DOMAIN claims' : Based(k)'
    BY <2>4, <2>5, <2>6
  <2>8. \A i \in DOMAIN reports' : Counted(i)'
    BY <2>1, <2>5
  <2> QED
    BY <2>5, <2>7, <2>8 DEF CountInv
<1>11. ASSUME NEW p \in Proc, CreateReport(p)
       PROVE  CountInv'
  <2>1. PICK item \in NextItems(proc[p]) : Create(p, item)
    BY <1>11 DEF CreateReport
  <2>0. PICK n : n = Len(reports) + 1
    OBVIOUS
  <2> DEFINE l == [proc[p] EXCEPT !.pc = "enqueue", !.item = item, !.todo = @ \ {item.to}]
             r == [cycle |-> proc[p].cycle, to |-> item.to, scope |-> item.scope,
                   counts |-> CountsFor(proc[p], item)]
  <2>2. /\ UNCHANGED <<claims, rows>> /\ proc[p] \in Local /\ proc[p].pc = "next" /\ Goto(p, l)
        /\ reports' = Append(reports, r)
    BY <1>11, <2>1, ProcTyped DEF CreateReport, Create, At, IInv
  <2>3. l.pc = "enqueue" /\ l.cycle = proc[p].cycle /\ l.users = proc[p].users /\ l.global = proc[p].global
    BY <2>2 DEF Local
  <2>4. /\ r.cycle = proc[p].cycle /\ r.to = item.to /\ r.scope = item.scope
        /\ r.counts = CountsFor(proc[p], item)
    OBVIOUS
  <2> HIDE DEF l, r
  <2>5. Moved(p, l)
    BY <1>5, <2>2
  <2>6. /\ DOMAIN reports' = DOMAIN reports \cup {n} /\ reports'[n] = r
        /\ \A k \in DOMAIN reports : reports'[k] = reports[k]
    BY <2>0, <2>2 DEF IInv, TypeOK
  <2>7. /\ \A c \in DOMAIN claims : Based(c)'
        /\ \A q \in Proc : Carried(q)'
        /\ \A i \in DOMAIN reports : i \in DOMAIN reports' => Counted(i)'
    <3>1. \A q \in Proc : proc'[q] = proc[q] \/ (q = p /\ proc'[q] = l)
      BY <2>5 DEF Moved
    <3>2. proc[p].pc \in Running /\ proc[p].pc # "users" /\ proc[p].pc # "global"
      BY <2>2 DEF Running, Serving
    <3> QED
      BY <1>0, <2>2, <2>3, <2>6, <3>1, <3>2, OthersCount
  <2>8. Counted(n)'
    <3>1. item.to \in Account /\ item.scope \in Scope
      BY <2>1, <2>2, ReportingAssumption DEF NextItems, Local, Scope
    <3>2. Carried(p) /\ proc[p].pc \in Running \ {"users", "global"}
      BY <2>2 DEF CountInv, Running, Serving
    <3>3. ASSUME NEW h \in Hour
          PROVE  LET b == claims[r.cycle].base
                 IN /\ r.scope = "global" => Sum(b, Account)[h] <= r.counts[h] /\ r.counts[h] <= Sum(rows, Account)[h]
                    /\ r.scope = "personal" => b[r.to][h] <= r.counts[h] /\ r.counts[h] <= rows[r.to][h]
      BY <2>4, <3>1, <3>2 DEF Carried, CountsFor
    <3>4. reports'[n] = r /\ claims' = claims /\ rows' = rows
      BY <2>2, <2>6
    <3> QED
      BY <3>3, <3>4 DEF Counted
  <2>9. \A c \in DOMAIN claims' : Based(c)'
    BY <2>2, <2>7
  <2>10. \A i \in DOMAIN reports' : Counted(i)'
    BY <2>6, <2>7, <2>8
  <2> QED
    BY <2>7, <2>9, <2>10 DEF CountInv
<1>12. ASSUME NEW p \in Proc, ProcStep(p) \/ CutShort(p)
       PROVE  CountInv'
  BY <1>6, <1>7, <1>8, <1>9, <1>10, <1>11, <1>12 DEF ProcStep
<1>13. ASSUME UNCHANGED <<claims, reports, proc, rows>>
       PROVE  CountInv'
  BY <1>0, <1>1, <1>13
<1>14. ASSUME \/ Elapse \/ SetInterval \/ Beat \/ UNCHANGED vars
              \/ \E a \in Account : Register(a)
              \/ \E n \in Intervals : SetFrequency(n)
       PROVE  CountInv'
  BY <1>13, <1>14 DEF Elapse, SetInterval, Beat, vars, Register, SetFrequency
<1> QED
  BY <1>2, <1>3, <1>12, <1>14 DEF Next

-----------------------------------------------------------------------------
(* The theorems *)

LEMMA InitInv == Init => IInv
<1> SUFFICES ASSUME Init
             PROVE  IInv
  OBVIOUS
<1>1. TypeOK
  BY ReportingAssumption, IdleTyped, FS_EmptySet
     DEF Init, TypeOK, LinksOK, Config, Counts, NoCounts, Owner
<1>2. SavesCounted
  BY ReportingAssumption DEF Init, SavesCounted
<1>3. ClaimInv
  BY IdleTyped DEF Init, ClaimInv, AnchorIsLast, Spaced, Seen
<1>4. CycleInv
  BY IdleTyped
     DEF Init, CycleInv, Remembered, OneEach, GlobalForAdmins, Complete, OwnCycle, Blank, Served,
         Running, Gathering, Serving
<1> QED
  BY <1>1, <1>2, <1>3, <1>4 DEF IInv

LEMMA NextInv == ASSUME IInv, [Next]_vars
                 PROVE  IInv'
<1>1. CASE UNCHANGED vars
  <2>1. TypeOK' /\ SavesCounted'
    BY <1>1, LinksKept DEF IInv, TypeOK, SavesCounted, vars, worldVars, configVars, reportVars, mailVars, historyVars
  <2> QED
    BY <1>1, <2>1, WorldKeepsClaims, WorldKeepsCycles
       DEF IInv, vars, worldVars, configVars, reportVars, mailVars, historyVars
<1>2. ASSUME NEW p \in Proc, ProcStep(p) \/ CutShort(p)
      PROVE  IInv'
  BY <1>2, TakeTickInv, CheckDueInv, ClaimStepInv, ReadUsersInv, ReadGlobalInv, ListAccountsInv,
     CreateReportInv, EnqueueDeliverInv, FinishCycleInv, CutShortInv DEF ProcStep
<1> QED
  BY <1>1, <1>2, ElapseInv, RegisterInv, UserSendsInv, ReportSentInv, SetFrequencyInv,
     SetIntervalInv, BeatInv DEF Next

\* Processes claim and serve without getting in each other's way, however many there are.
THEOREM Invariance == Spec => []IInv
BY InitInv, NextInv, PTL DEF Spec

\* The types of the tables, of the queue, of what processes hold and of the history;
\* every report has the claim it was made for, every enqueued position its report.
THEOREM TypesCorrect == Spec => []TypeOK
<1>1. IInv => TypeOK
  BY DEF IInv
<1> QED
  BY <1>1, Invariance, PTL

\* No claim comes earlier than the interval after the one its check could see, for
\* any number of processes, piled up ticks and changes of the cadence.
THEOREM ClaimsAreSpaced == Spec => []Spaced
<1>1. IInv => Spaced
  BY DEF IInv, ClaimInv
<1> QED
  BY <1>1, Invariance, PTL

LEMMA AtMostOne == ASSUME OneEach, NEW c, NEW a, NEW scope
                   PROVE  Cardinality(Of(c, a, scope)) = IF Has(c, a, scope) THEN 1 ELSE 0
<1>1. CASE Has(c, a, scope)
  <2>1. PICK i \in Of(c, a, scope) : TRUE
    BY <1>1 DEF Has
  <2>2. Of(c, a, scope) = {i}
    BY <2>1 DEF Of, OneEach, SameReport
  <2> QED
    BY <1>1, <2>2, FS_Singleton
<1>2. CASE ~Has(c, a, scope)
  BY <1>2, FS_EmptySet DEF Has
<1> QED
  BY <1>1, <1>2

\* A cycle that has run to its end has served everybody once, for any number of
\* accounts, administrators and cycles under way at one time.
THEOREM CyclesServeExactly == Spec => []ServedExactly
<1>1. ASSUME IInv, NEW c \in finished, NEW a \in Account
      PROVE  /\ a \in claims[c].known => Cardinality(Of(c, a, "personal")) = 1
             /\ Cardinality(Of(c, a, "personal")) <= 1
             /\ Cardinality(Of(c, a, "global")) = IF a \in Admin THEN 1 ELSE 0
             /\ Of(c, a, "personal") \cup Of(c, a, "global") \subseteq enqueued
  <2>1. OneEach /\ Complete /\ GlobalForAdmins
    BY <1>1 DEF IInv, CycleInv
  <2>2. Has(c, a, "global") <=> a \in Admin
    BY <2>1 DEF Complete, GlobalForAdmins, Has, Of
  <2>3. a \in claims[c].known => Has(c, a, "personal")
    BY <2>1 DEF Complete
  <2>4. Of(c, a, "personal") \cup Of(c, a, "global") \subseteq enqueued
    BY <2>1 DEF Complete, Of
  <2> QED
    BY <2>1, <2>2, <2>3, <2>4, AtMostOne
<1>2. IInv => ServedExactly
  BY <1>1 DEF ServedExactly
<1> QED
  BY <1>2, Invariance, PTL

\* A report counts no less than when its period was claimed and no more than now, and
\* its owner's rows alone, for any number of accounts, hours and cycles at one time.
THEOREM ReportsCountWell == Spec => []CountsAreCurrent
<1>1. Init => CountInv
  BY IdleTyped DEF Init, CountInv, Carried, Running, Gathering, Serving
<1>2. IInv /\ CountInv => CountsAreCurrent
  <2>1. SUFFICES ASSUME IInv, CountInv, NEW i \in DOMAIN reports, NEW h \in Hour
                 PROVE  LET r == reports[i]
                            whose == IF r.scope = "global" THEN Account ELSE {r.to}
                        IN /\ Sum(claims[r.cycle].base, whose)[h] <= r.counts[h]
                           /\ r.counts[h] <= Sum(rows, whose)[h]
    BY DEF CountsAreCurrent
  <2>2. Counted(i) /\ reports[i] \in ReportRow /\ reports[i].cycle \in DOMAIN claims
    BY <2>1, Rows DEF CountInv, IInv, TypeOK, LinksOK
  <2>3. CASE reports[i].scope = "global"
    BY <2>2, <2>3 DEF Counted
  <2>4. CASE reports[i].scope # "global"
    <3>1. reports[i].scope = "personal" /\ reports[i].to \in Account
      BY <2>2, <2>4 DEF ReportRow, Scope
    <3>2. claims[reports[i].cycle].base \in [Owner -> Counts] /\ rows \in [Owner -> Counts]
      BY <2>1, <2>2, Rows DEF IInv, ClaimRow, TypeOK, LinksOK
    <3>3. /\ Sum(claims[reports[i].cycle].base, {reports[i].to})[h] = claims[reports[i].cycle].base[reports[i].to][h]
          /\ Sum(rows, {reports[i].to})[h] = rows[reports[i].to][h]
      BY <3>1, <3>2, CountsTyped, SumOfOne
    <3> QED
      BY <2>2, <2>4, <3>1, <3>3 DEF Counted
  <2> QED
    BY <2>3, <2>4
<1>3. IInv /\ IInv' /\ CountInv /\ [Next]_vars => CountInv'
  BY NextCount
<1> QED
  BY <1>1, <1>2, <1>3, Invariance, PTL DEF Spec

=============================================================================
