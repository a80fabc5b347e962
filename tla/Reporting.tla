------------------------------ MODULE Reporting ------------------------------
(***************************************************************************)
(* The stats report: the cadence an administrator sets, the ticks Celery   *)
(* Beat puts into the cpu queue, the due-check that claims a period by     *)
(* moving the anchor, and the cycle that aggregates, stores one report row *)
(* per recipient and scope and hands each to the io pool (whose delivery   *)
(* of it is module Pipeline's).                                            *)
(*                                                                         *)
(* Every repository call has a session of its own, so another process may  *)
(* run between any two of them; each is a step here.                       *)
(***************************************************************************)
EXTENDS Naturals, Sequences, FiniteSets, Folds

CONSTANTS Account,      \* every account there may ever be
          Admin,        \* the administrators among them
          Server,       \* the owner of report sends: a null user_id
          Hour,         \* hours of the day
          Proc,         \* processes of the cpu pool
          Intervals,    \* intervals an administrator asks for, 0 to disable
          MinInterval,  \* MIN_INTERVAL_SECONDS, in units of the clock
          Default,      \* DEFAULT_INTERVAL_SECONDS
          MaxTime,      \* bound: the clock
          MaxTicks,     \* bound: ticks waiting in the queue
          MaxSets,      \* bound: changes of the interval
          MaxSends,     \* bound: users' sends
          MaxMails,     \* bound: reports the io pool sends
          MaxFaults     \* bound: cycles cut short

ASSUME ReportingAssumption == /\ Admin \subseteq Account /\ IsFiniteSet(Account)
                              /\ Server \notin Account
                              /\ Intervals \subseteq Nat
                              /\ MinInterval \in Nat \ {0}
                              /\ Default \in Nat /\ Default >= MinInterval
                              /\ {MaxTime, MaxTicks, MaxSets, MaxSends, MaxMails, MaxFaults} \subseteq Nat

VARIABLES now,        \* the clock
          config,     \* the stats_report_config row, and how often it was changed (history)
          request,    \* the administrator's change on its way to the row
          sets,       \* changes of the interval asked for so far
          ticks,      \* stats_report_tick messages in the cpu queue
          accounts,   \* user_account rows
          rows,       \* delivery_transition rows to 'sent', by owner and hour
          reports,    \* the report rows created, in order
          enqueued,   \* positions in reports whose deliver was enqueued
          sent,       \* how many of them the io pool has sent
          proc,       \* what each process is doing
          claims,     \* what each claim of a period saw and found (history)
          finished,   \* claims whose cycle ran to its end (history)
          faults      \* cycles cut short so far

configVars == <<config, request, sets>>
worldVars == <<now, accounts>>
reportVars == <<reports, enqueued>>
mailVars == <<sent, rows>>
historyVars == <<claims, finished>>
vars == <<worldVars, configVars, ticks, reportVars, mailVars, proc, historyVars, faults>>

Owner == Account \cup {Server}
Counts == [Hour -> Nat]
Config == [interval : {0} \cup {n \in Intervals \cup {Default} : n >= MinInterval},
           anchor : 0 .. MaxTime, saves : 0 .. MaxSets]

NoCounts == [h \in Hour |-> 0]
NoRequest == [interval |-> 0, at |-> MaxTime + 1]

\* The rows of a set of owners, hour by hour: what a GROUP BY hour returns.
Sum(r, owners) == [h \in Hour |-> MapThenFoldSet(+, 0, LAMBDA o : r[o][h],
                                                 LAMBDA S : CHOOSE o \in S : TRUE, owners)]

\* A process between two ticks; a local that is not in use has its initial value.
Idle == [pc |-> "idle", at |-> 0, seen |-> [interval |-> 0, anchor |-> 0, saves |-> 0], after |-> 0,
         cycle |-> 0, users |-> [a \in Account |-> NoCounts], global |-> NoCounts,
         todo |-> {}, item |-> [to |-> Server, scope |-> "personal"]]

\* Variant: the boundary itself is not due.
DueAfter(c, t) == c.interval # 0 /\ t > c.anchor + c.interval

\* StatsReportConfig.is_due: enabled, and the clock has reached anchor_at + interval.
Due(c, t) == c.interval # 0 /\ t >= c.anchor + c.interval

\* StatsReportConfig.validate_interval.
ValidInterval(n) == n = 0 \/ n >= MinInterval

-----------------------------------------------------------------------------

Scope == {"personal", "global"}

Local == [pc : {"idle", "check", "claim", "users", "global", "accounts", "next", "enqueue"},
          at : 0 .. MaxTime, seen : Config, after : Nat, cycle : Nat,
          users : [Account -> Counts], global : Counts,
          todo : SUBSET Account, item : [to : Owner, scope : Scope]]

ClaimRow == [at : 0 .. MaxTime, seen : Config, after : Nat, saves : Nat,
             known : SUBSET Account, base : [Owner -> Counts]]

ReportRow == [cycle : Nat, to : Account, scope : Scope, counts : Counts]

\* What points to a claim or a report points to one that exists.
LinksOK == /\ \A i \in DOMAIN reports : reports[i].cycle \in DOMAIN claims
           /\ enqueued \subseteq DOMAIN reports /\ sent \in 0 .. Cardinality(enqueued)
           /\ \A p \in Proc : proc[p].cycle \in 0 .. Len(claims)
           /\ finished \subseteq DOMAIN claims

TypeOK == /\ now \in 0 .. MaxTime
          /\ config \in Config
          /\ request = NoRequest \/ request \in [interval : {n \in Intervals : ValidInterval(n)}, at : 0 .. now]
          /\ sets \in 0 .. MaxSets /\ ticks \in 0 .. MaxTicks /\ faults \in 0 .. MaxFaults
          /\ accounts \subseteq Account
          /\ rows \in [Owner -> Counts]
          /\ proc \in [Proc -> Local]
          /\ claims \in Seq(ClaimRow)
          /\ reports \in Seq(ReportRow)
          /\ LinksOK

Init == /\ now = 0 /\ accounts = Admin
        /\ config = [interval |-> Default, anchor |-> 0, saves |-> 0]
        /\ request = NoRequest /\ sets = 0
        /\ ticks = 0
        /\ reports = << >> /\ enqueued = {}
        /\ sent = 0 /\ rows = [o \in Owner |-> NoCounts]
        /\ proc = [p \in Proc |-> Idle]
        /\ claims = << >> /\ finished = {}
        /\ faults = 0

-----------------------------------------------------------------------------
(* The world: time, users and the io pool *)

Elapse == /\ now < MaxTime
          /\ now' = now + 1
          /\ UNCHANGED <<accounts, configVars, ticks, reportVars, mailVars, proc, historyVars, faults>>

Register(a) == /\ a \notin accounts
               /\ accounts' = accounts \cup {a}
               /\ UNCHANGED <<now, configVars, ticks, reportVars, mailVars, proc, historyVars, faults>>

\* A delivery of a's own reaches 'sent' in hour h (record_sent).
UserSends(a, h) == /\ a \in accounts
                   /\ \A g \in Hour : Sum(rows, Account)[g] < MaxSends
                   /\ rows' = [rows EXCEPT ![a][h] = @ + 1]
                   /\ UNCHANGED <<worldVars, configVars, ticks, reportVars, sent, proc, historyVars, faults>>

\* The io pool sends a report in hour h, no matter which: one more 'sent' row, of no user.
ReportSent(h) == /\ sent < Cardinality(enqueued)
                 /\ sent < MaxMails
                 /\ sent' = sent + 1
                 /\ rows' = [rows EXCEPT ![Server][h] = @ + 1]
                 /\ UNCHANGED <<worldVars, configVars, ticks, reportVars, proc, historyVars, faults>>

-----------------------------------------------------------------------------
(* The administrator's change: validated and timed first, written later *)

SetFrequency(n) == /\ request = NoRequest
                   /\ sets < MaxSets
                   /\ ValidInterval(n)
                   /\ request' = [interval |-> n, at |-> now]
                   /\ sets' = sets + 1
                   /\ UNCHANGED <<worldVars, config, ticks, reportVars, mailVars, proc, historyVars, faults>>

SetInterval == /\ request # NoRequest
               /\ config' = [interval |-> request.interval, anchor |-> request.at,
                             saves |-> config.saves + 1]
               /\ request' = NoRequest
               /\ UNCHANGED <<worldVars, sets, ticks, reportVars, mailVars, proc, historyVars, faults>>

-----------------------------------------------------------------------------
(* Beat and the cpu pool *)

Beat == /\ ticks < MaxTicks
        /\ ticks' = ticks + 1
        /\ UNCHANGED <<worldVars, configVars, reportVars, mailVars, proc, historyVars, faults>>

\* Process p is at pc and goes on with locals l.
At(p, pc) == proc[p].pc = pc
Goto(p, l) == proc' = [proc EXCEPT ![p] = l]

\* The early acknowledgement takes the tick off the queue; the clock is read.
TakeTick(p) == /\ At(p, "idle") /\ ticks > 0
               /\ ticks' = ticks - 1
               /\ Goto(p, [Idle EXCEPT !.pc = "check", !.at = now])
               /\ UNCHANGED <<worldVars, configVars, reportVars, mailVars, historyVars, faults>>

CheckDue(p) == /\ At(p, "check")
               /\ Goto(p, IF Due(config, proc[p].at)
                          THEN [proc[p] EXCEPT !.pc = "claim", !.seen = config, !.after = Len(claims)]
                          ELSE Idle)
               /\ UNCHANGED <<worldVars, configVars, ticks, reportVars, mailVars, historyVars, faults>>

\* The claim process p makes: the row it read, after which claims, the changes it overwrites.
Claimed(p) == [at |-> proc[p].at, seen |-> proc[p].seen, after |-> proc[p].after, saves |-> config.saves,
               known |-> accounts, base |-> rows]

\* Variant: the anchor moves by one interval, so a late claim leaves periods to catch up.
ClaimCatchingUp(p) == /\ At(p, "claim")
                      /\ config' = [config EXCEPT !.anchor = @ + config.interval]
                      /\ claims' = Append(claims, Claimed(p))
                      /\ Goto(p, [proc[p] EXCEPT !.pc = "users", !.cycle = Len(claims) + 1])
                      /\ UNCHANGED <<worldVars, request, sets, ticks, reportVars, mailVars, finished, faults>>

\* advance_anchor writes anchor_at alone, whatever the row holds by then.
Claim(p) == /\ At(p, "claim")
            /\ config' = [config EXCEPT !.anchor = proc[p].at]
            /\ claims' = Append(claims, Claimed(p))
            /\ Goto(p, [proc[p] EXCEPT !.pc = "users", !.cycle = Len(claims) + 1])
            /\ UNCHANGED <<worldVars, request, sets, ticks, reportVars, mailVars, finished, faults>>

ReadUsers(p) == /\ At(p, "users")
                /\ Goto(p, [proc[p] EXCEPT !.pc = "global", !.users = [a \in Account |-> rows[a]]])
                /\ UNCHANGED <<worldVars, configVars, ticks, reportVars, mailVars, historyVars, faults>>

\* Variant: the aggregate does not leave out the rows of no user.
ReadGlobalOfAll(p) == /\ At(p, "global")
                      /\ Goto(p, [proc[p] EXCEPT !.pc = "accounts", !.global = Sum(rows, Owner)])
                      /\ UNCHANGED <<worldVars, configVars, ticks, reportVars, mailVars, historyVars, faults>>

ReadGlobal(p) == /\ At(p, "global")
                 /\ Goto(p, [proc[p] EXCEPT !.pc = "accounts", !.global = Sum(rows, Account)])
                 /\ UNCHANGED <<worldVars, configVars, ticks, reportVars, mailVars, historyVars, faults>>

ListAccounts(p) == /\ At(p, "accounts")
                   /\ Goto(p, [proc[p] EXCEPT !.pc = "next", !.todo = accounts])
                   /\ UNCHANGED <<worldVars, configVars, ticks, reportVars, mailVars, historyVars, faults>>

\* What the loop does next: an administrator's global report right after the personal
\* one, else any account not yet served (the database gives them in no set order).
NextItems(l) == IF l.item.to \in Admin /\ l.item.scope = "personal"
                THEN {[to |-> l.item.to, scope |-> "global"]}
                ELSE {[to |-> a, scope |-> "personal"] : a \in l.todo}

CountsFor(l, item) == IF item.scope = "global" THEN l.global ELSE l.users[item.to]

\* create_report_delivery of the next item, in a transaction of its own.
Create(p, item) == /\ reports' = Append(reports, [cycle |-> proc[p].cycle, to |-> item.to, scope |-> item.scope,
                                                  counts |-> CountsFor(proc[p], item)])
                   /\ Goto(p, [proc[p] EXCEPT !.pc = "enqueue", !.item = item, !.todo = @ \ {item.to}])

\* Variant: an account without sends is missing from the mapping and raises.
CreateReportStrictly(p) ==
    /\ At(p, "next")
    /\ \E item \in NextItems(proc[p]) : IF CountsFor(proc[p], item) = NoCounts
                                        THEN Goto(p, Idle) /\ UNCHANGED reports
                                        ELSE Create(p, item)
    /\ UNCHANGED <<worldVars, configVars, ticks, enqueued, mailVars, historyVars, faults>>

CreateReport(p) ==
    /\ At(p, "next")
    /\ \E item \in NextItems(proc[p]) : Create(p, item)
    /\ UNCHANGED <<worldVars, configVars, ticks, enqueued, mailVars, historyVars, faults>>

\* Variant: it is the newest row that is handed on, whoever created it.
EnqueueNewest(p) ==
    /\ At(p, "enqueue")
    /\ enqueued' = enqueued \cup {Len(reports)}
    /\ Goto(p, [proc[p] EXCEPT !.pc = "next"])
    /\ UNCHANGED <<worldVars, configVars, ticks, reports, mailVars, historyVars, faults>>

\* The row just created goes to the io pool.
EnqueueDeliver(p) ==
    /\ At(p, "enqueue")
    /\ enqueued' = enqueued \cup {i \in DOMAIN reports : /\ reports[i].cycle = proc[p].cycle
                                                         /\ reports[i].to = proc[p].item.to
                                                         /\ reports[i].scope = proc[p].item.scope}
    /\ Goto(p, [proc[p] EXCEPT !.pc = "next"])
    /\ UNCHANGED <<worldVars, configVars, ticks, reports, mailVars, historyVars, faults>>

FinishCycle(p) == /\ At(p, "next") /\ NextItems(proc[p]) = {}
                  /\ finished' = finished \cup {proc[p].cycle}
                  /\ Goto(p, Idle)
                  /\ UNCHANGED <<worldVars, configVars, ticks, reportVars, mailVars, claims, faults>>

\* A process dies, or a repository or the broker raises: the tick is gone either way.
CutShort(p) == /\ ~At(p, "idle")
               /\ faults < MaxFaults
               /\ faults' = faults + 1
               /\ Goto(p, Idle)
               /\ UNCHANGED <<worldVars, configVars, ticks, reportVars, mailVars, historyVars>>

ProcStep(p) == \/ TakeTick(p) \/ CheckDue(p) \/ Claim(p)
               \/ ReadUsers(p) \/ ReadGlobal(p) \/ ListAccounts(p)
               \/ CreateReport(p) \/ EnqueueDeliver(p) \/ FinishCycle(p)

Next == \/ Elapse
        \/ \E a \in Account : Register(a)
        \/ \E a \in Account, h \in Hour : UserSends(a, h)
        \/ \E h \in Hour : ReportSent(h)
        \/ \E n \in Intervals : SetFrequency(n)
        \/ SetInterval
        \/ Beat
        \/ \E p \in Proc : ProcStep(p) \/ CutShort(p)

Spec == Init /\ [][Next]_vars

\* Beat keeps its timer and the pool keeps working; the world owes nothing.
FairSpec == Spec /\ WF_vars(Beat) /\ \A p \in Proc : WF_vars(ProcStep(p))

-----------------------------------------------------------------------------
(* Properties *)

Of(c, a, scope) == {i \in DOMAIN reports : /\ reports[i].cycle = c
                                           /\ reports[i].to = a
                                           /\ reports[i].scope = scope}

\* Once a cycle has run to its end, every account known when its period was
\* claimed has exactly one personal report, an administrator exactly one global
\* report as well and nobody else any, an account registered meanwhile at most one
\* personal report, and all of them are in the io queue (ReportCycleService.run_cycle).
ServedExactly ==
    \A c \in finished : \A a \in Account :
        /\ a \in claims[c].known => Cardinality(Of(c, a, "personal")) = 1
        /\ Cardinality(Of(c, a, "personal")) <= 1
        /\ Cardinality(Of(c, a, "global")) = IF a \in Admin THEN 1 ELSE 0
        /\ Of(c, a, "personal") \cup Of(c, a, "global") \subseteq enqueued

\* A report counts what its owner's deliveries reached: no less than there was when the
\* period was claimed, no more than there is now, never another user's rows, and
\* never a row of an earlier report, however many of those were sent meanwhile.
CountsAreCurrent ==
    \A i \in DOMAIN reports :
        LET r == reports[i]
            whose == IF r.scope = "global" THEN Account ELSE {r.to}
        IN \A h \in Hour : /\ Sum(claims[r.cycle].base, whose)[h] <= r.counts[h]
                           /\ r.counts[h] <= Sum(rows, whose)[h]

\* A claim comes at least the interval after the last one its check could see, unless
\* the cadence was changed in between: ticks may pile up in the queue, other processes
\* may claim late (the claim moves the anchor to the time its own tick was taken).  With
\* one process that is all there is; two whose checks overlap claim one period twice.
Spaced ==
    \A j \in DOMAIN claims :
        LET i == claims[j].after
        IN i > 0 /\ claims[i].saves = claims[j].seen.saves
               => claims[j].at >= claims[i].at + claims[j].seen.interval

\* A period that has elapsed does not stay unclaimed: claims move the anchor on until
\* the next time is ahead again, or the administrator changes the cadence (Beat's
\* ticks and ReportDueService together).
DueIsClaimed == LET overdue == config.interval # 0 /\ now >= config.anchor + config.interval
                IN overdue ~> ~overdue

\* A claimed period ends in a whole cycle, a report for every account (FR-011 and SC-003),
\* unless a process was cut short: its tick is acknowledged and its anchor advanced, and
\* no one takes the cycle up.
ClaimsFinish ==
    \A c \in 1 .. MaxTime : (c \in DOMAIN claims) ~> (c \in finished \/ faults > 0)
=============================================================================
