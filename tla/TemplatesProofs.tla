-------------------------- MODULE TemplatesProofs ---------------------------
(***************************************************************************)
(* Theorems about Templates.  What makes them true is what a request may   *)
(* rely on between its statements, JobOK.  Only statements of requests     *)
(* that hold no lock are disturbed by others, and those rely on no more    *)
(* than that a row keeps its owner and never comes back.                   *)
(* That no wait is for ever, SomeoneGoesOn, needs an invariant of its own  *)
(* about snapshots, WaitInv: at most one request at a time has recipients  *)
(* of a template deleted and not committed.                                *)
(***************************************************************************)
EXTENDS Templates, TLAPS

\* A row that exists has an owner and columns.
RowInv == \A t \in Template :
            Exists(t) => template[t].owner \in User /\ template[t].text \in Text

\* A new template has an id that nobody else uses.
Unique == \A r, q \in Request :
            r # q /\ At(r, "insert") /\ job[q].pc \in Steps => job[q].template # job[r].template

Updating == {"write", "unlink", "waiting", "link"}

\* Who an open request is about.
Known(r) == job[r].pc \in Steps => job[r].user \in User /\ job[r].template \in Template

Creating(r) == At(r, "insert") => /\ job[r].text \in Text /\ Fits(job[r].text)
                                  /\ template[job[r].template] = NoRow

\* The recipients a save was checked for are still its user's.
Checked(r) == job[r].pc \in {"insert"} \cup Updating =>
                \A c \in job[r].wanted : contact[c] = job[r].user

\* A row that was loaded has existed, and never changes its owner.
Loaded(r) ==
  LET j == job[r] IN
  /\ j.pc \in Steps \ {"insert"} => template[j.template].state # "none"
  /\ j.pc \in Updating => /\ j.text \in Text /\ j.base \in Text
                          /\ Exists(j.template) => template[j.template].owner = j.user
  /\ j.pc = "resolve" => j.base \in Text /\ Fits(j.base)

\* Whoever has updated or deleted the row holds its lock until the COMMIT; what
\* an update will commit fits, and it has seen all recipients of earlier ones.
Holding(r) ==
  LET j == job[r] IN
  /\ j.pc = "write" => j.text # j.base
  /\ j.pc = "cascade" => lock[j.template] = r
  /\ j.pc \in {"unlink", "waiting", "link"} /\ j.text # j.base =>
       /\ lock[j.template] = r
       /\ Exists(j.template)
       /\ Fits(Merged(j, template[j.template].text))
  /\ j.pc \in {"waiting", "link"} /\ j.text # j.base =>
       \A x \in recipient : x.template = j.template /\ x.full => x \in j.gone

JobOK(r) == Known(r) /\ Creating(r) /\ Checked(r) /\ Loaded(r) /\ Holding(r)

IInv == /\ TypeOK
        /\ RowInv
        /\ Unique
        /\ \A r \in Request : JobOK(r)
        /\ RecipientsOwned
        /\ SmsFits
        /\ WritersNotMixed

\* Who holds the lock of a row has changed it, and is at a later statement.
Held == \A t \in Template : lock[t] # None =>
          /\ job[lock[t]].pc \in {"unlink", "waiting", "link", "cascade"}
          /\ job[lock[t]].template = t

Deleting(r) == job[r].pc \in {"waiting", "link"}

\* Rows are committed, and so are those of a snapshot.
CommittedRows == /\ \A x \in recipient : At(x.by, "done")
                 /\ \A r \in Request : Deleting(r) =>
                      \A x \in job[r].gone : x.template = job[r].template /\ At(x.by, "done")

\* What a request has deleted stays locked, and nobody else deletes it.
Exclusive == /\ \A r \in Request : At(r, "link") => job[r].gone \subseteq recipient
             /\ \A q, r \in Request : q # r /\ At(q, "link") /\ At(r, "link") =>
                                        job[q].gone \cap job[r].gone = {}

\* Of two snapshots of one template, the later has what the earlier has and is
\* still there.
Nested == \A q, r \in Request :
            Deleting(q) /\ Deleting(r) /\ job[q].template = job[r].template =>
              \/ job[q].gone \cap recipient \subseteq job[r].gone
              \/ job[r].gone \cap recipient \subseteq job[q].gone

WaitInv == Held /\ CommittedRows /\ Exclusive /\ Nested

-----------------------------------------------------------------------------
(* Lemmas *)

\* A statement that needs the lock of the row finds it free.
LEMMA LockFree == ASSUME NEW r \in Request, job[r].pc \in {"write", "remove"}, WaitsFor(r) = {}
                  PROVE  lock[job[r].template] = None
BY DEF WaitsFor

LEMMA MergedText == ASSUME NEW j, j.text \in Text, NEW text \in Text
                    PROVE  Merged(j, text) \in Text
BY DEF Merged, Text

\* A request that is not at a statement relies on nothing.
LEMMA Ended == ASSUME NEW r \in Request, job'[r] = NoJob("done")
               PROVE  JobOK(r)'
BY DEF JobOK, Known, Creating, Checked, Loaded, Holding, At, NoJob, Steps, Updating

\* What a step of another request has to leave alone.
LEMMA Frame ==
  ASSUME TypeOK, NEW q \in Request, JobOK(q), job'[q] = job[q],
         \A c \in Contact : contact[c] \in User => contact'[c] = contact[c],
         job[q].pc \in Steps =>
           LET t == job[q].template IN
           /\ \/ template'[t] = template[t]
              \/ /\ template[t].state # "none" /\ template'[t].state # "none"
                 /\ lock[t] # q
                 /\ template'[t].state = "here" => /\ Exists(t)
                                                   /\ template'[t].owner = template[t].owner
           /\ lock[t] = q => lock'[t] = q
           /\ \A x \in recipient' : x.template = t /\ x.full => x \in recipient \/ lock[t] # q
  PROVE  JobOK(q)'
<1> DEFINE t == job[q].template
<1>1. CASE job[q].pc \notin Steps
  BY <1>1 DEF JobOK, Known, Creating, Checked, Loaded, Holding, At, Steps, Updating
<1>2. CASE job[q].pc \in Steps
  <2>1. t \in Template /\ job[q].user \in User
    BY <1>2 DEF JobOK, Known
  <2>2. Known(q)'
    BY DEF JobOK, Known
  <2>3. Creating(q)'
    BY <1>2 DEF JobOK, Creating, At, NoRow
  <2>4. Checked(q)'
    BY <2>1 DEF JobOK, Checked, TypeOK, Job
  <2>5. Loaded(q)'
    BY <1>2 DEF JobOK, Loaded, Exists
  <2>6. Holding(q)'
    BY <1>2 DEF JobOK, Holding, Exists
  <2> QED
    BY <2>2, <2>3, <2>4, <2>5, <2>6 DEF JobOK
<1> QED
  BY <1>1, <1>2

\* A step that changes no row: the rows stay as they are.
LEMMA RowsFrame == ASSUME IInv, UNCHANGED <<contact, template, recipient, dispatch>>
                   PROVE  (RowInv /\ RecipientsOwned /\ SmsFits /\ WritersNotMixed)'
BY DEF IInv, RowInv, RecipientsOwned, SmsFits, WritersNotMixed, Exists

\* A request that ends or goes on with the same template uses no new id.
LEMMA UniqueFrame ==
  ASSUME Unique, TypeOK, NEW r \in Request, NEW k,
         job' = [job EXCEPT ![r] = k],
         k.pc \in Steps => /\ job[r].pc \in Steps /\ k.template = job[r].template
                           /\ k.pc # "insert"
  PROVE  Unique'
<1> SUFFICES ASSUME NEW p \in Request, NEW q \in Request, p # q, At(p, "insert")',
                    job'[q].pc \in Steps
             PROVE  job'[q].template # job'[p].template
  BY DEF Unique
<1>1. job'[r] = k /\ \A x \in Request \ {r} : job'[x] = job[x]
  BY DEF TypeOK
<1>2. p # r
  BY <1>1 DEF At, Steps
<1>3. At(p, "insert")
  BY <1>1, <1>2 DEF At
<1>4. job[q].pc \in Steps /\ job'[q].template = job[q].template
  BY <1>1
<1> QED
  BY <1>1, <1>2, <1>3, <1>4 DEF Unique

LEMMA RollbackInv == ASSUME IInv, NEW r \in Request, Rollback(r)
                     PROVE  IInv'
<1>0. TypeOK /\ Unique /\ \A q \in Request : JobOK(q)
  BY DEF IInv
<1>1. job'[r] = NoJob("done") /\ \A q \in Request \ {r} : job'[q] = job[q]
  BY <1>0 DEF Rollback, TypeOK
<1>2. TypeOK'
  BY <1>0 DEF TypeOK, Rollback, Released, Job, NoJob
<1>3. Unique'
  BY <1>0, UniqueFrame DEF Rollback, NoJob, Steps
<1>4. ASSUME NEW q \in Request
      PROVE  JobOK(q)'
  <2>1. CASE q = r
    BY <2>1, <1>1, Ended
  <2>2. CASE q # r
    <3>1. \A t \in Template : lock[t] = q => lock'[t] = q
      BY <2>2 DEF Rollback, Released
    <3> QED
      BY <1>0, <1>1, <2>2, <3>1, Frame DEF Rollback, JobOK, Known
  <2> QED
    BY <2>1, <2>2
<1> QED
  BY <1>2, <1>3, <1>4, RowsFrame DEF IInv, Rollback

\* A request goes on, or takes a lock that is free, and changes no row.
LEMMA GoesOn ==
  ASSUME IInv, NEW r \in Request, NEW k \in Job, job[r].pc \in Steps,
         k.pc # "insert", k.template = job[r].template,
         job' = [job EXCEPT ![r] = k], JobOK(r)',
         UNCHANGED <<contact, template, recipient, dispatch>>,
         lock' \in [Template -> Request \cup {None}],
         \A t \in Template : lock[t] \in Request \ {r} => lock'[t] = lock[t]
  PROVE  IInv'
<1>0. TypeOK /\ Unique /\ \A q \in Request : JobOK(q)
  BY DEF IInv
<1>1. \A q \in Request \ {r} : job'[q] = job[q]
  BY <1>0 DEF TypeOK
<1>2. TypeOK'
  BY <1>0 DEF TypeOK
<1>3. Unique'
  BY <1>0, UniqueFrame
<1>4. ASSUME NEW q \in Request, q # r
      PROVE  JobOK(q)'
  BY <1>0, <1>1, <1>4, Frame DEF JobOK, Known
<1> QED
  BY <1>2, <1>3, <1>4, RowsFrame DEF IInv

-----------------------------------------------------------------------------
(* The actions *)

LEMMA AddContactInv ==
  ASSUME IInv, NEW u \in User, NEW c \in Contact, AddContact(u, c)
  PROVE  IInv'
<1>0. TypeOK /\ RowInv /\ RecipientsOwned /\ \A q \in Request : JobOK(q)
  BY DEF IInv
<1>1. \A x \in Contact : contact[x] \in User => contact'[x] = contact[x]
  BY <1>0, TemplatesAssumption DEF AddContact, TypeOK
<1>2. TypeOK'
  BY <1>0 DEF TypeOK, AddContact
<1>3. \A q \in Request : JobOK(q)'
  BY <1>0, <1>1, Frame DEF AddContact
<1>4. RecipientsOwned'
  BY <1>0, <1>1 DEF RecipientsOwned, RowInv, TypeOK, Rows, AddContact, Exists
<1>5. (RowInv /\ Unique /\ SmsFits /\ WritersNotMixed)'
  BY DEF IInv, AddContact, RowInv, Unique, SmsFits, WritersNotMixed, Exists, At
<1> QED
  BY <1>2, <1>3, <1>4, <1>5 DEF IInv

\* A request that is accepted: a new id, or a row that has been loaded.
LEMMA BeginInv == ASSUME IInv, NEW r \in Request, Begin(r)
                  PROVE  IInv'
<1>0. TypeOK /\ RowInv /\ Unique /\ SmsFits /\ \A q \in Request : JobOK(q)
  BY DEF IInv
<1>1. PICK k \in Job : /\ job' = [job EXCEPT ![r] = k]
                       /\ k.pc = "insert" => Fresh(k.template)
                       /\ k.pc \in Steps \ {"insert"} => template[k.template] # NoRow
                       /\ JobOK(r)'
  <2>1. ASSUME NEW u \in User, NEW t \in Template, NEW text \in Text \cup {NoText},
               NEW wanted \in SUBSET Contact, NEW op \in {"update", "delete", "send"},
               op = "update" => text \in Text /\ wanted = OwnedIds(u, wanted),
               Load(r, Request0(op, u, t, text, wanted))
        PROVE  \E k \in Job : /\ job' = [job EXCEPT ![r] = k]
                              /\ k.pc = "insert" => Fresh(k.template)
                              /\ k.pc \in Steps \ {"insert"} => template[k.template] # NoRow
                              /\ JobOK(r)'
    <3> DEFINE j == Request0(op, u, t, text, wanted)
               next == CASE j.op = "delete" -> "remove"
                         [] j.op = "send" -> "resolve"
                         [] j.op = "update" -> IF j.text = template[t].text THEN "unlink" ELSE "write"
               k == [j EXCEPT !.pc = next, !.base = template[t].text]
    <3>1. CASE ~(Exists(t) /\ template[t].owner = u)
      <4>1. job' = [job EXCEPT ![r] = NoJob("done")]
        BY <2>1, <3>1 DEF Load, Request0, NoJob
      <4>2. NoJob("done") \in Job /\ NoJob("done").pc \notin Steps
        BY DEF NoJob, Job, Steps
      <4>3. job'[r] = NoJob("done")
        BY <4>1, <1>0 DEF TypeOK
      <4> QED
        BY <4>1, <4>2, <4>3, Ended DEF Steps
    <3>2. CASE Exists(t) /\ template[t].owner = u
      <4>1. job' = [job EXCEPT ![r] = k]
        BY <2>1, <3>2 DEF Load, Request0, NoJob
      <4>2. /\ j.op = op /\ j.user = u /\ j.template = t /\ j.text = text
            /\ j.wanted = wanted /\ j.gone = {} /\ j \in Job
        BY <2>1 DEF Request0, NoJob, Job, Steps
      <4>3. /\ next \in {"remove", "resolve", "unlink", "write"}
            /\ next \in {"unlink", "write"} => op = "update"
            /\ next = "unlink" => text = template[t].text
            /\ next = "write" => text # template[t].text
        BY <4>2, <2>1
      <4>4. template[t].text \in Text
        BY <3>2, <1>0 DEF RowInv
      <4> HIDE DEF j, next
      <4>5. k \in Job /\ k.pc = next /\ k.base = template[t].text /\ k.template = t
            /\ k.user = u /\ k.text = text /\ k.wanted = wanted
        BY <4>2, <4>3, <4>4 DEF Job, Steps
      <4>6. job'[r] = k
        BY <4>1, <1>0 DEF TypeOK
      <4> HIDE DEF k
      <4>7. template' = template /\ lock' = lock /\ contact' = contact /\ recipient' = recipient
        BY DEF Begin
      <4>8. Known(r)' /\ Creating(r)'
        BY <4>3, <4>5, <4>6, <2>1 DEF Known, Creating, At
      <4>9. Checked(r)'
        BY <4>3, <4>5, <4>6, <4>7, <2>1 DEF Checked, Updating, OwnedIds
      <4>10. Loaded(r)'
        BY <4>3, <4>4, <4>5, <4>6, <4>7, <3>2, <2>1, <1>0 DEF Loaded, Updating, Exists, SmsFits
      <4>11. Holding(r)'
        BY <4>3, <4>5, <4>6 DEF Holding
      <4>12. k.pc # "insert" /\ template[k.template] # NoRow
        BY <4>3, <4>5, <3>2 DEF Exists, NoRow
      <4> QED
        BY <4>1, <4>5, <4>8, <4>9, <4>10, <4>11, <4>12 DEF JobOK
    <3> QED
      BY <3>1, <3>2
  <2>2. ASSUME NEW u \in User, NEW t \in Template, NEW text \in Text, NEW wanted \in SUBSET Contact,
               Fits(text), wanted = OwnedIds(u, wanted), Fresh(t),
               job' = [job EXCEPT ![r] = Request0("create", u, t, text, wanted)]
        PROVE  \E k \in Job : /\ job' = [job EXCEPT ![r] = k]
                              /\ k.pc = "insert" => Fresh(k.template)
                              /\ k.pc \in Steps \ {"insert"} => template[k.template] # NoRow
                              /\ JobOK(r)'
    <3> DEFINE k == Request0("create", u, t, text, wanted)
    <3>1. /\ k \in Job /\ k.pc = "insert" /\ k.user = u /\ k.template = t
          /\ k.text = text /\ k.wanted = wanted
      BY DEF Request0, NoJob, Job, Steps
    <3>2. job'[r] = k
      BY <2>2, <1>0 DEF TypeOK
    <3> HIDE DEF k
    <3>3. template' = template /\ contact' = contact
      BY DEF Begin
    <3>4. Known(r)' /\ Creating(r)'
      BY <3>1, <3>2, <3>3, <2>2 DEF Known, Creating, At, Fresh, NoRow
    <3>5. Checked(r)'
      BY <3>1, <3>2, <3>3, <2>2 DEF Checked, OwnedIds
    <3>6. Loaded(r)' /\ Holding(r)'
      BY <3>1, <3>2 DEF Loaded, Holding, Updating
    <3> QED
      BY <3>1, <3>4, <3>5, <3>6, <2>2 DEF JobOK, k
  <2>3. PICK u \in User, t \in Template :
               \/ \E text \in Text, wanted \in SUBSET Contact : Save(r, u, t, text, wanted)
               \/ \E op \in {"delete", "send"} : Load(r, Request0(op, u, t, NoText, {}))
    BY DEF Begin
  <2>4. CASE \E text \in Text, wanted \in SUBSET Contact : Save(r, u, t, text, wanted)
    BY <2>1, <2>2, <2>4 DEF Save
  <2>5. CASE \E op \in {"delete", "send"} : Load(r, Request0(op, u, t, NoText, {}))
    BY <2>1, <2>5
  <2> QED
    BY <2>3, <2>4, <2>5
<1>2. job'[r] = k /\ \A q \in Request \ {r} : job'[q] = job[q]
  BY <1>0, <1>1 DEF TypeOK
<1>3. TypeOK'
  BY <1>0, <1>1 DEF TypeOK, Begin
<1>4. Unique'
  <2> SUFFICES ASSUME NEW p \in Request, NEW q \in Request, p # q, At(p, "insert")',
                      job'[q].pc \in Steps
               PROVE  job'[q].template # job'[p].template
    BY DEF Unique
  <2>1. CASE p = r
    BY <2>1, <1>1, <1>2 DEF At, Fresh
  <2>2. CASE q = r
    <3>1. At(p, "insert") /\ job'[p].template = job[p].template
      BY <2>2, <1>2 DEF At
    <3>2. template[job[p].template] = NoRow
      BY <3>1, <1>0 DEF JobOK, Creating
    <3>3. CASE k.pc = "insert"
      BY <3>1, <3>3, <2>2, <1>1, <1>2 DEF Fresh
    <3> QED
      BY <3>1, <3>2, <3>3, <2>2, <1>1, <1>2
  <2>3. CASE p # r /\ q # r
    BY <2>3, <1>0, <1>2 DEF Unique, At
  <2> QED
    BY <2>1, <2>2, <2>3
<1>5. ASSUME NEW q \in Request
      PROVE  JobOK(q)'
  <2>1. CASE q # r
    BY <2>1, <1>0, <1>2, Frame DEF Begin
  <2> QED
    BY <2>1, <1>1
<1> QED
  BY <1>3, <1>4, <1>5, RowsFrame DEF IInv, Begin

\* The COMMIT of a request that writes rows, at a template nobody else has locked.
LEMMA Committed ==
  ASSUME IInv, NEW r \in Request, job[r].pc \in Steps,
         job' = [job EXCEPT ![r] = NoJob("done")], lock' \in {lock, Released(r)},
         UNCHANGED contact, TypeOK',
         \A q \in Request \ {r} : job[q].pc \in Steps =>
           LET t == job[q].template IN
           /\ \/ template'[t] = template[t]
              \/ /\ template[t].state # "none" /\ template'[t].state # "none"
                 /\ lock[t] # q
                 /\ template'[t].state = "here" => /\ Exists(t)
                                                   /\ template'[t].owner = template[t].owner
           /\ \A x \in recipient' : x.template = t /\ x.full => x \in recipient \/ lock[t] # q
  PROVE  (\A q \in Request : JobOK(q))' /\ Unique'
<1>0. TypeOK /\ Unique /\ \A q \in Request : JobOK(q)
  BY DEF IInv
<1>1. job'[r] = NoJob("done") /\ \A q \in Request \ {r} : job'[q] = job[q]
  BY <1>0 DEF TypeOK
<1>2. Unique'
  BY <1>0, UniqueFrame DEF NoJob, Steps
<1>3. ASSUME NEW q \in Request, q # r
      PROVE  JobOK(q)'
  <2>1. job[q].pc \in Steps => job[q].template \in Template
    BY <1>0, <1>3 DEF JobOK, Known
  <2>2. job[q].pc \in Steps /\ lock[job[q].template] = q => lock'[job[q].template] = q
    BY <2>1, <1>3 DEF Released
  <2> QED
    BY <1>0, <1>1, <1>3, <2>2, Frame
<1> QED
  BY <1>1, <1>2, <1>3, Ended

\* The rows that a save inserts.
LEMMA LinkedRows ==
  ASSUME NEW r \in Request, job[r].template \in Template, job[r].wanted \subseteq Contact
  PROVE  \A x \in Linked(r) : /\ x \in Rows /\ x.template = job[r].template
                              /\ x.contact \in job[r].wanted /\ x.by = r
                              /\ x.full => job[r].text # job[r].base
<1> SUFFICES ASSUME NEW x \in Linked(r)
             PROVE  /\ x \in Rows /\ x.template = job[r].template
                    /\ x.contact \in job[r].wanted /\ x.by = r
                    /\ x.full => job[r].text # job[r].base
  OBVIOUS
<1> DEFINE b == job[r].text # job[r].base
<1>1. b \in BOOLEAN
  BY Zenon
<1> HIDE DEF b
<1>2. PICK c \in job[r].wanted : x = [template |-> job[r].template, contact |-> c, by |-> r, full |-> b]
  BY Zenon DEF Linked, b
<1>3. x \in Rows /\ x.template = job[r].template /\ x.contact = c /\ x.by = r /\ x.full = b
  BY <1>1, <1>2 DEF Rows
<1> QED
  BY <1>3 DEF b

LEMMA InsertInv == ASSUME IInv, NEW r \in Request, Insert(r)
                   PROVE  IInv'
<1> DEFINE j == job[r]
           t == j.template
<1>0. TypeOK /\ RowInv /\ Unique /\ RecipientsOwned /\ SmsFits /\ WritersNotMixed
      /\ \A q \in Request : JobOK(q)
  BY DEF IInv
<1>1. j.pc = "insert" /\ j.pc \in Steps
  BY DEF Insert, At, Steps
<1>2. /\ t \in Template /\ j.user \in User /\ j.text \in Text /\ Fits(j.text)
      /\ template[t] = NoRow /\ j.wanted \subseteq Contact
      /\ \A c \in j.wanted : contact[c] = j.user
  BY <1>0, <1>1 DEF JobOK, Known, Creating, Checked, At, TypeOK, Job
<1>3. template' = [template EXCEPT ![t] = [owner |-> j.user, text |-> j.text, state |-> "here"]]
  BY DEF Insert
<1>4. /\ template'[t] = [owner |-> j.user, text |-> j.text, state |-> "here"]
      /\ \A s \in Template \ {t} : template'[s] = template[s]
  BY <1>2, <1>3, <1>0 DEF TypeOK
<1>5. \A x \in Linked(r) : x \in Rows /\ x.template = t /\ x.contact \in j.wanted /\ x.by = r
  BY <1>2, LinkedRows
<1>6. recipient' = recipient \cup Linked(r)
  BY DEF Insert
<1>7. \A x \in recipient : x \in Rows /\ x.template # t
  BY <1>0, <1>2 DEF RecipientsOwned, Exists, NoRow, TypeOK
<1>8. TypeOK'
  <2>1. template' \in [Template -> [owner : User \cup {None}, text : Text \cup {NoText},
                                    state : {"none", "here", "gone"}]]
    BY <1>0, <1>2, <1>3 DEF TypeOK
  <2>2. recipient' \subseteq Rows
    BY <1>5, <1>6, <1>7
  <2>3. job' \in [Request -> Job]
    BY <1>0 DEF TypeOK, Insert, NoJob, Job
  <2> QED
    BY <1>0, <2>1, <2>2, <2>3 DEF TypeOK, Insert
<1>9. \A q \in Request \ {r} : job[q].pc \in Steps => job[q].template \in Template \ {t}
  BY <1>0, <1>1 DEF Unique, At, JobOK, Known
<1>10. (\A q \in Request : JobOK(q))' /\ Unique'
  <2>1. /\ job' = [job EXCEPT ![r] = NoJob("done")] /\ lock' = lock /\ contact' = contact
    BY DEF Insert
  <2>2. ASSUME NEW q \in Request \ {r}, job[q].pc \in Steps
        PROVE  /\ template'[job[q].template] = template[job[q].template]
               /\ \A x \in recipient' : x.template = job[q].template => x \in recipient
    BY <1>4, <1>5, <1>6, <1>9, <2>2
  <2> QED
    BY <1>1, <1>8, <2>1, <2>2, Committed
<1>11. RowInv' /\ SmsFits'
  BY <1>0, <1>2, <1>4 DEF RowInv, SmsFits, Exists, Insert
<1>12. RecipientsOwned'
  BY <1>0, <1>2, <1>4, <1>5, <1>6, <1>7 DEF RecipientsOwned, Exists, Insert, Rows
<1>13. WritersNotMixed'
  BY <1>0, <1>5, <1>6, <1>7 DEF WritersNotMixed
<1> QED
  BY <1>8, <1>10, <1>11, <1>12, <1>13 DEF IInv

LEMMA WriteInv == ASSUME IInv, NEW r \in Request, Write(r)
                  PROVE  IInv'
<1> DEFINE t == job[r].template
           k == [job[r] EXCEPT !.pc = "unlink"]
<1>0. TypeOK /\ \A q \in Request : JobOK(q)
  BY DEF IInv
<1>1. CASE Rollback(r)
  BY <1>1, RollbackInv
<1>2. CASE /\ Exists(t) /\ Fits(Merged(job[r], template[t].text))
           /\ lock' = [lock EXCEPT ![t] = r] /\ Goto(r, "unlink")
           /\ UNCHANGED <<contact, template, recipient, dispatch>>
  <2>1. lock[t] = None /\ job[r].pc = "write"
    BY LockFree DEF Write, At
  <2>2. t \in Template /\ job[r] \in Job
    BY <1>0, <2>1 DEF JobOK, Known, Steps, TypeOK
  <2>3. k \in Job /\ k.pc = "unlink" /\ k.template = t
    BY <2>2 DEF Job, Steps
  <2>4. job' = [job EXCEPT ![r] = k] /\ job'[r] = k
    BY <1>0, <1>2 DEF Goto, TypeOK
  <2>5. /\ lock' \in [Template -> Request \cup {None}] /\ lock'[t] = r
        /\ \A s \in Template : lock[s] \in Request \ {r} => lock'[s] = lock[s]
    BY <1>0, <1>2, <2>1, <2>2, TemplatesAssumption DEF TypeOK
  <2>6. /\ k.user = job[r].user /\ k.text = job[r].text /\ k.base = job[r].base
        /\ k.wanted = job[r].wanted
    BY <2>2 DEF Job
  <2>7. Merged(k, template[t].text) = Merged(job[r], template[t].text)
    BY <2>6 DEF Merged
  <2> HIDE DEF k
  <2>8. Known(r)' /\ Creating(r)' /\ Checked(r)' /\ Loaded(r)'
    BY <1>0, <1>2, <2>1, <2>3, <2>4, <2>6
       DEF JobOK, Known, Creating, Checked, Loaded, At, Steps, Updating, Exists
  <2>9. Holding(r)'
    BY <1>2, <2>3, <2>4, <2>5, <2>7 DEF Holding, Exists
  <2>10. job[r].pc \in Steps
    BY <2>1 DEF Steps
  <2> QED
    BY <1>2, <2>3, <2>4, <2>5, <2>8, <2>9, <2>10, GoesOn DEF JobOK
<1> QED
  BY <1>1, <1>2 DEF Write

LEMMA UnlinkInv == ASSUME IInv, NEW r \in Request, Unlink(r)
                   PROVE  IInv'
<1> DEFINE seen == RecipientsOf(job[r].template)
           next == IF Deleters(r, seen) = {} THEN "link" ELSE "waiting"
           k == [job[r] EXCEPT !.gone = seen, !.pc = next]
<1>0. TypeOK /\ \A q \in Request : JobOK(q)
  BY DEF IInv
<1>1. job[r].pc = "unlink" /\ job[r].pc \in Steps /\ job[r] \in Job
  BY <1>0 DEF Unlink, At, Steps, TypeOK
<1>2. seen \in SUBSET Rows /\ next \in {"link", "waiting"}
  BY <1>0 DEF RecipientsOf, TypeOK
<1>3. job' = [job EXCEPT ![r] = k] /\ job'[r] = k
  BY <1>0 DEF Unlink, TypeOK
<1> HIDE DEF next
<1>4. /\ k \in Job /\ k.pc = next /\ k.gone = seen /\ k.template = job[r].template
      /\ k.user = job[r].user /\ k.text = job[r].text /\ k.base = job[r].base
      /\ k.wanted = job[r].wanted
  BY <1>1, <1>2 DEF Job, Steps
<1>5. \A text : Merged(k, text) = Merged(job[r], text)
  BY <1>4 DEF Merged
<1> HIDE DEF k
<1>6. UNCHANGED <<contact, template, recipient, lock, dispatch>>
  BY DEF Unlink
<1>7. Known(r)' /\ Creating(r)' /\ Checked(r)' /\ Loaded(r)'
  BY <1>0, <1>1, <1>2, <1>3, <1>4, <1>6
     DEF JobOK, Known, Creating, Checked, Loaded, At, Steps, Updating, Exists
<1>8. Holding(r)'
  <2>1. \A x \in recipient : x.template = k.template => x \in seen
    BY <1>4 DEF RecipientsOf
  <2> QED
    BY <1>0, <1>1, <1>2, <1>3, <1>4, <1>5, <1>6, <2>1 DEF JobOK, Holding, Exists
<1> QED
  BY <1>0, <1>1, <1>2, <1>3, <1>4, <1>6, <1>7, <1>8, GoesOn DEF JobOK, TypeOK

LEMMA AwakeInv == ASSUME IInv, NEW r \in Request, Awake(r)
                  PROVE  IInv'
<1> DEFINE k == [job[r] EXCEPT !.gone = @ \cap recipient, !.pc = "link"]
<1>0. TypeOK /\ \A q \in Request : JobOK(q)
  BY DEF IInv
<1>1. job[r].pc = "waiting" /\ job[r].pc \in Steps /\ job[r] \in Job
  BY <1>0 DEF Awake, At, Steps, TypeOK
<1>2. job' = [job EXCEPT ![r] = k] /\ job'[r] = k
  BY <1>0 DEF Awake, TypeOK
<1>3. /\ k \in Job /\ k.pc = "link" /\ k.gone = job[r].gone \cap recipient
      /\ k.template = job[r].template
      /\ k.user = job[r].user /\ k.text = job[r].text /\ k.base = job[r].base
      /\ k.wanted = job[r].wanted
  BY <1>1 DEF Job, Steps
<1>4. \A text : Merged(k, text) = Merged(job[r], text)
  BY <1>3 DEF Merged
<1> HIDE DEF k
<1>5. UNCHANGED <<contact, template, recipient, lock, dispatch>>
  BY DEF Awake
<1>6. Known(r)' /\ Creating(r)' /\ Checked(r)' /\ Loaded(r)'
  BY <1>0, <1>1, <1>2, <1>3, <1>5
     DEF JobOK, Known, Creating, Checked, Loaded, At, Steps, Updating, Exists
<1>7. Holding(r)'
  BY <1>0, <1>1, <1>2, <1>3, <1>4, <1>5 DEF JobOK, Holding, Exists
<1> QED
  BY <1>0, <1>1, <1>2, <1>3, <1>5, <1>6, <1>7, GoesOn DEF JobOK, TypeOK

LEMMA RemoveInv == ASSUME IInv, NEW r \in Request, Remove(r)
                   PROVE  IInv'
<1> DEFINE t == job[r].template
           k == [job[r] EXCEPT !.pc = "cascade"]
<1>0. TypeOK /\ \A q \in Request : JobOK(q)
  BY DEF IInv
<1>1. CASE Rollback(r)
  BY <1>1, RollbackInv
<1>2. CASE /\ Exists(t)
           /\ lock' = [lock EXCEPT ![t] = r] /\ Goto(r, "cascade")
           /\ UNCHANGED <<contact, template, recipient, dispatch>>
  <2>1. lock[t] = None /\ job[r].pc = "remove" /\ job[r].pc \in Steps
    BY LockFree DEF Remove, At, Steps
  <2>2. t \in Template /\ job[r] \in Job
    BY <1>0, <2>1 DEF JobOK, Known, TypeOK
  <2>3. k \in Job /\ k.pc = "cascade" /\ k.template = t /\ k.user = job[r].user
    BY <2>2 DEF Job, Steps
  <2>4. job' = [job EXCEPT ![r] = k] /\ job'[r] = k
    BY <1>0, <1>2 DEF Goto, TypeOK
  <2>5. /\ lock' \in [Template -> Request \cup {None}] /\ lock'[t] = r
        /\ \A s \in Template : lock[s] \in Request \ {r} => lock'[s] = lock[s]
    BY <1>0, <1>2, <2>1, <2>2, TemplatesAssumption DEF TypeOK
  <2> HIDE DEF k
  <2>6. JobOK(r)'
    BY <1>0, <1>2, <2>1, <2>3, <2>4, <2>5
       DEF JobOK, Known, Creating, Checked, Loaded, Holding, At, Steps, Updating, Exists
  <2> QED
    BY <1>2, <2>1, <2>3, <2>4, <2>5, <2>6, GoesOn
<1> QED
  BY <1>1, <1>2 DEF Remove

\* The COMMIT of an update: the new columns fit, because they were checked
\* under the lock; the new recipients have an owner, because the foreign key has.
LEMMA LinkInv == ASSUME IInv, NEW r \in Request, Link(r)
                 PROVE  IInv'
<1> DEFINE j == job[r]
           t == j.template
           refused == Clash(r) # {} \/ (j.wanted # {} /\ ~Exists(t))
           writes == j.text # j.base
<1>0. TypeOK /\ RowInv /\ Unique /\ RecipientsOwned /\ SmsFits /\ WritersNotMixed
      /\ \A q \in Request : JobOK(q)
  BY DEF IInv
<1>1. CASE Rollback(r)
  BY <1>1, RollbackInv
<1>2. CASE /\ ~refused
           /\ recipient' = (recipient \ j.gone) \cup Linked(r)
           /\ IF writes THEN template' = [template EXCEPT ![t].text = Merged(j, @)]
                        ELSE UNCHANGED template
           /\ job' = [job EXCEPT ![r] = NoJob("done")]
           /\ lock' = Released(r)
           /\ UNCHANGED <<contact, dispatch>>
  <2>1. j.pc = "link" /\ j.pc \in Steps /\ j \in Job
    BY <1>0 DEF Link, At, Steps, TypeOK
  <2>2. /\ t \in Template /\ j.user \in User /\ j.text \in Text /\ j.base \in Text
        /\ j.wanted \subseteq Contact
        /\ \A c \in j.wanted : contact[c] = j.user
        /\ template[t].state # "none"
        /\ Exists(t) => template[t].owner = j.user
    BY <1>0, <2>1 DEF JobOK, Known, Checked, Loaded, Updating, Job
  <2>3. writes => /\ lock[t] = r /\ Exists(t) /\ Fits(Merged(j, template[t].text))
                  /\ \A x \in recipient : x.template = t /\ x.full => x \in j.gone
    BY <1>0, <2>1 DEF JobOK, Holding
  <2>4. \A x \in Linked(r) : /\ x \in Rows /\ x.template = t /\ x.contact \in j.wanted /\ x.by = r
                             /\ x.full => writes
    BY <2>2, LinkedRows
  <2>5. /\ template' \in [Template -> [owner : User \cup {None}, text : Text \cup {NoText},
                                       state : {"none", "here", "gone"}]]
        /\ \A s \in Template : /\ template'[s].state = template[s].state
                               /\ template'[s].owner = template[s].owner
        /\ \A s \in Template \ {t} : template'[s] = template[s]
        /\ ~writes => template' = template
        /\ writes => template'[t].text = Merged(j, template[t].text)
    <3>1. CASE ~writes
      BY <1>0, <1>2, <3>1 DEF TypeOK
    <3>2. CASE writes
      <4>1. Merged(j, template[t].text) \in Text
        BY <1>0, <2>2, <2>3, <3>2, MergedText DEF RowInv
      <4>2. template' = [template EXCEPT ![t].text = Merged(j, template[t].text)]
        BY <1>2, <3>2
      <4> QED
        BY <1>0, <2>2, <3>2, <4>1, <4>2 DEF TypeOK
    <3> QED
      BY <3>1, <3>2
  <2>6. recipient' = (recipient \ j.gone) \cup Linked(r)
    BY <1>2
  <2> HIDE DEF writes, refused
  <2>7. TypeOK'
    <3>1. lock' \in [Template -> Request \cup {None}]
      BY <1>0, <1>2 DEF TypeOK, Released
    <3>2. job' \in [Request -> Job]
      BY <1>0, <1>2 DEF TypeOK, NoJob, Job
    <3>3. recipient' \subseteq Rows
      BY <1>0, <2>4, <2>6 DEF TypeOK
    <3> QED
      BY <1>0, <1>2, <2>5, <3>1, <3>2, <3>3 DEF TypeOK
  <2>8. (\A q \in Request : JobOK(q))' /\ Unique'
    <3>1. ASSUME NEW q \in Request \ {r}, job[q].pc \in Steps
          PROVE  LET s == job[q].template IN
                 /\ \/ template'[s] = template[s]
                    \/ /\ template[s].state # "none" /\ template'[s].state # "none"
                       /\ lock[s] # q
                       /\ template'[s].state = "here" => /\ Exists(s)
                                                         /\ template'[s].owner = template[s].owner
                 /\ \A x \in recipient' : x.template = s /\ x.full => x \in recipient \/ lock[s] # q
      <4>1. job[q].template \in Template
        BY <1>0, <3>1 DEF JobOK, Known
      <4> QED
        BY <2>2, <2>3, <2>4, <2>5, <2>6, <3>1, <4>1 DEF Exists
    <3> QED
      BY <1>2, <2>1, <2>7, <3>1, Committed
  <2>9. RowInv' /\ SmsFits'
    BY <1>0, <1>2, <2>2, <2>3, <2>5, MergedText DEF RowInv, SmsFits, Exists
  <2>10. RecipientsOwned'
    <3>1. \A x \in Linked(r) : Exists(t) /\ contact[x.contact] = template[t].owner
      BY <1>2, <2>2, <2>4 DEF refused
    <3> QED
      BY <1>0, <1>2, <2>2, <2>4, <2>5, <2>6, <3>1 DEF RecipientsOwned, Exists, TypeOK, Rows
  <2>11. WritersNotMixed'
    BY <1>0, <2>3, <2>4, <2>6 DEF WritersNotMixed
  <2> QED
    BY <2>7, <2>8, <2>9, <2>10, <2>11 DEF IInv
<1> QED
  BY <1>1, <1>2 DEF Link

LEMMA CascadeInv == ASSUME IInv, NEW r \in Request, Cascade(r)
                    PROVE  IInv'
<1> DEFINE t == job[r].template
<1>0. TypeOK /\ RowInv /\ Unique /\ RecipientsOwned /\ SmsFits /\ WritersNotMixed
      /\ \A q \in Request : JobOK(q)
  BY DEF IInv
<1>1. job[r].pc = "cascade" /\ job[r].pc \in Steps
  BY DEF Cascade, At, Steps
<1>2. t \in Template /\ lock[t] = r /\ template[t].state # "none"
  BY <1>0, <1>1 DEF JobOK, Known, Loaded, Holding
<1>3. /\ template' = [template EXCEPT ![t] = Gone]
      /\ recipient' = recipient \ RecipientsOf(t)
      /\ job' = [job EXCEPT ![r] = NoJob("done")]
      /\ lock' = Released(r)
      /\ UNCHANGED <<contact, dispatch>>
  BY DEF Cascade
<1>4. template'[t].state = "gone" /\ \A s \in Template \ {t} : template'[s] = template[s]
  BY <1>0, <1>2, <1>3 DEF TypeOK, Gone, NoRow
<1>5. \A x \in recipient' : x \in recipient /\ x.template # t
  BY <1>3 DEF RecipientsOf
<1>6. TypeOK'
  BY <1>0, <1>3, <1>5 DEF TypeOK, Released, NoJob, Job, Gone, NoRow
<1>7. (\A q \in Request : JobOK(q))' /\ Unique'
  <2>1. ASSUME NEW q \in Request \ {r}, job[q].pc \in Steps
        PROVE  LET s == job[q].template IN
               \/ template'[s] = template[s]
               \/ /\ template[s].state # "none" /\ template'[s].state = "gone"
                  /\ lock[s] # q
    BY <1>0, <1>2, <1>4, <2>1 DEF JobOK, Known
  <2> QED
    BY <1>1, <1>3, <1>5, <1>6, <2>1, Committed
<1>8. (RowInv /\ SmsFits)'
  BY <1>0, <1>3, <1>4 DEF RowInv, SmsFits, Exists
<1>9. (RecipientsOwned /\ WritersNotMixed)'
  BY <1>0, <1>3, <1>4, <1>5 DEF RecipientsOwned, WritersNotMixed, Exists, TypeOK, Rows
<1> QED
  BY <1>6, <1>7, <1>8, <1>9 DEF IInv

\* What a send copies fits and goes to its sender's contacts.
LEMMA ResolveInv == ASSUME IInv, NEW r \in Request, Resolve(r)
                    PROVE  IInv'
<1> DEFINE j == job[r]
           contacts == {x.contact : x \in RecipientsOf(j.template)}
           copy == [user |-> j.user, text |-> j.base, contacts |-> OwnedIds(j.user, contacts)]
<1>0. TypeOK /\ RecipientsOwned /\ SmsFits /\ \A q \in Request : JobOK(q)
  BY DEF IInv
<1>1. CASE Rollback(r)
  BY <1>1, RollbackInv
<1>2. CASE /\ dispatch' = dispatch \cup {copy}
           /\ job' = [job EXCEPT ![r] = NoJob("done")]
           /\ UNCHANGED <<contact, template, recipient, lock>>
  <2>1. j.pc = "resolve" /\ j.pc \in Steps
    BY DEF Resolve, At, Steps
  <2>2. j.user \in User /\ j.base \in Text /\ Fits(j.base)
    BY <1>0, <2>1 DEF JobOK, Known, Loaded
  <2>3. contacts \subseteq Contact
    BY <1>0 DEF RecipientsOf, TypeOK, Rows
  <2>4. OwnedIds(j.user, contacts) \subseteq Contact
        /\ \A c \in OwnedIds(j.user, contacts) : contact[c] = j.user
    BY <2>3 DEF OwnedIds
  <2>5. TypeOK'
    BY <1>0, <1>2, <2>2, <2>4 DEF TypeOK, NoJob, Job
  <2>6. (\A q \in Request : JobOK(q))' /\ Unique'
    BY <1>2, <2>1, <2>5, Committed
  <2>7. RecipientsOwned' /\ SmsFits'
    BY <1>0, <1>2, <2>2, <2>4 DEF RecipientsOwned, SmsFits, Exists
  <2>8. (RowInv /\ WritersNotMixed)'
    BY <1>2 DEF IInv, RowInv, WritersNotMixed, Exists
  <2> QED
    BY <2>5, <2>6, <2>7, <2>8 DEF IInv
<1> QED
  BY <1>1, <1>2 DEF Resolve

-----------------------------------------------------------------------------
(* Who waits for whom *)

\* A step of r that leaves it without a snapshot: the rows it inserts are in
\* nobody's snapshot, and those it removes nobody else has deleted.
LEMMA WaitFrame ==
  ASSUME TypeOK, WaitInv, NEW r \in Request, NEW k, job' = [job EXCEPT ![r] = k],
         ~At(r, "done"), k.pc \notin {"waiting", "link"},
         \A t \in Template : \/ lock'[t] = None
                             \/ lock'[t] = lock[t] /\ lock[t] # r
                             \/ /\ lock'[t] = r /\ k.template = t
                                /\ k.pc \in {"unlink", "cascade"},
         \A x \in recipient' : x \in recipient \/ (x.by = r /\ k.pc = "done"),
         \A q \in Request \ {r} : At(q, "link") => job[q].gone \subseteq recipient'
  PROVE  WaitInv'
<1>1. job'[r] = k /\ \A q \in Request \ {r} : job'[q] = job[q]
  BY DEF TypeOK
<1>2. ASSUME NEW q \in Request, Deleting(q)'
      PROVE  /\ q # r /\ job'[q] = job[q] /\ Deleting(q)
             /\ At(q, "link")' => At(q, "link")
  BY <1>1, <1>2 DEF Deleting, At
<1>3. \A x \in Rows : At(x.by, "done") => x.by # r /\ At(x.by, "done")'
  BY <1>1 DEF Rows, At
<1>4. recipient \subseteq Rows /\ \A q \in Request : job[q].gone \subseteq Rows
  BY DEF TypeOK, Job
<1>5. Held'
  <2> SUFFICES ASSUME NEW t \in Template, lock'[t] # None
               PROVE  /\ job'[lock'[t]].pc \in {"unlink", "waiting", "link", "cascade"}
                      /\ job'[lock'[t]].template = t
    BY DEF Held
  <2>1. CASE lock'[t] = r
    BY <2>1, <1>1
  <2>2. CASE lock'[t] = lock[t] /\ lock[t] # r
    <3>1. lock[t] \in Request \ {r}
      BY <2>2 DEF TypeOK
    <3> QED
      BY <2>2, <3>1, <1>1 DEF WaitInv, Held
  <2> QED
    BY <2>1, <2>2
<1>6. CommittedRows'
  <2>1. ASSUME NEW x \in recipient'
        PROVE  At(x.by, "done")'
    BY <1>1, <1>3, <1>4 DEF WaitInv, CommittedRows, At
  <2>2. ASSUME NEW q \in Request, Deleting(q)', NEW x \in job'[q].gone
        PROVE  x.template = job'[q].template /\ At(x.by, "done")'
    <3>1. job'[q] = job[q] /\ Deleting(q)
      BY <2>2, <1>2
    <3> QED
      BY <3>1, <1>3, <1>4 DEF WaitInv, CommittedRows
  <2> QED
    BY <2>1, <2>2 DEF CommittedRows
<1>7. Exclusive'
  <2>1. ASSUME NEW q \in Request, At(q, "link")'
        PROVE  q # r /\ job'[q] = job[q] /\ At(q, "link")
    BY <2>1, <1>2 DEF Deleting, At
  <2> QED
    BY <2>1 DEF WaitInv, Exclusive
<1>8. Nested'
  <2> SUFFICES ASSUME NEW p \in Request, NEW q \in Request, Deleting(p)', Deleting(q)',
                      job'[p].template = job'[q].template
               PROVE  \/ job'[p].gone \cap recipient' \subseteq job'[q].gone
                      \/ job'[q].gone \cap recipient' \subseteq job'[p].gone
    BY DEF Nested
  <2>1. /\ job'[p] = job[p] /\ job'[q] = job[q] /\ Deleting(p) /\ Deleting(q)
    BY <1>2
  <2>2. \A x \in job[p].gone \cup job[q].gone : x.by # r
    BY <2>1, <1>3, <1>4 DEF WaitInv, CommittedRows
  <2>3. \/ job[p].gone \cap recipient \subseteq job[q].gone
        \/ job[q].gone \cap recipient \subseteq job[p].gone
    BY <2>1 DEF WaitInv, Nested
  <2> QED
    BY <2>1, <2>2, <2>3
<1> QED
  BY <1>5, <1>6, <1>7, <1>8 DEF WaitInv

\* A step of r that takes a snapshot, or locks what is left of it.
LEMMA SnapshotFrame ==
  ASSUME TypeOK, WaitInv, NEW r \in Request, NEW k, job' = [job EXCEPT ![r] = k],
         job[r].pc \in {"unlink", "waiting"}, k.pc \in {"waiting", "link"},
         k.template = job[r].template, UNCHANGED <<recipient, lock>>,
         \A x \in k.gone : x \in recipient /\ x.template = k.template,
         k.pc = "link" => Deleters(r, k.gone) = {},
         \A q \in Request \ {r} : Deleting(q) /\ job[q].template = k.template =>
              \/ k.gone \subseteq job[q].gone
              \/ job[q].gone \cap recipient \subseteq k.gone
  PROVE  WaitInv'
<1>1. job'[r] = k /\ \A q \in Request \ {r} : job'[q] = job[q]
  BY DEF TypeOK
<1>2. recipient \subseteq Rows /\ \A q \in Request : job[q].gone \subseteq Rows
  BY DEF TypeOK, Job
<1>3. \A x \in Rows : At(x.by, "done") => At(x.by, "done")'
  BY <1>1 DEF Rows, At
<1>4. Held'
  <2>1. \A t \in Template : lock[t] \in Request \cup {None}
    BY DEF TypeOK
  <2> QED
    BY <1>1, <2>1 DEF WaitInv, Held
<1>5. CommittedRows'
  <2>1. ASSUME NEW q \in Request, Deleting(q)', NEW x \in job'[q].gone
        PROVE  x.template = job'[q].template /\ At(x.by, "done")'
    <3>1. CASE q = r
      BY <3>1, <2>1, <1>1, <1>2, <1>3 DEF WaitInv, CommittedRows
    <3>2. CASE q # r
      BY <3>2, <2>1, <1>1, <1>2, <1>3 DEF WaitInv, CommittedRows, Deleting
    <3> QED
      BY <3>1, <3>2
  <2>2. \A x \in recipient' : At(x.by, "done")'
    BY <1>2, <1>3 DEF WaitInv, CommittedRows
  <2> QED
    BY <2>1, <2>2 DEF CommittedRows
<1>6. Exclusive'
  <2>1. ASSUME NEW q \in Request, At(q, "link")'
        PROVE  job'[q].gone \subseteq recipient'
    BY <2>1, <1>1 DEF WaitInv, Exclusive, At
  <2>2. ASSUME NEW p \in Request, NEW q \in Request, p # q, At(p, "link")', At(q, "link")'
        PROVE  job'[p].gone \cap job'[q].gone = {}
    <3>1. CASE p # r /\ q # r
      BY <3>1, <2>2, <1>1 DEF WaitInv, Exclusive, At
    <3>2. CASE p = r
      BY <3>2, <2>2, <1>1 DEF Deleters, At
    <3>3. CASE q = r
      BY <3>3, <2>2, <1>1 DEF Deleters, At
    <3> QED
      BY <3>1, <3>2, <3>3
  <2> QED
    BY <2>1, <2>2 DEF Exclusive
<1>7. Nested'
  <2> SUFFICES ASSUME NEW p \in Request, NEW q \in Request, Deleting(p)', Deleting(q)',
                      job'[p].template = job'[q].template
               PROVE  \/ job'[p].gone \cap recipient \subseteq job'[q].gone
                      \/ job'[q].gone \cap recipient \subseteq job'[p].gone
    BY DEF Nested
  <2>1. CASE p # r /\ q # r
    BY <2>1, <1>1 DEF WaitInv, Nested, Deleting
  <2>2. CASE p = r /\ q # r
    BY <2>2, <1>1 DEF Deleting
  <2>3. CASE q = r /\ p # r
    BY <2>3, <1>1 DEF Deleting
  <2> QED
    BY <2>1, <2>2, <2>3
<1> QED
  BY <1>4, <1>5, <1>6, <1>7 DEF WaitInv

\* A rollback, a read or a refusal: locks are only given up.
LEMMA RollbackWait == ASSUME IInv, WaitInv, NEW r \in Request, ~At(r, "done"), Rollback(r)
                      PROVE  WaitInv'
<1>1. TypeOK
  BY DEF IInv
<1>2. \A t \in Template : lock'[t] = None \/ (lock'[t] = lock[t] /\ lock[t] # r)
  BY DEF Rollback, Released
<1>3. \A q \in Request : At(q, "link") => job[q].gone \subseteq recipient'
  BY DEF Rollback, WaitInv, Exclusive
<1>4. NoJob("done").pc = "done"
  BY DEF NoJob
<1> QED
  BY <1>1, <1>2, <1>3, <1>4, WaitFrame DEF Rollback

\* An open request that holds no lock by Held.
LEMMA NoLock == ASSUME WaitInv, NEW r \in Request,
                       job[r].pc \notin {"unlink", "waiting", "link", "cascade"}
                PROVE  \A t \in Template : lock[t] = None \/ lock[t] # r
BY DEF WaitInv, Held

LEMMA BeginWait == ASSUME IInv, WaitInv, NEW r \in Request, Begin(r)
                   PROVE  WaitInv'
<1>1. TypeOK
  BY DEF IInv
<1>2. job[r].pc = "new" /\ UNCHANGED <<lock, recipient>>
  BY DEF Begin, At
<1>3. PICK k : job' = [job EXCEPT ![r] = k] /\ k.pc \notin {"waiting", "link"}
  <2>1. ASSUME NEW j, j.op \in {"update", "delete", "send"}, Load(r, j),
               \A e, b : [j EXCEPT !.pc = e, !.base = b].pc = e
        PROVE  \E k : job' = [job EXCEPT ![r] = k] /\ k.pc \notin {"waiting", "link"}
    <3> DEFINE row == template[j.template]
               next == CASE j.op = "delete" -> "remove"
                         [] j.op = "send" -> "resolve"
                         [] j.op = "update" -> IF j.text = row.text THEN "unlink" ELSE "write"
               k == IF Exists(j.template) /\ row.owner = j.user
                      THEN [j EXCEPT !.pc = next, !.base = row.text]
                      ELSE NoJob("done")
    <3>1. job' = [job EXCEPT ![r] = k]
      BY <2>1 DEF Load
    <3>2. next \in {"remove", "resolve", "unlink", "write"}
      BY <2>1
    <3> HIDE DEF next
    <3>3. k.pc \notin {"waiting", "link"}
      BY <2>1, <3>2 DEF NoJob
    <3> QED
      BY <3>1, <3>3
  <2>2. ASSUME NEW op, NEW u, NEW t, NEW text, NEW wanted
        PROVE  LET j == Request0(op, u, t, text, wanted)
               IN /\ j.op = op /\ j.pc = "insert"
                  /\ \A e, b : [j EXCEPT !.pc = e, !.base = b].pc = e
    BY DEF Request0, NoJob
  <2>3. PICK u \in User, t \in Template :
               \/ \E text \in Text, wanted \in SUBSET Contact : Save(r, u, t, text, wanted)
               \/ \E op \in {"delete", "send"} : Load(r, Request0(op, u, t, NoText, {}))
    BY DEF Begin
  <2>4. CASE \E text \in Text, wanted \in SUBSET Contact : Save(r, u, t, text, wanted)
    BY <2>1, <2>2, <2>4 DEF Save
  <2>5. CASE \E op \in {"delete", "send"} : Load(r, Request0(op, u, t, NoText, {}))
    BY <2>1, <2>2, <2>5
  <2> QED
    BY <2>3, <2>4, <2>5
<1>4. \A t \in Template : lock'[t] = None \/ (lock'[t] = lock[t] /\ lock[t] # r)
  BY <1>2, NoLock
<1>5. \A q \in Request : At(q, "link") => job[q].gone \subseteq recipient'
  BY <1>2 DEF WaitInv, Exclusive
<1> QED
  BY <1>1, <1>2, <1>3, <1>4, <1>5, WaitFrame DEF At

LEMMA InsertWait == ASSUME IInv, WaitInv, NEW r \in Request, Insert(r)
                    PROVE  WaitInv'
<1>1. TypeOK
  BY DEF IInv
<1>2. /\ job[r].pc = "insert" /\ lock' = lock /\ recipient' = recipient \cup Linked(r)
      /\ job' = [job EXCEPT ![r] = NoJob("done")]
  BY DEF Insert, At
<1>3. \A x \in Linked(r) : x.by = r
  BY DEF Linked
<1>4. \A t \in Template : lock'[t] = None \/ (lock'[t] = lock[t] /\ lock[t] # r)
  BY <1>2, NoLock
<1>5. \A q \in Request : At(q, "link") => job[q].gone \subseteq recipient'
  BY <1>2 DEF WaitInv, Exclusive
<1>6. NoJob("done").pc = "done" /\ ~At(r, "done")
  BY <1>2 DEF NoJob, At
<1> QED
  BY <1>1, <1>2, <1>3, <1>4, <1>5, <1>6, WaitFrame

\* Write and Remove take a lock that is free.
LEMMA TakesLock ==
  ASSUME IInv, WaitInv, NEW r \in Request, NEW pc \in {"unlink", "cascade"},
         job[r].pc \in {"write", "remove"}, WaitsFor(r) = {},
         lock' = [lock EXCEPT ![job[r].template] = r], Goto(r, pc), UNCHANGED recipient
  PROVE  WaitInv'
<1> DEFINE k == [job[r] EXCEPT !.pc = pc]
<1>1. TypeOK /\ job[r] \in Job
  BY DEF IInv, TypeOK
<1>2. job' = [job EXCEPT ![r] = k]
  BY DEF Goto
<1>3. k.pc = pc /\ k.template = job[r].template
  BY <1>1 DEF Job
<1> HIDE DEF k
<1>4. \A t \in Template : \/ lock'[t] = None
                          \/ lock'[t] = lock[t] /\ lock[t] # r
                          \/ lock'[t] = r /\ k.template = t /\ k.pc \in {"unlink", "cascade"}
  BY <1>1, <1>3, NoLock DEF TypeOK
<1>5. \A q \in Request : At(q, "link") => job[q].gone \subseteq recipient'
  BY DEF WaitInv, Exclusive
<1> QED
  BY <1>1, <1>2, <1>3, <1>4, <1>5, WaitFrame DEF At

LEMMA UnlinkWait == ASSUME IInv, WaitInv, NEW r \in Request, Unlink(r)
                    PROVE  WaitInv'
<1> DEFINE seen == RecipientsOf(job[r].template)
           next == IF Deleters(r, seen) = {} THEN "link" ELSE "waiting"
           k == [job[r] EXCEPT !.gone = seen, !.pc = next]
<1>1. TypeOK /\ job[r] \in Job
  BY DEF IInv, TypeOK
<1>2. job[r].pc = "unlink" /\ UNCHANGED <<recipient, lock>>
  BY DEF Unlink, At
<1>3. job' = [job EXCEPT ![r] = k]
  BY DEF Unlink
<1>4. next \in {"link", "waiting"} /\ (next = "link" => Deleters(r, seen) = {})
  OBVIOUS
<1> HIDE DEF next
<1>5. k.pc = next /\ k.template = job[r].template /\ k.gone = seen
  BY <1>1 DEF Job
<1> HIDE DEF k
<1>6. \A x \in seen : x \in recipient /\ x.template = job[r].template
  BY DEF RecipientsOf
<1>7. ASSUME NEW q \in Request, Deleting(q), job[q].template = k.template
      PROVE  job[q].gone \cap recipient \subseteq seen
  BY <1>5, <1>7 DEF WaitInv, CommittedRows, RecipientsOf
<1> HIDE DEF seen
<1> QED
  BY <1>1, <1>2, <1>3, <1>4, <1>5, <1>6, <1>7, SnapshotFrame

LEMMA AwakeWait == ASSUME IInv, WaitInv, NEW r \in Request, Awake(r)
                   PROVE  WaitInv'
<1> DEFINE left == job[r].gone \cap recipient
           k == [job[r] EXCEPT !.gone = left, !.pc = "link"]
<1>1. TypeOK /\ job[r] \in Job
  BY DEF IInv, TypeOK
<1>2. job[r].pc = "waiting" /\ UNCHANGED <<recipient, lock>>
  BY DEF Awake, At
<1>3. job' = [job EXCEPT ![r] = k]
  BY DEF Awake
<1>4. k.pc = "link" /\ k.template = job[r].template /\ k.gone = left
  BY <1>1 DEF Job
<1> HIDE DEF k
<1>5. Deleters(r, job[r].gone) = {}
  BY <1>2 DEF Awake, WaitsFor
<1>6. Deleters(r, left) = {}
  BY <1>5 DEF Deleters
<1>7. \A x \in left : x \in recipient /\ x.template = job[r].template
  BY <1>2 DEF WaitInv, CommittedRows, Deleting
<1>8. ASSUME NEW q \in Request, Deleting(q), job[q].template = k.template
      PROVE  left \subseteq job[q].gone \/ job[q].gone \cap recipient \subseteq left
  BY <1>2, <1>4, <1>8 DEF WaitInv, Nested, Deleting
<1> HIDE DEF left
<1> QED
  BY <1>1, <1>2, <1>3, <1>4, <1>6, <1>7, <1>8, SnapshotFrame

\* The COMMIT of an update removes what it alone has deleted.
LEMMA LinkWait == ASSUME IInv, WaitInv, NEW r \in Request, Link(r)
                  PROVE  WaitInv'
<1>1. TypeOK /\ job[r].pc = "link" /\ ~At(r, "done")
  BY DEF IInv, Link, At
<1>2. CASE Rollback(r)
  BY <1>1, <1>2, RollbackWait
<1>3. CASE /\ recipient' = (recipient \ job[r].gone) \cup Linked(r)
           /\ job' = [job EXCEPT ![r] = NoJob("done")]
           /\ lock' = Released(r)
  <2>1. \A x \in Linked(r) : x.by = r
    BY DEF Linked
  <2>2. \A t \in Template : lock'[t] = None \/ (lock'[t] = lock[t] /\ lock[t] # r)
    BY <1>3 DEF Released
  <2>3. \A q \in Request \ {r} : At(q, "link") => job[q].gone \subseteq recipient'
    BY <1>1, <1>3 DEF WaitInv, Exclusive, At
  <2>4. NoJob("done").pc = "done"
    BY DEF NoJob
  <2> QED
    BY <1>1, <1>3, <2>1, <2>2, <2>3, <2>4, WaitFrame
<1> QED
  BY <1>2, <1>3 DEF Link

\* The cascade finds no recipient that another has deleted.
LEMMA CascadeWait == ASSUME IInv, WaitInv, NEW r \in Request, Cascade(r)
                     PROVE  WaitInv'
<1>1. TypeOK /\ job[r].pc = "cascade" /\ ~At(r, "done")
  BY DEF IInv, Cascade, At
<1>2. /\ recipient' = recipient \ RecipientsOf(job[r].template)
      /\ job' = [job EXCEPT ![r] = NoJob("done")]
      /\ lock' = Released(r)
  BY DEF Cascade
<1>3. Deleters(r, RecipientsOf(job[r].template)) = {}
  BY <1>1 DEF Cascade, WaitsFor
<1>4. \A q \in Request \ {r} : At(q, "link") => job[q].gone \subseteq recipient'
  BY <1>2, <1>3 DEF WaitInv, Exclusive, Deleters
<1>5. \A t \in Template : lock'[t] = None \/ (lock'[t] = lock[t] /\ lock[t] # r)
  BY <1>2 DEF Released
<1>6. NoJob("done").pc = "done"
  BY DEF NoJob
<1> QED
  BY <1>1, <1>2, <1>4, <1>5, <1>6, WaitFrame

LEMMA ResolveWait == ASSUME IInv, WaitInv, NEW r \in Request, Resolve(r)
                     PROVE  WaitInv'
<1>1. TypeOK /\ job[r].pc = "resolve" /\ ~At(r, "done")
  BY DEF IInv, Resolve, At
<1>2. CASE Rollback(r)
  BY <1>1, <1>2, RollbackWait
<1>3. CASE /\ job' = [job EXCEPT ![r] = NoJob("done")]
           /\ UNCHANGED <<contact, template, recipient, lock>>
  <2>1. \A t \in Template : lock'[t] = None \/ (lock'[t] = lock[t] /\ lock[t] # r)
    BY <1>1, <1>3, NoLock
  <2>2. \A q \in Request : At(q, "link") => job[q].gone \subseteq recipient'
    BY <1>3 DEF WaitInv, Exclusive
  <2>3. NoJob("done").pc = "done"
    BY DEF NoJob
  <2> QED
    BY <1>1, <1>3, <2>1, <2>2, <2>3, WaitFrame
<1> QED
  BY <1>2, <1>3 DEF Resolve

LEMMA StepWait == ASSUME IInv, WaitInv, NEW r \in Request, Step(r)
                  PROVE  WaitInv'
<1>1. CASE Insert(r) \/ Unlink(r) \/ Awake(r) \/ Link(r) \/ Cascade(r) \/ Resolve(r)
  BY <1>1, InsertWait, UnlinkWait, AwakeWait, LinkWait, CascadeWait, ResolveWait
<1>2. CASE Write(r)
  <2>1. job[r].pc = "write" /\ WaitsFor(r) = {}
    BY <1>2 DEF Write, At
  <2> QED
    BY <1>2, <2>1, TakesLock, RollbackWait DEF Write, At
<1>3. CASE Remove(r)
  <2>1. job[r].pc = "remove" /\ WaitsFor(r) = {}
    BY <1>3 DEF Remove, At
  <2> QED
    BY <1>3, <2>1, TakesLock, RollbackWait DEF Remove, At
<1>4. CASE Deadlock(r)
  <2>1. ~At(r, "done")
    BY <1>4 DEF Deadlock, Victim, WaitsFor, At
  <2> QED
    BY <1>4, <2>1, RollbackWait DEF Deadlock
<1> QED
  BY <1>1, <1>2, <1>3, <1>4 DEF Step

\* At most one request has recipients of a template deleted and not committed.
LEMMA OneDeleter ==
  ASSUME WaitInv, NEW q \in Request, NEW r \in Request, At(q, "link"), At(r, "link"),
         job[q].template = job[r].template, job[q].gone # {}, job[r].gone # {}
  PROVE  q = r
BY DEF WaitInv, Exclusive, Nested, Deleting, At

\* Who waits for a deleter is at a statement about the same template.
LEMMA DeleterOf ==
  ASSUME WaitInv, NEW r \in Request, NEW rows, NEW q \in Deleters(r, rows),
         \A x \in rows : x.template = job[r].template
  PROVE  /\ q \in Request /\ At(q, "link") /\ job[q].gone # {} /\ q # r
         /\ job[q].template = job[r].template
BY DEF WaitInv, CommittedRows, Deleting, Deleters, At

\* r waits for a deleter of its template, or for the delete that holds the lock.
LEMMA WaitsOn ==
  ASSUME WaitInv, NEW r \in Request, job[r].pc \in {"waiting", "link", "cascade"},
         NEW q \in WaitsFor(r)
  PROVE  /\ q \in Request
         /\ \/ At(q, "link") /\ job[q].gone # {} /\ job[q].template = job[r].template /\ q # r
            \/ At(r, "link") /\ q = lock[job[r].template] /\ At(q, "cascade")
<1>1. CASE job[r].pc = "waiting"
  <2>1. q \in Deleters(r, job[r].gone)
    BY <1>1 DEF WaitsFor
  <2>2. \A x \in job[r].gone : x.template = job[r].template
    BY <1>1 DEF WaitInv, CommittedRows, Deleting
  <2> QED
    BY <2>1, <2>2, DeleterOf
<1>2. CASE job[r].pc = "link"
  <2>1. q \in LinkWaits(r)
    BY <1>2 DEF WaitsFor
  <2>2. \A x \in Clash(r) : x.template = job[r].template
    BY DEF Clash, RecipientsOf
  <2>3. CASE q \in Deleters(r, Clash(r))
    BY <2>2, <2>3, DeleterOf
  <2> QED
    BY <1>2, <2>1, <2>3 DEF LinkWaits, Removing, At
<1>3. CASE job[r].pc = "cascade"
  <2>1. q \in Deleters(r, RecipientsOf(job[r].template))
    BY <1>3 DEF WaitsFor
  <2>2. \A x \in RecipientsOf(job[r].template) : x.template = job[r].template
    BY DEF RecipientsOf
  <2> QED
    BY <2>1, <2>2, DeleterOf
<1> QED
  BY <1>1, <1>2, <1>3

\* A deleter waits for nobody but the delete that holds the lock, and that one
\* can go on: if it waits at all, it waits for the deleter, and the database
\* ends one of the two.
LEMMA DeleterWaits ==
  ASSUME IInv, WaitInv, NEW d \in Request, At(d, "link"), job[d].gone # {},
         NEW c \in WaitsFor(d)
  PROVE  c = lock[job[d].template] /\ At(c, "cascade") /\ Ready(c)
<1>1. job[d].template \in Template
  BY DEF IInv, JobOK, Known, At, Steps
<1>2. c \in Request /\ c = lock[job[d].template] /\ At(c, "cascade")
  BY WaitsOn, OneDeleter DEF At
<1>3. job[c].template = job[d].template /\ c \in Open
  BY <1>1, <1>2, TemplatesAssumption DEF WaitInv, Held, Open, At, Steps
<1>4. ASSUME NEW q \in WaitsFor(c)
      PROVE  q = d
  <2>1. q \in Request /\ At(q, "link") /\ job[q].gone # {} /\ job[q].template = job[d].template
    BY <1>2, <1>3, WaitsOn DEF At
  <2> QED
    BY <2>1, OneDeleter
<1>5. Ready(c)
  BY <1>3, <1>4 DEF Ready, Victim
<1> QED
  BY <1>2, <1>5

\* Every wait is for a request that can go on, or that waits for one that can.
LEMMA WaitInvGoesOn == IInv /\ WaitInv => SomeoneGoesOn
<1> SUFFICES ASSUME IInv, WaitInv, NEW r \in Open, ~Ready(r)
             PROVE  \E q \in WaitsFor(r) : Ready(q) \/ \E p \in WaitsFor(q) : Ready(p)
  BY DEF SomeoneGoesOn
<1> DEFINE t == job[r].template
<1>1. r \in Request /\ t \in Template /\ WaitsFor(r) # {}
  BY DEF Open, IInv, JobOK, Known, Ready
<1>2. PICK q : q \in WaitsFor(r)
  BY <1>1
\* A request that is not at a wait of its own can go on.
<1>3. ASSUME NEW p \in Request, p \in Open, WaitsFor(p) = {}
      PROVE  Ready(p)
  BY <1>3 DEF Ready
<1>4. ASSUME NEW d \in Request, At(d, "link"), job[d].gone # {}
      PROVE  Ready(d) \/ \E c \in WaitsFor(d) : /\ c = lock[job[d].template] /\ At(c, "cascade")
                                                /\ Ready(c)
  BY <1>3, <1>4, DeleterWaits DEF Open, At, Steps
<1>5. CASE job[r].pc \in {"write", "remove"}
  <2>1. q = lock[t] /\ q # None
    BY <1>2, <1>5 DEF WaitsFor
  <2>2. /\ job[q].pc \in {"unlink", "waiting", "link", "cascade"} /\ job[q].template = t
        /\ q \in Request /\ q \in Open
    BY <1>1, <2>1 DEF WaitInv, Held, IInv, TypeOK, Open, Steps
  <2>3. CASE WaitsFor(q) = {}
    BY <1>2, <1>3, <2>2, <2>3
  <2>4. CASE WaitsFor(q) # {}
    <3>1. PICK d : d \in WaitsFor(q)
      BY <2>4
    <3>2. job[q].pc \in {"waiting", "link", "cascade"}
      BY <2>2, <3>1 DEF WaitsFor
    <3>3. d \in Request /\ At(d, "link") /\ job[d].gone # {} /\ job[d].template = t
      BY <2>1, <2>2, <3>1, <3>2, WaitsOn DEF At
    <3> QED
      BY <1>2, <1>4, <2>1, <3>1, <3>3
  <2> QED
    BY <2>3, <2>4
<1>6. CASE job[r].pc \in {"waiting", "link", "cascade"}
  <2>1. q \in Request
    BY <1>1, <1>2, <1>6, WaitsOn
  <2>2. CASE At(q, "link") /\ job[q].gone # {}
    BY <1>2, <1>4, <2>1, <2>2
  <2>3. CASE q = lock[t] /\ At(q, "cascade")
    <3>1. job[q].template = t /\ q \in Open
      BY <1>1, <2>1, <2>3, TemplatesAssumption DEF WaitInv, Held, Open, At, Steps
    <3>2. CASE WaitsFor(q) = {}
      BY <1>2, <1>3, <2>1, <3>1, <3>2
    <3>3. CASE WaitsFor(q) # {}
      <4>1. PICK d : d \in WaitsFor(q)
        BY <3>3
      <4>2. d \in Request /\ At(d, "link") /\ job[d].gone # {} /\ job[d].template = t
        BY <2>1, <2>3, <3>1, <4>1, WaitsOn DEF At
      <4> QED
        BY <1>2, <1>4, <2>3, <4>1, <4>2
    <3> QED
      BY <3>2, <3>3
  <2> QED
    BY <1>1, <1>2, <1>6, <2>2, <2>3, WaitsOn
<1> QED
  BY <1>1, <1>5, <1>6 DEF WaitsFor

-----------------------------------------------------------------------------
(* The theorems *)

LEMMA InitInv == Init => IInv
BY DEF Init, IInv, TypeOK, RowInv, Unique, JobOK, Known, Creating, Checked, Loaded, Holding,
       RecipientsOwned, SmsFits, WritersNotMixed, Exists, At, NoJob, NoRow, Job, Steps, Updating

LEMMA NextInv == IInv /\ [Next]_vars => IInv'
<1> SUFFICES ASSUME IInv, [Next]_vars
             PROVE  IInv'
  OBVIOUS
<1>1. CASE UNCHANGED vars
  BY <1>1 DEF vars, IInv, TypeOK, RowInv, Unique, JobOK, Known, Creating, Checked, Loaded, Holding,
              RecipientsOwned, SmsFits, WritersNotMixed, Exists, At
<1>2. ASSUME NEW u \in User, NEW c \in Contact, AddContact(u, c)
      PROVE  IInv'
  BY <1>2, AddContactInv
<1>3. ASSUME NEW r \in Request, Step(r)
      PROVE  IInv'
  BY <1>3, InsertInv, WriteInv, UnlinkInv, AwakeInv, LinkInv, RemoveInv, CascadeInv, ResolveInv,
     RollbackInv DEF Step, Deadlock
<1>4. ASSUME NEW r \in Request, Begin(r) \/ Disconnect(r)
      PROVE  IInv'
  BY <1>4, BeginInv, RollbackInv DEF Disconnect
<1> QED
  BY <1>1, <1>2, <1>3, <1>4 DEF Next

\* What every request relies on between its statements holds in every reachable
\* state, whatever the numbers of users, contacts, templates and requests.
THEOREM Invariance == Spec => []IInv
BY InitInv, NextInv, PTL DEF Spec

\* The types of the tables and of the requests.
THEOREM TypesCorrect == Spec => []TypeOK
<1>1. IInv => TypeOK
  BY DEF IInv
<1> QED
  BY <1>1, Invariance, PTL

\* Recipients belong to an existing template and to its owner, and a send goes to
\* its sender's contacts, whatever overlaps.
THEOREM RecipientsStayOwned == Spec => []RecipientsOwned
<1>1. IInv => RecipientsOwned
  BY DEF IInv
<1> QED
  BY <1>1, Invariance, PTL

\* No template and no copy of one is an SMS that is too long.
THEOREM SmsAlwaysFits == Spec => []SmsFits
<1>1. IInv => SmsFits
  BY DEF IInv
<1> QED
  BY <1>1, Invariance, PTL

\* The recipients of two saves that change columns are never mixed.
THEOREM WritersNeverMixed == Spec => []WritersNotMixed
<1>1. IInv => WritersNotMixed
  BY DEF IInv
<1> QED
  BY <1>1, Invariance, PTL

LEMMA InitWait == Init => WaitInv
BY DEF Init, WaitInv, Held, CommittedRows, Deleting, Exclusive, Nested, At, NoJob

LEMMA NextWait == IInv /\ WaitInv /\ [Next]_vars => WaitInv'
<1> SUFFICES ASSUME IInv, WaitInv, [Next]_vars
             PROVE  WaitInv'
  OBVIOUS
<1>1. CASE UNCHANGED vars
  BY <1>1 DEF vars, WaitInv, Held, CommittedRows, Deleting, Exclusive, Nested, At
<1>2. ASSUME NEW u \in User, NEW c \in Contact, AddContact(u, c)
      PROVE  WaitInv'
  BY <1>2 DEF AddContact, WaitInv, Held, CommittedRows, Deleting, Exclusive, Nested, At
<1>3. ASSUME NEW r \in Request, Begin(r) \/ Step(r) \/ Disconnect(r)
      PROVE  WaitInv'
  <2>1. job[r].pc \in Steps => ~At(r, "done")
    BY DEF Steps, At
  <2> QED
    BY <1>3, <2>1, BeginWait, StepWait, RollbackWait DEF Disconnect
<1> QED
  BY <1>1, <1>2, <1>3 DEF Next

\* At most one request at a time has recipients of a template deleted and not
\* committed: of two snapshots one contains what is left of the other, and a
\* statement waits for whoever has deleted what it wants to delete.
THEOREM DeletersExclusive == Spec => []WaitInv
BY InitInv, NextInv, InitWait, NextWait, PTL DEF Spec

\* Whatever saves and deletes of however many templates and requests wait for
\* each other, each wait ends, over at most one other request, at one that can go on.
THEOREM NoKnots == Spec => []SomeoneGoesOn
BY Invariance, DeletersExclusive, WaitInvGoesOn, PTL

=============================================================================
