----------------------------- MODULE Templates ------------------------------
(***************************************************************************)
(* TemplatesService, ContactsService and the part of send_template that    *)
(* copies a template, over the tables contact, template and                *)
(* template_recipient.  Requests overlap in the API process; a transaction *)
(* of PostgreSQL is READ COMMITTED here, so every statement has a snapshot *)
(* of its own and waits for rows that another transaction has locked.  An  *)
(* INSERT and the COMMIT behind it are one step: until the COMMIT nobody   *)
(* sees the rows, who would wait for them waits for the COMMIT.            *)
(* A title is a column like content and stands for nothing else; an owner  *)
(* and a name never change.                                                *)
(***************************************************************************)
EXTENDS Naturals, FiniteSets

CONSTANTS User,
          Contact,    \* the contacts there may ever be
          Template,   \* the templates there may ever be
          Request,    \* the requests there may ever be
          None,       \* no user, no request
          MaxOpen     \* bound: requests open at a time

ASSUME TemplatesAssumption == None \notin User \cup Request /\ MaxOpen \in Nat

VARIABLES contact,    \* the owner of each contact
          template,   \* the template row: owner and columns
          recipient,  \* template_recipient rows
          lock,       \* the request that holds the lock of a template row
          job,        \* what each request is doing
          dispatch    \* what a send copied

vars == <<contact, template, recipient, lock, job, dispatch>>

Text == [channel : {"sms", "email"}, content : {"short", "long"}]
NoText == [channel |-> "none", content |-> "none"]

\* validate_sms_length, and the CHECK of the table.
Fits(text) == ~(text.channel = "sms" /\ text.content = "long")

\* A row of template_recipient; by is the request that inserted it, so that a
\* row deleted and inserted again is another one.  History: full says that the
\* request wrote columns of the template, too.
Rows == [template : Template, contact : Contact, by : Request, full : BOOLEAN]

Steps == {"insert", "write", "unlink", "waiting", "link", "remove", "cascade", "resolve"}
\* base is the row as it was loaded; gone the recipients a request has deleted
\* and locked (at "waiting": those it has seen and will delete).
Job == [pc : {"new", "done"} \cup Steps, op : {"none", "create", "update", "delete", "send"},
        user : User \cup {None}, template : Template \cup {None}, text : Text \cup {NoText},
        wanted : SUBSET Contact, base : Text \cup {NoText}, gone : SUBSET Rows]
NoJob(pc) == [pc |-> pc, op |-> "none", user |-> None, template |-> None, text |-> NoText,
              wanted |-> {}, base |-> NoText, gone |-> {}]

NoRow == [owner |-> None, text |-> NoText, state |-> "none"]
Gone == [NoRow EXCEPT !.state = "gone"]
Exists(t) == template[t].state = "here"

TypeOK == /\ contact \in [Contact -> User \cup {None}]
          /\ template \in [Template -> [owner : User \cup {None}, text : Text \cup {NoText},
                                        state : {"none", "here", "gone"}]]
          /\ recipient \subseteq Rows
          /\ lock \in [Template -> Request \cup {None}]
          /\ job \in [Request -> Job]
          /\ \A d \in dispatch : d.user \in User /\ d.text \in Text /\ d.contacts \in SUBSET Contact

Init == /\ contact = [c \in Contact |-> None]
        /\ template = [t \in Template |-> NoRow]
        /\ recipient = {}
        /\ lock = [t \in Template |-> None]
        /\ job = [r \in Request |-> NoJob("new")]
        /\ dispatch = {}

At(r, pc) == job[r].pc = pc
Goto(r, pc) == job' = [job EXCEPT ![r].pc = pc]
RecipientsOf(t) == {x \in recipient : x.template = t}
Released(r) == [t \in Template |-> IF lock[t] = r THEN None ELSE lock[t]]

\* Variant: a session that is not closed on an error.
RollbackHolding(r) == /\ job' = [job EXCEPT ![r] = NoJob("done")]
                      /\ UNCHANGED <<contact, template, recipient, lock, dispatch>>

\* The session of a request ends with a rollback: with an answer other than
\* success, or with a read only.
Rollback(r) == /\ job' = [job EXCEPT ![r] = NoJob("done")]
               /\ lock' = Released(r)
               /\ UNCHANGED <<contact, template, recipient, dispatch>>

-----------------------------------------------------------------------------
(* Contacts: only ever added *)

AddContact(u, c) == /\ contact[c] = None
                    /\ contact' = [contact EXCEPT ![c] = u]
                    /\ UNCHANGED <<template, recipient, lock, job, dispatch>>

OwnedIds(u, ids) == {c \in ids : contact[c] = u}

-----------------------------------------------------------------------------
(* Requests arrive.  Contacts keep their owner and are never deleted, so that *)
(* nobody can tell how long before its row is loaded a save asked for them:   *)
(* Begin is both.                                                             *)

Request0(op, u, t, text, wanted) ==
  [NoJob("insert") EXCEPT !.op = op, !.user = u, !.template = t, !.text = text, !.wanted = wanted]

\* A new row gets an id of its own.
Fresh(t) == template[t] = NoRow /\ \A r \in Request : job[r].template # t

\* session.get of modify, delete and get_for_owner: not found unless owned.
Load(r, j) ==
  LET row == template[j.template]
      next == CASE j.op = "delete" -> "remove"
                [] j.op = "send" -> "resolve"
                [] j.op = "update" -> IF j.text = row.text THEN "unlink" ELSE "write"
  IN /\ row # NoRow
     /\ job' = [job EXCEPT ![r] = IF Exists(j.template) /\ row.owner = j.user
                                    THEN [j EXCEPT !.pc = next, !.base = row.text]
                                    ELSE NoJob("done")]

\* Variant: only create asks for the owned contacts.
SaveUnchecked(r, u, t, text, wanted) ==
  /\ Fits(text)
  /\ \/ Fresh(t) /\ wanted = OwnedIds(u, wanted)
        /\ job' = [job EXCEPT ![r] = Request0("create", u, t, text, wanted)]
     \/ Load(r, Request0("update", u, t, text, wanted))

\* create and modify, up to the session that writes; what they refuse is done.
Save(r, u, t, text, wanted) ==
  /\ Fits(text)
  /\ wanted = OwnedIds(u, wanted)
  /\ \/ Fresh(t) /\ job' = [job EXCEPT ![r] = Request0("create", u, t, text, wanted)]
     \/ Load(r, Request0("update", u, t, text, wanted))

Open == {r \in Request : job[r].pc \in Steps}

Begin(r) ==
  /\ At(r, "new") /\ Cardinality(Open) < MaxOpen
  /\ \E u \in User, t \in Template :
       \/ \E text \in Text, wanted \in SUBSET Contact : Save(r, u, t, text, wanted)
       \/ \E op \in {"delete", "send"} : Load(r, Request0(op, u, t, NoText, {}))
  /\ UNCHANGED <<contact, template, recipient, lock, dispatch>>

-----------------------------------------------------------------------------
(* Who waits for whom, by the statement a request is at *)

\* The requests that have rows deleted and not committed.
Deleters(r, rows) == {q \in Request \ {r} : At(q, "link") /\ job[q].gone \cap rows # {}}

Removing(t) == lock[t] # None /\ At(lock[t], "cascade")

\* Rows with the key of one that this request inserts.
Clash(r) == {x \in RecipientsOf(job[r].template) \ job[r].gone : x.contact \in job[r].wanted}

\* Who an INSERT waits for: the foreign key for a DELETE of the template, the
\* primary key for one of the recipient.
LinkWaits(r) == Deleters(r, Clash(r)) \cup
                {q \in Request : job[r].wanted # {} /\ Removing(job[r].template) /\ q = lock[job[r].template]}

\* An UPDATE and a DELETE of the template wait for the lock of its row, a DELETE
\* of recipients, the cascade too, for those that another has deleted.
WaitsFor(r) ==
  LET j == job[r] IN
  CASE j.pc \in {"write", "remove"} -> {lock[j.template]} \ {None}
    [] j.pc = "waiting" -> Deleters(r, j.gone)
    [] j.pc = "link" -> LinkWaits(r)
    [] j.pc = "cascade" -> Deleters(r, RecipientsOf(j.template))
    [] OTHER -> {}

\* PostgreSQL ends one of two transactions that wait for each other.
Victim(r) == \E q \in WaitsFor(r) : r \in WaitsFor(q)

Ready(r) == r \in Open /\ (WaitsFor(r) = {} \/ Victim(r))

-----------------------------------------------------------------------------
(* create and update *)

Linked(r) == {[template |-> job[r].template, contact |-> c, by |-> r, full |-> job[r].text # job[r].base] :
                  c \in job[r].wanted}

Insert(r) ==
  LET j == job[r] IN
  /\ At(r, "insert")
  /\ template' = [template EXCEPT ![j.template] = [owner |-> j.user, text |-> j.text, state |-> "here"]]
  /\ recipient' = recipient \cup Linked(r)
  /\ job' = [job EXCEPT ![r] = NoJob("done")]
  /\ UNCHANGED <<contact, lock, dispatch>>

\* The columns this request changed, over those that are there now.
Merged(j, text) ==
  [channel |-> IF j.text.channel # j.base.channel THEN j.text.channel ELSE text.channel,
   content |-> IF j.text.content # j.base.content THEN j.text.content ELSE text.content]

\* Variant: the row is flushed with the COMMIT, after the recipients.
WriteDeferred(r) == /\ At(r, "write")
                    /\ Goto(r, "unlink")
                    /\ UNCHANGED <<contact, template, recipient, lock, dispatch>>

\* Variant: no ck_template_sms_length.
WriteUnchecked(r) ==
  LET t == job[r].template IN
  /\ At(r, "write")
  /\ WaitsFor(r) = {}
  /\ \/ Exists(t) /\ lock' = [lock EXCEPT ![t] = r] /\ Goto(r, "unlink")
        /\ UNCHANGED <<contact, template, recipient, dispatch>>
     \/ ~Exists(t) /\ Rollback(r)

\* The autoflush before the DELETE: an UPDATE of the changed columns.  It
\* takes the lock of the row, and finds no row or breaks the CHECK.
Write(r) ==
  LET t == job[r].template IN
  /\ At(r, "write")
  /\ WaitsFor(r) = {}
  /\ \/ Exists(t) /\ Fits(Merged(job[r], template[t].text))
        /\ lock' = [lock EXCEPT ![t] = r] /\ Goto(r, "unlink")
        /\ UNCHANGED <<contact, template, recipient, dispatch>>
     \/ ~(Exists(t) /\ Fits(Merged(job[r], template[t].text))) /\ Rollback(r)

\* The DELETE of the recipients: of those its snapshot has, and it waits for
\* the ones that another transaction has deleted.  It locks its rows together.
Unlink(r) ==
  LET seen == RecipientsOf(job[r].template) IN
  /\ At(r, "unlink")
  /\ job' = [job EXCEPT ![r].gone = seen, ![r].pc = IF Deleters(r, seen) = {} THEN "link" ELSE "waiting"]
  /\ UNCHANGED <<contact, template, recipient, lock, dispatch>>

\* The other has ended; the rows it did delete are skipped.
Awake(r) == /\ At(r, "waiting")
            /\ WaitsFor(r) = {}
            /\ job' = [job EXCEPT ![r].gone = @ \cap recipient, ![r].pc = "link"]
            /\ UNCHANGED <<contact, template, recipient, lock, dispatch>>

\* The INSERTs and the COMMIT of an update.
Link(r) ==
  LET j == job[r]
      t == j.template
      refused == Clash(r) # {} \/ (j.wanted # {} /\ ~Exists(t))
  IN /\ At(r, "link")
     /\ WaitsFor(r) = {}
     /\ \/ /\ ~refused
           /\ recipient' = (recipient \ j.gone) \cup Linked(r)
           /\ IF j.text # j.base
                THEN template' = [template EXCEPT ![t].text = Merged(j, @)]
                ELSE UNCHANGED template
           /\ job' = [job EXCEPT ![r] = NoJob("done")]
           /\ lock' = Released(r)
           /\ UNCHANGED <<contact, dispatch>>
        \/ refused /\ Rollback(r)

-----------------------------------------------------------------------------
(* delete *)

\* The DELETE of the template row; a row that is gone already is no error.
Remove(r) ==
  LET t == job[r].template IN
  /\ At(r, "remove")
  /\ WaitsFor(r) = {}
  /\ \/ Exists(t) /\ lock' = [lock EXCEPT ![t] = r] /\ Goto(r, "cascade")
        /\ UNCHANGED <<contact, template, recipient, dispatch>>
     \/ ~Exists(t) /\ Rollback(r)

\* The cascade to the recipients, which waits for those deleted by another,
\* and the COMMIT.
Cascade(r) == /\ At(r, "cascade")
              /\ WaitsFor(r) = {}
              /\ template' = [template EXCEPT ![job[r].template] = Gone]
              /\ recipient' = recipient \ RecipientsOf(job[r].template)
              /\ job' = [job EXCEPT ![r] = NoJob("done")]
              /\ lock' = Released(r)
              /\ UNCHANGED <<contact, dispatch>>

-----------------------------------------------------------------------------
(* send_template: the copy that its dispatch and deliveries are made of *)

\* The recipients, a statement after the columns, and their contacts.
Resolve(r) ==
  LET j == job[r]
      contacts == {x.contact : x \in RecipientsOf(j.template)}
  IN /\ At(r, "resolve")
     /\ \/ contacts # {}
           /\ dispatch' = dispatch \cup {[user |-> j.user, text |-> j.base,
                                          contacts |-> OwnedIds(j.user, contacts)]}
           /\ job' = [job EXCEPT ![r] = NoJob("done")]
           /\ UNCHANGED <<contact, template, recipient, lock>>
        \/ contacts = {} /\ Rollback(r)

-----------------------------------------------------------------------------
(* Failures *)

Deadlock(r) == Victim(r) /\ Rollback(r)

\* A request loses its connection or its process.
Disconnect(r) == /\ job[r].pc \in Steps
                 /\ Rollback(r)

Step(r) == \/ Insert(r) \/ Write(r) \/ Unlink(r) \/ Awake(r) \/ Link(r)
           \/ Remove(r) \/ Cascade(r) \/ Resolve(r) \/ Deadlock(r)

Next == \/ \E u \in User, c \in Contact : AddContact(u, c)
        \/ \E r \in Request : Begin(r) \/ Step(r) \/ Disconnect(r)

Spec == Init /\ [][Next]_vars

-----------------------------------------------------------------------------
(* Properties *)

\* Recipients belong to a template that exists and to its owner, and a send
\* goes to contacts of its sender, although a save is checked before it is written
\* and deletes and other saves come between (templates.py:76).
RecipientsOwned == /\ \A x \in recipient : /\ Exists(x.template)
                                           /\ contact[x.contact] = template[x.template].owner
                   /\ \A d \in dispatch : \A c \in d.contacts : contact[c] = d.user

\* No SMS template and no SMS dispatch is too long: each of two saves may be
\* valid and their columns together not; then the second fails
\* (models.py:118, async_repo.py:330).
SmsFits == /\ \A t \in Template : Exists(t) => Fits(template[t].text)
           /\ \A d \in dispatch : Fits(d.text)

\* Saves that change a column are serialised by the row they update first: the
\* recipients of two of them are never mixed (async_repo.py:327-336).
WritersNotMixed == \A x, y \in recipient :
                     x.template = y.template /\ x.by # y.by => ~(x.full /\ y.full)

\* Whatever saves and deletes wait for each other, there is no knot that the
\* database does not cut: every open request can go on itself or waits, at most
\* over one other, for a request that can (async_repo.py:320-358).
SomeoneGoesOn == \A r \in Open : \/ Ready(r)
                                \/ \E q \in WaitsFor(r) : Ready(q) \/ \E p \in WaitsFor(q) : Ready(p)

=============================================================================
