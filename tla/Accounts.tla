------------------------------ MODULE Accounts ------------------------------
(***************************************************************************)
(* AccountsService: registration, verification and password reset by a     *)
(* single-use token sent by mail.  Requests run concurrently in the API    *)
(* process; every repository call is awaited in a session of its own, so   *)
(* each is a step.  A request is one call of the API: what it creates      *)
(* (account, token, password) is named after it.  Login reads one row and  *)
(* changes nothing, and has no action.                                     *)
(***************************************************************************)
EXTENDS Naturals, FiniteSets

CONSTANTS Request,     \* the requests there may ever be
          Email,       \* addresses, case folded
          VerifyTTL,   \* lifetime of a verification token
          ResetTTL,    \* lifetime of a reset token
          MaxOpen,     \* requests the API has open at one time
          MaxTime,     \* bound: the clock
          MaxFaults    \* bound: requests that fail half way

ASSUME AccountsAssumption == /\ {VerifyTTL, ResetTTL} \subseteq Nat \ {0}
                             /\ MaxOpen \in Nat \ {0}
                             /\ {MaxTime, MaxFaults} \subseteq Nat
                             /\ "none" \notin Request

VARIABLES now,       \* the clock
          accounts,  \* user_account rows
          tokens,    \* email_token rows
          mailed,    \* tokens whose mail went out
          req,       \* what each request is doing, and its answer in the end
          faults     \* requests that failed half way so far

vars == <<now, accounts, tokens, mailed, req, faults>>

Purpose == {"verify", "reset"}
Steps == {"create", "issue", "mail", "mark", "apply"}
Answers == {"ok", "conflict", "invalid", "error"}

\* token is the one a request consumes, account the row it works on.
Local == [pc : {"new"} \cup Steps \cup Answers, op : {"none", "register", "request"} \cup Purpose,
          email : Email \cup {"none"}, account : Request \cup {"none"}, token : Request \cup {"none"}]
NoReq == [pc |-> "new", op |-> "none", email |-> "none", account |-> "none", token |-> "none"]

Open == {r \in Request : req[r].pc \in Steps}
Goto(r, l) == req' = [req EXCEPT ![r] = l]
Answer(r, answer) == req' = [req EXCEPT ![r].pc = answer]
At(r, pc) == req[r].pc = pc

\* A new request is let in.
Arrives(r) == At(r, "new") /\ Cardinality(Open) < MaxOpen

RowsOf(e) == {a \in accounts : a.email = e}

TypeOK == /\ now \in 0 .. MaxTime /\ faults \in 0 .. MaxFaults
          /\ accounts \subseteq [id : Request, email : Email, password : Request, verified : BOOLEAN]
          /\ tokens \subseteq [id : Request, account : Request, purpose : Purpose, expires : Nat, used : BOOLEAN]
          /\ mailed \subseteq {t.id : t \in tokens}
          /\ req \in [Request -> Local]

Init == /\ now = 0 /\ faults = 0
        /\ accounts = {} /\ tokens = {} /\ mailed = {}
        /\ req = [r \in Request |-> NoReq]

-----------------------------------------------------------------------------
(* Registration and the request of a reset *)

\* register, up to email_exists.
Register(r, e) == /\ Arrives(r)
                  /\ Goto(r, [NoReq EXCEPT !.pc = IF RowsOf(e) = {} THEN "create" ELSE "conflict",
                                           !.op = "register", !.email = e])
                  /\ UNCHANGED <<now, accounts, tokens, mailed, faults>>

NewAccount(r) == [id |-> r, email |-> req[r].email, password |-> r, verified |-> FALSE]

\* Variant: no unique index on lower(email).
CreateUnindexed(r) == /\ At(r, "create")
                      /\ accounts' = accounts \cup {NewAccount(r)}
                      /\ Goto(r, [req[r] EXCEPT !.pc = "issue", !.account = r])
                      /\ UNCHANGED <<now, tokens, mailed, faults>>

\* accounts.create: the unique index refuses a second row, and nothing handles that.
Create(r) == /\ At(r, "create")
             /\ IF RowsOf(req[r].email) = {}
                THEN /\ accounts' = accounts \cup {NewAccount(r)}
                     /\ Goto(r, [req[r] EXCEPT !.pc = "issue", !.account = r])
                ELSE Answer(r, "error") /\ UNCHANGED accounts
             /\ UNCHANGED <<now, tokens, mailed, faults>>

\* request_reset: an address without an account is answered like any other.
RequestReset(r, e) ==
    /\ Arrives(r)
    /\ IF RowsOf(e) = {}
       THEN Goto(r, [NoReq EXCEPT !.pc = "ok", !.op = "request", !.email = e])
       ELSE \E a \in RowsOf(e) : Goto(r, [NoReq EXCEPT !.pc = "issue", !.op = "request",
                                                        !.email = e, !.account = a.id])
    /\ UNCHANGED <<now, accounts, tokens, mailed, faults>>

\* _issue_email_token, first the row, then the mail.
Issue(r) == LET purpose == IF req[r].op = "register" THEN "verify" ELSE "reset"
            IN /\ At(r, "issue")
               /\ tokens' = tokens \cup {[id |-> r, account |-> req[r].account, purpose |-> purpose,
                                          expires |-> now + (IF purpose = "verify" THEN VerifyTTL ELSE ResetTTL),
                                          used |-> FALSE]}
               /\ Goto(r, [req[r] EXCEPT !.pc = "mail"])
               /\ UNCHANGED <<now, accounts, mailed, faults>>

Mail(r) == /\ At(r, "mail")
           /\ mailed' = mailed \cup {r}
           /\ Answer(r, "ok")
           /\ UNCHANGED <<now, accounts, tokens, faults>>

-----------------------------------------------------------------------------
(* Verification and reset: _consume, then the change the token stands for *)

Valid(t) == ~t.used /\ now < t.expires

\* Variant: a token serves either purpose.
FindAny(id, purpose) == {t \in tokens : t.id = id}

\* get_by_hash of a token somebody read in a mail, or none.
Find(id, purpose) == {t \in tokens : t.id = id /\ t.purpose = purpose}

Consume(r, id, purpose) ==
    /\ Arrives(r)
    /\ Goto(r, [NoReq EXCEPT !.pc = IF \E t \in Find(id, purpose) : Valid(t) THEN "mark" ELSE "invalid",
                             !.op = purpose, !.token = id])
    /\ UNCHANGED <<now, accounts, tokens, mailed, faults>>

\* Variant: only the object in memory is marked.
MarkInMemory(r) == /\ At(r, "mark")
                   /\ Goto(r, [req[r] EXCEPT !.pc = "apply"])
                   /\ UNCHANGED <<now, accounts, tokens, mailed, faults>>

MarkConsumed(r) == /\ At(r, "mark")
                   /\ tokens' = {[t EXCEPT !.used = @ \/ t.id = req[r].token] : t \in tokens}
                   /\ Goto(r, [req[r] EXCEPT !.pc = "apply"])
                   /\ UNCHANGED <<now, accounts, mailed, faults>>

\* The account a request's token belongs to.
Owns(r, a) == \E t \in tokens : t.id = req[r].token /\ t.account = a.id

\* set_verified or set_password_hash, and the answer.
Apply(r) == /\ At(r, "apply")
            /\ accounts' = {IF ~Owns(r, a) THEN a
                            ELSE IF req[r].op = "verify" THEN [a EXCEPT !.verified = TRUE]
                            ELSE [a EXCEPT !.password = r] : a \in accounts}
            /\ Answer(r, "ok")
            /\ UNCHANGED <<now, tokens, mailed, faults>>

-----------------------------------------------------------------------------
(* The rest of the world *)

\* The database or the mail server fails a request where it stands.
Fail(r) == /\ r \in Open
           /\ faults < MaxFaults
           /\ faults' = faults + 1
           /\ Answer(r, "error")
           /\ UNCHANGED <<now, accounts, tokens, mailed>>

Elapse == /\ now < MaxTime
          /\ now' = now + 1
          /\ UNCHANGED <<accounts, tokens, mailed, req, faults>>

Step(r) == Create(r) \/ Issue(r) \/ Mail(r) \/ MarkConsumed(r) \/ Apply(r)

Next == \/ Elapse
        \/ \E r \in Request :
               \/ \E e \in Email : Register(r, e) \/ RequestReset(r, e)
               \/ \E id \in mailed, purpose \in Purpose : Consume(r, id, purpose)
               \/ Step(r) \/ Fail(r)

Spec == Init /\ [][Next]_vars

-----------------------------------------------------------------------------
(* Properties *)

\* However many registrations of one address run at one time, it has one account
\* (AccountsService.register over the unique index).
OneAccountPerEmail == \A a, b \in accounts : a.email = b.email => a = b

\* A token that was mailed and spent, of that purpose and for that account.
Spent(id, a, purpose) == /\ id \in mailed
                         /\ \E t \in tokens : /\ t.id = id /\ t.used
                                             /\ t.account = a.id /\ t.purpose = purpose

\* An account is verified, and its password is another than the registered one, only
\* through a token of that purpose issued for it, mailed and spent: for a password, the
\* very token the request that set it came with (AccountsService._consume).
ChangedByToken ==
    \A a \in accounts : /\ a.verified => \E id \in mailed : Spent(id, a, "verify")
                        /\ a.password # a.id => Spent(req[a.password].token, a, "reset")

\* Once request s has got past the mark, r that comes later with the same token fails.
RefusedAfter(r, s) == /\ req[s].token \in mailed
                      /\ req[s].pc \in {"apply", "ok"}
                      /\ At(r, "new")
                      => ~(req'[r].pc = "mark" /\ req'[r].token = req[s].token)

\* A token is good for one use after another, though _consume reads, checks and marks it
\* in two sessions: once a request has got past the mark, no request that comes later is
\* let through with the same token.  (Two that overlap may both be.)
SpentIsRefused == [][\A r, s \in Request : RefusedAfter(r, s)]_vars

=============================================================================
