--------------------------- MODULE AccountsProofs ---------------------------
(***************************************************************************)
(* Theorems about Accounts.  A token is named after the request that       *)
(* issued it, once; a request that came with a token keeps it to the end,  *)
(* and past the mark every token of that name is spent.  That is what ties *)
(* a changed row to the mail that allowed the change.                      *)
(***************************************************************************)
EXTENDS Accounts, TLAPS

\* A token is there only once the request it is named after has issued it.
Issued == \A t \in tokens : req[t.id].pc \notin {"new", "create", "issue"}

\* A token is named after one request.
OneToken == \A t, u \in tokens : t.id = u.id => t = u

\* A password that was reset names a request that has come.
Reset == \A a \in accounts : a.password # a.id => req[a.password].pc # "new"

\* What request r may rely on between its steps.
Relies(r) ==
  LET q == req[r]
      Mine == {t \in tokens : t.id = q.token}
  IN /\ q.pc = "create" => q.email \in Email
     /\ q.pc = "issue" => q.account \in Request
     /\ q.pc = "mail" => \E t \in tokens : t.id = r
     /\ q.pc \in {"create", "issue", "mail"} => q.op \notin Purpose
     /\ IF q.op \in Purpose THEN q.token \in mailed ELSE q.token = "none"
     /\ q.pc \in {"mark", "apply"} => q.op \in Purpose /\ \A t \in Mine : t.purpose = q.op
     /\ q.op \in Purpose /\ q.pc \in {"apply", "ok"} => \A t \in Mine : t.used

IInv == /\ TypeOK
        /\ Issued
        /\ OneToken
        /\ Reset
        /\ \A r \in Request : Relies(r)
        /\ OneAccountPerEmail
        /\ ChangedByToken

USE AccountsAssumption DEF Purpose, Steps, Answers

LEMMA InitInv == Init => IInv
  BY DEF Init, IInv, TypeOK, Local, NoReq, Issued, OneToken, Reset, Relies, OneAccountPerEmail,
         ChangedByToken

-----------------------------------------------------------------------------
(* What a step leaves of req *)

\* Request r has come to l; the others are where they were.
Moved(r, l) == /\ req' \in [Request -> Local]
               /\ req'[r] = l
               /\ \A q \in Request : q # r => req'[q] = req[q]

LEMMA GotoMoves == ASSUME TypeOK, NEW r \in Request, NEW l \in Local, Goto(r, l)
                   PROVE  Moved(r, l)
  BY DEF TypeOK, Goto, Moved

LEMMA AnswerMoves == ASSUME TypeOK, NEW r \in Request, NEW answer \in Answers, Answer(r, answer)
                     PROVE  Moved(r, [req[r] EXCEPT !.pc = answer])
<1>1. [req[r] EXCEPT !.pc = answer] \in Local
  BY DEF TypeOK, Local
<1> QED
  BY <1>1 DEF TypeOK, Answer, Moved

\* A request that moves on without another purpose or token, to a place where nothing
\* more is asked of it, and the tables as they were: nothing is lost.
LEMMA FrameInv == ASSUME IInv, NEW r \in Request, NEW l \in Local, Moved(r, l),
                         UNCHANGED <<accounts, tokens, mailed>>,
                         now' \in 0 .. MaxTime, faults' \in 0 .. MaxFaults,
                         l.pc \notin {"new", "mail"},
                         l.pc = "create" => l.email \in Email,
                         l.pc = "issue" => l.account \in Request,
                         l.pc \in {"create", "issue"} => /\ l.op \notin Purpose
                                                         /\ req[r].pc \in {"new", "create", "issue"},
                         req[r].pc # "new" => l.token = req[r].token,
                         IF l.op \in Purpose THEN l.token \in mailed ELSE l.token = "none",
                         l.pc \in {"mark", "apply"} =>
                             l.op \in Purpose /\ \A t \in tokens : t.id = l.token => t.purpose = l.op,
                         l.op \in Purpose /\ l.pc \in {"apply", "ok"} =>
                             \A t \in tokens : t.id = l.token => t.used
                  PROVE  IInv'
<1>1. TypeOK'
  BY DEF IInv, TypeOK, Moved
<1>2. Issued' /\ OneToken' /\ Reset'
  BY DEF IInv, TypeOK, Issued, OneToken, Reset, Moved
<1>3. \A q \in Request : Relies(q)'
  BY DEF IInv, Relies, Moved
<1>4. OneAccountPerEmail'
  BY DEF IInv, OneAccountPerEmail
<1>5. ChangedByToken'
  BY DEF IInv, TypeOK, ChangedByToken, Spent, Reset, Moved
<1> QED
  BY <1>1, <1>2, <1>3, <1>4, <1>5 DEF IInv

LEMMA AnswerInv == ASSUME IInv, NEW r \in Request, NEW answer \in {"conflict", "invalid", "error"},
                          Answer(r, answer), req[r].pc # "new",
                          UNCHANGED <<now, accounts, tokens, mailed>>, faults' \in 0 .. MaxFaults
                   PROVE  IInv'
<1> DEFINE l == [req[r] EXCEPT !.pc = answer]
<1>1. l \in Local /\ l.pc = answer /\ l.op = req[r].op /\ l.token = req[r].token
  BY DEF IInv, TypeOK, Local
<1>2. Moved(r, l)
  BY AnswerMoves DEF IInv
<1>3. IF l.op \in Purpose THEN l.token \in mailed ELSE l.token = "none"
  BY <1>1 DEF IInv, Relies
<1> HIDE DEF l
<1> QED
  BY <1>1, <1>2, <1>3, FrameInv DEF IInv, TypeOK

-----------------------------------------------------------------------------
(* Requests that come *)

LEMMA NoReqTyped == /\ NoReq \in Local
                    /\ NoReq.op = "none" /\ NoReq.account = "none" /\ NoReq.token = "none"
  BY DEF NoReq, Local

LEMMA RegisterMoves ==
  ASSUME NEW r \in Request, NEW e \in Email, Register(r, e)
  PROVE  \E l \in Local : /\ Goto(r, l)
                          /\ l.pc \in {"create", "conflict"} /\ l.op = "register"
                          /\ l.email = e /\ l.token = "none"
<1> DEFINE pc == IF RowsOf(e) = {} THEN "create" ELSE "conflict"
           l == [NoReq EXCEPT !.pc = pc, !.op = "register", !.email = e]
<1>1. /\ l \in Local /\ l.pc \in {"create", "conflict"} /\ l.op = "register"
      /\ l.email = e /\ l.token = "none"
  BY NoReqTyped DEF Local
<1>2. Goto(r, l)
  BY DEF Register
<1> QED
  BY <1>1, <1>2

LEMMA RequestResetMoves ==
  ASSUME TypeOK, NEW r \in Request, NEW e \in Email, RequestReset(r, e)
  PROVE  \E l \in Local : /\ Goto(r, l)
                          /\ l.pc \in {"ok", "issue"} /\ l.op = "request" /\ l.token = "none"
                          /\ l.pc = "issue" => l.account \in Request
<1>1. CASE RowsOf(e) = {}
  <2> DEFINE l == [NoReq EXCEPT !.pc = "ok", !.op = "request", !.email = e]
  <2>1. l \in Local /\ l.pc = "ok" /\ l.op = "request" /\ l.token = "none"
    BY NoReqTyped DEF Local
  <2>2. Goto(r, l)
    BY <1>1 DEF RequestReset
  <2> QED
    BY <2>1, <2>2
<1>2. CASE RowsOf(e) # {}
  <2>1. PICK a \in RowsOf(e) : Goto(r, [NoReq EXCEPT !.pc = "issue", !.op = "request",
                                                    !.email = e, !.account = a.id])
    BY <1>2 DEF RequestReset
  <2> DEFINE l == [NoReq EXCEPT !.pc = "issue", !.op = "request", !.email = e, !.account = a.id]
  <2>2. a.id \in Request
    BY DEF RowsOf, TypeOK
  <2>3. l \in Local /\ l.pc = "issue" /\ l.op = "request" /\ l.token = "none" /\ l.account \in Request
    BY <2>2, NoReqTyped DEF Local
  <2> QED
    BY <2>1, <2>3
<1> QED
  BY <1>1, <1>2

LEMMA ConsumeMoves ==
  ASSUME TypeOK, NEW r \in Request, NEW id \in mailed, NEW purpose \in Purpose, Consume(r, id, purpose)
  PROVE  \E l \in Local : /\ Goto(r, l)
                          /\ l.pc \in {"mark", "invalid"} /\ l.op = purpose /\ l.token = id
                          /\ l.pc = "mark" => \E t \in tokens : t.id = id /\ t.purpose = purpose /\ ~t.used
<1> DEFINE pc == IF \E t \in Find(id, purpose) : Valid(t) THEN "mark" ELSE "invalid"
           l == [NoReq EXCEPT !.pc = pc, !.op = purpose, !.token = id]
<1>1. id \in Request
  BY DEF TypeOK
<1>2. /\ l \in Local /\ l.pc = pc /\ pc \in {"mark", "invalid"}
      /\ l.op = purpose /\ l.token = id
  BY <1>1, NoReqTyped DEF Local
<1>3. Goto(r, l)
  BY DEF Consume
<1>4. pc = "mark" => \E t \in tokens : t.id = id /\ t.purpose = purpose /\ ~t.used
  BY DEF Find, Valid
<1> QED
  BY <1>2, <1>3, <1>4

LEMMA RegisterInv ==
  ASSUME IInv, NEW r \in Request, NEW e \in Email, Register(r, e)
  PROVE  IInv'
<1>1. req[r].pc = "new" /\ UNCHANGED <<now, accounts, tokens, mailed, faults>>
  BY DEF Register, Arrives, At
<1>2. TypeOK
  BY DEF IInv
<1>3. PICK l \in Local : /\ Goto(r, l)
                         /\ l.pc \in {"create", "conflict"} /\ l.op = "register"
                         /\ l.email = e /\ l.token = "none"
  BY <1>2, RegisterMoves
<1>4. Moved(r, l)
  BY <1>2, <1>3, GotoMoves
<1> QED
  BY <1>1, <1>3, <1>4, FrameInv DEF IInv, TypeOK

LEMMA RequestResetInv ==
  ASSUME IInv, NEW r \in Request, NEW e \in Email, RequestReset(r, e)
  PROVE  IInv'
<1>1. req[r].pc = "new" /\ UNCHANGED <<now, accounts, tokens, mailed, faults>>
  BY DEF RequestReset, Arrives, At
<1>2. TypeOK
  BY DEF IInv
<1>3. PICK l \in Local : /\ Goto(r, l)
                         /\ l.pc \in {"ok", "issue"} /\ l.op = "request" /\ l.token = "none"
                         /\ l.pc = "issue" => l.account \in Request
  BY <1>2, RequestResetMoves
<1>4. Moved(r, l)
  BY <1>2, <1>3, GotoMoves
<1> QED
  BY <1>1, <1>3, <1>4, FrameInv DEF IInv, TypeOK

LEMMA ConsumeInv ==
  ASSUME IInv, NEW r \in Request, NEW id \in mailed, NEW purpose \in Purpose, Consume(r, id, purpose)
  PROVE  IInv'
<1>1. req[r].pc = "new" /\ UNCHANGED <<now, accounts, tokens, mailed, faults>>
  BY DEF Consume, Arrives, At
<1>2. TypeOK
  BY DEF IInv
<1>3. PICK l \in Local :
         /\ Goto(r, l)
         /\ l.pc \in {"mark", "invalid"} /\ l.op = purpose /\ l.token = id
         /\ l.pc = "mark" => \E t \in tokens : t.id = id /\ t.purpose = purpose /\ ~t.used
  BY <1>2, ConsumeMoves
<1>4. Moved(r, l)
  BY <1>2, <1>3, GotoMoves
<1>5. ASSUME l.pc = "mark", NEW t \in tokens, t.id = id
      PROVE  t.purpose = purpose
  BY <1>3, <1>5 DEF IInv, OneToken
<1> QED
  BY <1>1, <1>3, <1>4, <1>5, FrameInv DEF IInv, TypeOK

-----------------------------------------------------------------------------
(* Requests that go on *)

LEMMA CreateInv == ASSUME IInv, NEW r \in Request, Create(r)
                   PROVE  IInv'
<1> DEFINE l == [req[r] EXCEPT !.pc = "issue", !.account = r]
<1>1. /\ req[r] \in Local /\ req[r].pc = "create" /\ req[r].op \notin Purpose
      /\ req[r].token = "none" /\ req[r].email \in Email
  BY DEF Create, At, IInv, TypeOK, Relies
<1>2. CASE RowsOf(req[r].email) # {}
  BY <1>1, <1>2, AnswerInv DEF Create, IInv, TypeOK
<1>3. CASE RowsOf(req[r].email) = {}
  <2>1. /\ l \in Local /\ l.pc = "issue" /\ l.account = r
        /\ l.op \notin Purpose /\ l.token = "none"
    BY <1>1 DEF Local
  <2>2. Goto(r, l) /\ accounts' = accounts \cup {NewAccount(r)}
        /\ UNCHANGED <<now, tokens, mailed, faults>>
    BY <1>3 DEF Create
  <2> DEFINE new == [id |-> r, email |-> req[r].email, password |-> r, verified |-> FALSE]
  <2>3. /\ accounts' = accounts \cup {new}
        /\ new \in [id : Request, email : Email, password : Request, verified : BOOLEAN]
        /\ new.id = r /\ new.email = req[r].email /\ new.password = r /\ ~new.verified
    BY <1>1, <2>2 DEF NewAccount
  <2>4. Moved(r, l)
    BY <2>1, <2>2, GotoMoves DEF IInv
  <2> HIDE DEF l, new
  <2>5. TypeOK'
    BY <1>1, <2>2, <2>3, <2>4 DEF IInv, TypeOK, Moved
  <2>6. Issued' /\ OneToken' /\ Reset'
    BY <1>1, <2>1, <2>2, <2>3, <2>4 DEF IInv, TypeOK, Issued, OneToken, Reset, Moved
  <2>7. \A q \in Request : Relies(q)'
    BY <2>1, <2>2, <2>4 DEF IInv, Relies, Moved
  <2>8. OneAccountPerEmail'
    BY <1>3, <2>3 DEF IInv, OneAccountPerEmail, RowsOf
  <2>9. ChangedByToken'
    BY <1>1, <2>2, <2>3, <2>4 DEF IInv, TypeOK, ChangedByToken, Spent, Reset, Moved
  <2> QED
    BY <2>5, <2>6, <2>7, <2>8, <2>9 DEF IInv
<1> QED
  BY <1>2, <1>3

LEMMA IssueInv == ASSUME IInv, NEW r \in Request, Issue(r)
                  PROVE  IInv'
<1> DEFINE l == [req[r] EXCEPT !.pc = "mail"]
           purpose == IF req[r].op = "register" THEN "verify" ELSE "reset"
           ttl == IF purpose = "verify" THEN VerifyTTL ELSE ResetTTL
           new == [id |-> r, account |-> req[r].account, purpose |-> purpose,
                   expires |-> now + ttl, used |-> FALSE]
<1>1. req[r] \in Local /\ req[r].pc = "issue" /\ req[r].account \in Request
  BY DEF Issue, At, IInv, TypeOK, Relies
<1>2. l \in Local /\ l.pc = "mail" /\ l.op = req[r].op /\ l.token = req[r].token
  BY <1>1 DEF Local
<1>3. Goto(r, l) /\ tokens' = tokens \cup {new} /\ UNCHANGED <<now, accounts, mailed, faults>>
  BY DEF Issue
<1>4. Moved(r, l)
  BY <1>2, <1>3, GotoMoves DEF IInv
<1>5. /\ new \in [id : Request, account : Request, purpose : Purpose, expires : Nat, used : BOOLEAN]
      /\ new.id = r
  <2>1. now + ttl \in Nat
    BY DEF IInv, TypeOK
  <2> QED
    BY <1>1, <2>1
<1>6. \A t \in tokens : t.id # r
  BY <1>1 DEF IInv, Issued
<1>7. r \notin mailed
  BY <1>6 DEF IInv, TypeOK
<1> HIDE DEF l, new
<1>8. TypeOK'
  BY <1>3, <1>4, <1>5 DEF IInv, TypeOK, Moved
<1>9. Issued' /\ OneToken' /\ Reset'
  BY <1>1, <1>2, <1>3, <1>4, <1>5, <1>6 DEF IInv, TypeOK, Issued, OneToken, Reset, Moved
<1>10. \A q \in Request : Relies(q)'
  <2>1. SUFFICES ASSUME NEW q \in Request
                 PROVE  Relies(q)'
    OBVIOUS
  <2>2. Relies(q)
    BY DEF IInv
  <2>3. \/ q # r /\ req'[q] = req[q]
        \/ q = r /\ req'[q] = l
    BY <1>4 DEF Moved
  <2> QED
    BY <1>1, <1>2, <1>3, <1>5, <1>7, <2>2, <2>3 DEF Relies
<1>11. OneAccountPerEmail'
  BY <1>3 DEF IInv, OneAccountPerEmail
<1>12. ChangedByToken'
  BY <1>1, <1>2, <1>3, <1>4 DEF IInv, TypeOK, ChangedByToken, Spent, Reset, Moved
<1> QED
  BY <1>8, <1>9, <1>10, <1>11, <1>12 DEF IInv

LEMMA MailInv == ASSUME IInv, NEW r \in Request, Mail(r)
                 PROVE  IInv'
<1> DEFINE l == [req[r] EXCEPT !.pc = "ok"]
<1>1. /\ req[r] \in Local /\ req[r].pc = "mail" /\ \E t \in tokens : t.id = r
      /\ req[r].op \notin Purpose
  BY DEF Mail, At, IInv, TypeOK, Relies
<1>2. l \in Local /\ l.pc = "ok" /\ l.op = req[r].op /\ l.token = req[r].token
  BY <1>1 DEF Local
<1>3. mailed' = mailed \cup {r} /\ UNCHANGED <<now, accounts, tokens, faults>>
  BY DEF Mail
<1>4. Moved(r, l)
  BY AnswerMoves DEF Mail, IInv
<1> HIDE DEF l
<1>5. TypeOK'
  BY <1>1, <1>3, <1>4 DEF IInv, TypeOK, Moved
<1>6. Issued' /\ OneToken' /\ Reset'
  BY <1>2, <1>3, <1>4 DEF IInv, TypeOK, Issued, OneToken, Reset, Moved
<1>7. \A q \in Request : Relies(q)'
  BY <1>1, <1>2, <1>3, <1>4 DEF IInv, Relies, Moved
<1>8. OneAccountPerEmail'
  BY <1>3 DEF IInv, OneAccountPerEmail
<1>9. ChangedByToken'
  BY <1>1, <1>2, <1>3, <1>4 DEF IInv, TypeOK, ChangedByToken, Spent, Reset, Moved
<1> QED
  BY <1>5, <1>6, <1>7, <1>8, <1>9 DEF IInv

LEMMA MarkConsumedInv == ASSUME IInv, NEW r \in Request, MarkConsumed(r)
                         PROVE  IInv'
<1> DEFINE l == [req[r] EXCEPT !.pc = "apply"]
           Marked(t) == [t EXCEPT !.used = @ \/ t.id = req[r].token]
<1>1. req[r] \in Local /\ req[r].pc = "mark"
  BY DEF MarkConsumed, At, IInv, TypeOK
<1>2. l \in Local /\ l.pc = "apply" /\ l.op = req[r].op /\ l.token = req[r].token
  BY <1>1 DEF Local
<1>3. Goto(r, l) /\ tokens' = {Marked(t) : t \in tokens} /\ UNCHANGED <<now, accounts, mailed, faults>>
  BY DEF MarkConsumed
<1>4. Moved(r, l)
  BY <1>2, <1>3, GotoMoves DEF IInv
<1>5. ASSUME NEW t \in tokens
      PROVE  /\ Marked(t) \in [id : Request, account : Request, purpose : Purpose, expires : Nat, used : BOOLEAN]
             /\ Marked(t).id = t.id /\ Marked(t).account = t.account /\ Marked(t).purpose = t.purpose
             /\ t.used => Marked(t).used
             /\ t.id = req[r].token => Marked(t).used
  BY <1>5 DEF IInv, TypeOK
<1> HIDE DEF l, Marked
<1>6. TypeOK'
  BY <1>3, <1>4, <1>5 DEF IInv, TypeOK, Moved
<1>7. Issued' /\ OneToken' /\ Reset'
  BY <1>2, <1>3, <1>4, <1>5 DEF IInv, TypeOK, Issued, OneToken, Reset, Moved
<1>8. \A q \in Request : Relies(q)'
  <2>1. SUFFICES ASSUME NEW q \in Request
                 PROVE  Relies(q)'
    OBVIOUS
  <2>2. Relies(q) /\ Relies(r)
    BY DEF IInv
  <2>3. \/ q # r /\ req'[q] = req[q]
        \/ q = r /\ req'[q] = l
    BY <1>4 DEF Moved
  <2> QED
    BY <1>1, <1>2, <1>3, <1>5, <2>2, <2>3 DEF Relies
<1>9. OneAccountPerEmail'
  BY <1>3 DEF IInv, OneAccountPerEmail
<1>10. ChangedByToken'
  <2>1. ASSUME NEW id, NEW a, NEW purpose, Spent(id, a, purpose)
        PROVE  Spent(id, a, purpose)'
    BY <1>3, <1>5, <2>1 DEF Spent
  <2> QED
    BY <1>1, <1>2, <1>3, <1>4, <2>1 DEF IInv, TypeOK, ChangedByToken, Reset, Moved
<1> QED
  BY <1>6, <1>7, <1>8, <1>9, <1>10 DEF IInv

LEMMA ApplyInv == ASSUME IInv, NEW r \in Request, Apply(r)
                  PROVE  IInv'
<1> DEFINE l == [req[r] EXCEPT !.pc = "ok"]
           Applied(a) == IF ~Owns(r, a) THEN a
                         ELSE IF req[r].op = "verify" THEN [a EXCEPT !.verified = TRUE]
                         ELSE [a EXCEPT !.password = r]
<1>1. req[r] \in Local /\ req[r].pc = "apply" /\ req[r].op \in Purpose /\ req[r].token \in mailed
  BY DEF Apply, At, IInv, TypeOK, Relies
<1>2. l \in Local /\ l.pc = "ok" /\ l.op = req[r].op /\ l.token = req[r].token
  BY <1>1 DEF Local
<1>3. accounts' = {Applied(a) : a \in accounts} /\ UNCHANGED <<now, tokens, mailed, faults>>
  BY DEF Apply
<1>4. Moved(r, l)
  BY AnswerMoves DEF Apply, IInv
<1>5. ASSUME NEW a \in accounts
      PROVE  /\ Applied(a) \in [id : Request, email : Email, password : Request, verified : BOOLEAN]
             /\ Applied(a).id = a.id /\ Applied(a).email = a.email
             /\ Applied(a).verified => a.verified \/ (Owns(r, a) /\ req[r].op = "verify")
             /\ \/ Applied(a).password = a.password
                \/ Applied(a).password = r /\ Owns(r, a) /\ req[r].op = "reset"
  BY <1>1, <1>5 DEF IInv, TypeOK
<1>6. ASSUME NEW a, Owns(r, a)
      PROVE  Spent(req[r].token, a, req[r].op)
  BY <1>1, <1>6 DEF Owns, Spent, IInv, Relies
<1> HIDE DEF l, Applied
<1>7. TypeOK'
  BY <1>3, <1>4, <1>5 DEF IInv, TypeOK, Moved
<1>8. Issued' /\ OneToken' /\ Reset'
  BY <1>2, <1>3, <1>4, <1>5 DEF IInv, TypeOK, Issued, OneToken, Reset, Moved
<1>9. \A q \in Request : Relies(q)'
  BY <1>1, <1>2, <1>3, <1>4 DEF IInv, Relies, Moved
<1>10. OneAccountPerEmail'
  BY <1>3, <1>5 DEF IInv, OneAccountPerEmail
<1>11. ChangedByToken'
  <2>1. SUFFICES ASSUME NEW a \in accounts
                 PROVE  /\ Applied(a).verified => \E id \in mailed : Spent(id, Applied(a), "verify")
                        /\ Applied(a).password # Applied(a).id =>
                             Spent(req'[Applied(a).password].token, Applied(a), "reset")
    BY <1>3 DEF ChangedByToken, Spent
  <2>2. \A id, purpose : Spent(id, Applied(a), purpose) <=> Spent(id, a, purpose)
    BY <1>5 DEF Spent
  <2>3. Applied(a).verified => \E id \in mailed : Spent(id, a, "verify")
    BY <1>1, <1>5, <1>6 DEF IInv, ChangedByToken
  <2>4. CASE Applied(a).password = a.password
    BY <1>1, <1>2, <1>4, <1>5, <2>2, <2>3, <2>4 DEF IInv, TypeOK, ChangedByToken, Reset, Moved
  <2>5. CASE Applied(a).password = r /\ Owns(r, a) /\ req[r].op = "reset"
    BY <1>2, <1>4, <1>6, <2>2, <2>3, <2>5 DEF Moved
  <2> QED
    BY <1>5, <2>4, <2>5
<1> QED
  BY <1>7, <1>8, <1>9, <1>10, <1>11 DEF IInv

LEMMA FailInv == ASSUME IInv, NEW r \in Request, Fail(r)
                 PROVE  IInv'
  BY AnswerInv DEF Fail, Open, IInv, TypeOK

-----------------------------------------------------------------------------
(* The theorems *)

LEMMA NextInv == ASSUME IInv, [Next]_vars
                 PROVE  IInv'
<1>1. CASE UNCHANGED vars
  BY <1>1 DEF vars, IInv, TypeOK, Issued, OneToken, Reset, Relies, OneAccountPerEmail,
              ChangedByToken, Spent
<1>2. CASE Elapse
  BY <1>2 DEF Elapse, IInv, TypeOK, Issued, OneToken, Reset, Relies, OneAccountPerEmail,
              ChangedByToken, Spent
<1>3. ASSUME NEW r \in Request, NEW e \in Email, Register(r, e) \/ RequestReset(r, e)
      PROVE  IInv'
  BY <1>3, RegisterInv, RequestResetInv
<1>4. ASSUME NEW r \in Request, NEW id \in mailed, NEW purpose \in Purpose, Consume(r, id, purpose)
      PROVE  IInv'
  BY <1>4, ConsumeInv
<1>5. ASSUME NEW r \in Request, Step(r) \/ Fail(r)
      PROVE  IInv'
  BY <1>5, CreateInv, IssueInv, MailInv, MarkConsumedInv, ApplyInv, FailInv DEF Step
<1> QED
  BY <1>1, <1>2, <1>3, <1>4, <1>5 DEF Next

\* What requests rely on holds in every reachable state, however many there are.
THEOREM Invariance == Spec => []IInv
BY InitInv, NextInv, PTL DEF Spec

\* The types of the tables and of the requests.
THEOREM TypesCorrect == Spec => []TypeOK
<1>1. IInv => TypeOK
  BY DEF IInv
<1> QED
  BY <1>1, Invariance, PTL

\* An address never has two accounts, however many registrations overlap.
THEOREM AddressesStayUnique == Spec => []OneAccountPerEmail
<1>1. IInv => OneAccountPerEmail
  BY DEF IInv
<1> QED
  BY <1>1, Invariance, PTL

\* No account is verified, and no password changed, but by a mailed token of that
\* purpose for that account, even when requests overlap or fail half way.
THEOREM ChangesAreAuthorised == Spec => []ChangedByToken
<1>1. IInv => ChangedByToken
  BY DEF IInv
<1> QED
  BY <1>1, Invariance, PTL

LEMMA SpentStep == ASSUME IInv, [Next]_vars, NEW r \in Request, NEW s \in Request,
                          req[s].token \in mailed, req[s].pc \in {"apply", "ok"}, At(r, "new")
                   PROVE  ~(req'[r].pc = "mark" /\ req'[r].token = req[s].token)
<1> DEFINE LetThrough == req'[r].pc = "mark" /\ req'[r].token = req[s].token
<1>1. TypeOK /\ req[s].token \in Request /\ req[r] \in Local /\ req[r].pc = "new"
  BY DEF IInv, TypeOK, At
<1>2. \A t \in tokens : t.id = req[s].token => t.used
  BY <1>1 DEF IInv, Relies
<1>3. ASSUME NEW q \in Request, NEW l \in Local, Goto(q, l),
             l.pc = "mark" => l.token # req[s].token
      PROVE  ~LetThrough
  BY <1>1, <1>3, GotoMoves DEF Moved
<1>4. CASE UNCHANGED vars \/ Elapse
  BY <1>1, <1>4 DEF vars, Elapse
<1>5. ASSUME NEW q \in Request, NEW e \in Email, Register(q, e) \/ RequestReset(q, e)
      PROVE  ~LetThrough
  <2>1. \E l \in Local : Goto(q, l) /\ l.pc # "mark"
    BY <1>1, <1>5, RegisterMoves, RequestResetMoves
  <2> QED
    BY <1>3, <2>1
<1>6. ASSUME NEW q \in Request, NEW id \in mailed, NEW purpose \in Purpose, Consume(q, id, purpose)
      PROVE  ~LetThrough
  <2>1. \E l \in Local : Goto(q, l) /\ (l.pc = "mark" => l.token # req[s].token)
    BY <1>1, <1>2, <1>6, ConsumeMoves
  <2> QED
    BY <1>3, <2>1
<1>7. ASSUME NEW q \in Request, Step(q) \/ Fail(q)
      PROVE  ~LetThrough
  <2>1. q # r
    BY <1>1, <1>7 DEF Step, Create, Issue, Mail, MarkConsumed, Apply, Fail, Open, At
  <2>2. req'[r] = req[r]
    BY <1>1, <1>7, <2>1
       DEF Step, Create, Issue, Mail, MarkConsumed, Apply, Fail, Goto, Answer, TypeOK
  <2> QED
    BY <1>1, <2>2
<1> QED
  BY <1>4, <1>5, <1>6, <1>7 DEF Next

\* A token somebody has spent lets no later request through.
THEOREM TokensAreSpentOnce == Spec => SpentIsRefused
<1>1. IInv /\ [Next]_vars => [\A r, s \in Request : RefusedAfter(r, s)]_vars
  BY SpentStep DEF RefusedAfter
<1> QED
  BY <1>1, Invariance, PTL DEF Spec, SpentIsRefused

=============================================================================
