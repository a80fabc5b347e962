------------------------------ MODULE Console -------------------------------
(***************************************************************************)
(* The web console (src/frontend) in one browser tab: the session kept in  *)
(* localStorage and mirrored by AuthProvider, the probe of a stored token, *)
(* the transport that ends the session on any 401, and the Send & History  *)
(* page, whose list is a query of TanStack Query: fetched once at a time,  *)
(* kept when the page is left and when the session ends, polled while      *)
(* something on it is in progress.  A request is handled by the server in  *)
(* one step and its answer taken in a later one.  A session is the number  *)
(* of the login that made it (0: none).                                    *)
(***************************************************************************)
EXTENDS Naturals, Sequences

CONSTANTS User,
          MaxLogins,  \* bound: logins that succeed
          MaxSends,   \* bound: sends of a user
          MaxFaults   \* bound: requests that are lost or answered 5xx

ASSUME ConsoleAssumption == {MaxLogins, MaxSends, MaxFaults} \subseteq Nat

VARIABLES owner,    \* server: the user of each login
          expired,  \* server: logins whose token has expired
          sends,    \* server: the dispatches of each user
          storage,  \* localStorage
          session,  \* AuthProvider's copy
          probing,  \* the spinner is shown in place of every page
          page,     \* the page shown
          cache,    \* the list query's data: rows, and the login they were fetched with
          failed,   \* the list query's isError
          retried,  \* the fetch under way is the one retry
          net,      \* requests under way
          owed,     \* history: the accepted send that the list has to show (0: none)
          faults    \* requests lost so far

server == <<owner, expired, sends>>
tab == <<storage, session, probing, page>>
query == <<cache, failed, retried>>
vars == <<server, tab, query, net, owed, faults>>

Kind == {"probe", "login", "list", "send"}
Login == 0 .. MaxLogins
Status == {"progress", "final"}
RowSeq == UNION {[1 .. n -> Status] : n \in 0 .. MaxSends}
NoData == [login |-> 0, rows |-> <<>>]

\* n is what was made: the login, or the number of the dispatch.
Idle == [state |-> "idle", login |-> 0, answer |-> "none", n |-> 0, rows |-> <<>>]
Ask(login) == [Idle EXCEPT !.state = "asked", !.login = login]
Answers == {"none", "ok", "refused", "unauthorized", "error"}

TypeOK == /\ owner \in Seq(User) /\ Len(owner) <= MaxLogins
          /\ expired \subseteq 1 .. Len(owner)
          /\ sends \in [User -> RowSeq]
          /\ {storage, session} \subseteq 0 .. Len(owner)
          /\ probing \in BOOLEAN /\ page \in {"auth", "home", "sends"}
          /\ page # "auth" => session # 0
          /\ cache \in [login : Login, rows : RowSeq]
          /\ {failed, retried} \subseteq BOOLEAN
          /\ net \in [Kind -> [state : {"idle", "asked", "answered"}, login : Login, answer : Answers,
                               n : 0 .. MaxLogins + MaxSends, rows : RowSeq]]
          /\ owed \in 0 .. MaxSends /\ faults \in 0 .. MaxFaults

Init == /\ owner = <<>> /\ expired = {} /\ sends = [u \in User |-> <<>>]
        /\ storage = 0 /\ session = 0 /\ probing = FALSE /\ page = "auth"
        /\ cache = NoData /\ failed = FALSE /\ retried = FALSE
        /\ net = [k \in Kind |-> Idle]
        /\ owed = 0 /\ faults = 0

Is(k, state) == net[k].state = state
Put(k, m) == net' = [net EXCEPT ![k] = m]

\* Variant: in progress only if nothing on the list is done.
NoneFinal(rows) == rows # <<>> /\ \A k \in 1 .. Len(rows) : rows[k] = "progress"
AnyInProgress(rows) == \E k \in 1 .. Len(rows) : rows[k] = "progress"

-----------------------------------------------------------------------------
(* The server *)

Valid(login) == login \in 1 .. Len(owner) /\ login \notin expired

Answered(k, answer) == [net[k] EXCEPT !.state = "answered", !.answer = answer]

\* current_user, then the endpoint.
Serve(k) ==
  LET m == net[k]
      u == owner[m.login]
  IN /\ Is(k, "asked")
     /\ \/ /\ ~Valid(m.login)
           /\ Put(k, Answered(k, "unauthorized"))
           /\ UNCHANGED server
        \/ /\ k = "probe" /\ Valid(m.login)
           /\ Put(k, Answered(k, "ok"))
           /\ UNCHANGED server
        \/ /\ k = "list" /\ Valid(m.login)
           /\ Put(k, [Answered(k, "ok") EXCEPT !.rows = sends[u]])
           /\ UNCHANGED server
        \/ /\ k = "send" /\ Valid(m.login) /\ Len(sends[u]) < MaxSends
           /\ sends' = [sends EXCEPT ![u] = Append(@, "progress")]
           /\ Put(k, [Answered(k, "ok") EXCEPT !.n = Len(sends[u]) + 1])
           /\ UNCHANGED <<owner, expired>>
        \/ /\ k = "send" /\ Valid(m.login)
           /\ Put(k, Answered(k, "refused"))
           /\ UNCHANGED server
     /\ UNCHANGED <<tab, query, owed, faults>>

\* The network fails, before or after the server did its part.
Lose(k) == /\ ~Is(k, "idle") /\ net[k].answer # "error"
           /\ faults < MaxFaults /\ faults' = faults + 1
           /\ Put(k, [Idle EXCEPT !.state = "answered", !.answer = "error"])
           /\ UNCHANGED <<server, tab, query, owed>>

Expire(login) == /\ login \in 1 .. Len(owner)
                 /\ expired' = expired \cup {login}
                 /\ UNCHANGED <<owner, sends, tab, query, net, owed, faults>>

\* Deliveries reach a terminal state.
Deliver(u, k) == /\ k \in 1 .. Len(sends[u])
                 /\ sends' = [sends EXCEPT ![u][k] = "final"]
                 /\ UNCHANGED <<owner, expired, tab, query, net, owed, faults>>

-----------------------------------------------------------------------------
(* Session *)

\* logout, and a 401 by the handler that AuthProvider registers: the query's
\* data stays.
SignOut == /\ storage' = 0 /\ session' = 0 /\ page' = "auth" /\ owed' = 0
           /\ UNCHANGED probing

\* The page is loaded: state and queries are new, the stored token is probed.
Reload == /\ session' = storage
          /\ probing' = (storage # 0)
          /\ page' = IF storage = 0 THEN "auth" ELSE "home"
          /\ net' = [k \in Kind |-> IF k = "probe" /\ storage # 0 THEN Ask(storage) ELSE Idle]
          /\ cache' = NoData /\ failed' = FALSE /\ retried' = FALSE /\ owed' = 0
          /\ UNCHANGED <<server, storage, faults>>

\* A failure other than 401 keeps the session.
ReceiveProbe ==
  /\ Is("probe", "answered")
  /\ Put("probe", Idle)
  /\ probing' = FALSE
  /\ \/ /\ net["probe"].answer = "unauthorized"
        /\ storage' = 0 /\ session' = 0 /\ page' = "auth" /\ owed' = 0
     \/ /\ net["probe"].answer # "unauthorized"
        /\ UNCHANGED <<storage, session, page, owed>>
  /\ UNCHANGED <<server, query, faults>>

\* What the server does with a login depends on nothing here, and is part of
\* the step.
SubmitLogin ==
  /\ page = "auth" /\ ~probing /\ Is("login", "idle")
  /\ \/ /\ Len(owner) < MaxLogins
        /\ \E u \in User : owner' = Append(owner, u)
        /\ Put("login", [Answered("login", "ok") EXCEPT !.n = Len(owner) + 1])
     \/ /\ Put("login", Answered("login", "refused"))
        /\ UNCHANGED owner
  /\ UNCHANGED <<expired, sends, tab, query, owed, faults>>

ReceiveLogin == /\ Is("login", "answered")
                /\ Put("login", Idle)
                /\ IF net["login"].answer = "ok"
                     THEN storage' = net["login"].n /\ session' = net["login"].n /\ page' = "home"
                     ELSE UNCHANGED <<storage, session, page>>
                /\ UNCHANGED <<server, probing, query, owed, faults>>

Logout == /\ page # "auth" /\ ~probing
          /\ SignOut
          /\ UNCHANGED <<server, query, net, faults>>

-----------------------------------------------------------------------------
(* Send & History *)

\* A fetch reads the token when it starts; one under way is joined.
Fetch == IF Is("list", "idle")
           THEN Put("list", Ask(storage))
           ELSE UNCHANGED net

\* The page is mounted: its data is stale at once.
Visit == /\ page = "home" /\ ~probing
         /\ page' = "sends"
         /\ Fetch
         /\ UNCHANGED <<server, storage, session, probing, query, owed, faults>>

Leave == /\ page = "sends"
         /\ page' = "home" /\ owed' = 0
         /\ UNCHANGED <<server, storage, session, probing, query, net, faults>>

\* refetchInterval.
Poll == /\ page = "sends" /\ AnyInProgress(cache.rows) /\ Is("list", "idle")
        /\ Fetch
        /\ UNCHANGED <<server, tab, query, owed, faults>>

\* Variant: invalidates without cancelling the fetch under way.
Joined(m) == [net EXCEPT !["list"] = IF page # "sends" \/ ~Is("list", "idle") THEN @ ELSE Ask(storage),
                         !["send"] = m]

\* invalidateQueries on a mounted list: a fetch under way is dropped and made
\* again, but for the first one.  m is what becomes of the send.
Invalidated(m) ==
  [net EXCEPT !["list"] = IF page # "sends" \/ (~Is("list", "idle") /\ cache = NoData)
                            THEN @ ELSE Ask(storage),
              !["send"] = m]

\* The buttons Refresh and Retry.
Refresh == /\ page = "sends"
           /\ net' = Invalidated(net["send"])
           /\ retried' = FALSE
           /\ UNCHANGED <<server, tab, cache, failed, owed, faults>>

ReceiveList ==
  LET m == net["list"] IN
  /\ Is("list", "answered")
  /\ \/ /\ m.answer = "ok"
        /\ cache' = [login |-> m.login, rows |-> m.rows]
        /\ failed' = FALSE /\ retried' = FALSE
        /\ Put("list", Idle)
        /\ UNCHANGED <<tab, owed>>
     \/ /\ m.answer = "unauthorized"
        /\ SignOut
        /\ failed' = TRUE /\ retried' = FALSE
        /\ Put("list", Idle)
        /\ UNCHANGED cache
     \/ /\ m.answer = "error" /\ ~retried /\ page = "sends"
        /\ Put("list", Ask(storage)) /\ retried' = TRUE
        /\ UNCHANGED <<tab, cache, failed, owed>>
     \/ /\ m.answer = "error" /\ (retried \/ page # "sends")
        /\ failed' = TRUE /\ retried' = FALSE
        /\ Put("list", Idle)
        /\ UNCHANGED <<tab, cache, owed>>
  /\ UNCHANGED <<server, faults>>

SubmitSend == /\ page = "sends" /\ Is("send", "idle")
              /\ Put("send", Ask(storage))
              /\ UNCHANGED <<server, tab, query, owed, faults>>

\* A send that ends while the list of its user is shown has to appear on it.
Owes(m) == page = "sends" /\ cache # NoData /\ owner[m.login] = owner[session]

ReceiveSend ==
  LET m == net["send"] IN
  /\ Is("send", "answered")
  /\ \/ /\ m.answer = "ok"
        /\ net' = Invalidated(Idle)
        /\ retried' = FALSE
        /\ owed' = IF Owes(m) THEN m.n ELSE owed
        /\ UNCHANGED <<tab, cache, failed>>
     \/ /\ m.answer = "unauthorized"
        /\ SignOut
        /\ Put("send", Idle)
        /\ UNCHANGED query
     \/ /\ m.answer \in {"refused", "error"}
        /\ Put("send", Idle)
        /\ UNCHANGED <<tab, query, owed>>
  /\ UNCHANGED <<server, faults>>

-----------------------------------------------------------------------------

Receive == ReceiveProbe \/ ReceiveLogin \/ ReceiveSend

Next == \/ \E k \in Kind : Serve(k) \/ Lose(k)
        \/ \E login \in Login : Expire(login)
        \/ \E u \in User, k \in 1 .. MaxSends : Deliver(u, k)
        \/ Reload \/ SubmitLogin \/ Logout \/ Visit \/ Leave \/ Poll \/ Refresh \/ SubmitSend
        \/ Receive \/ ReceiveList

\* The list is answered and its answer taken, the timer of the poll fires, and
\* nobody reloads or refreshes faster than answers come for ever (SF).
Fairness == WF_vars(Serve("list")) /\ WF_vars(Poll) /\ SF_vars(ReceiveList)

Spec == Init /\ [][Next]_vars
FairSpec == Spec /\ Fairness

-----------------------------------------------------------------------------
(* Properties *)

Behind(u, k) == /\ page = "sends" /\ cache.login # 0 /\ k <= Len(cache.rows) /\ k <= Len(sends[u])
                /\ owner[cache.login] = u
                /\ cache.rows[k] = "progress" /\ sends[u][k] = "final"
AnyBehind == \E u \in User, k \in 1 .. MaxSends : Behind(u, k)

\* A row that is shown in progress when its deliveries have ended is brought up
\* to date without a click, although fetches fail, are joined and cancelled
\* (SendHistoryPage.tsx:61).
CatchesUp == AnyBehind ~> ~AnyBehind

Unshown == /\ owed # 0 /\ ~failed
           /\ ~(cache.login # 0 /\ owner[cache.login] = owner[session] /\ owed <= Len(cache.rows))

\* A send accepted while the list is shown appears on it without a click: no
\* answer of before the send takes the place of the one that has it; unless
\* the page is left, or says that it could not load (SendHistoryPage.tsx:71).
SentIsShown == Unshown ~> ~Unshown

=============================================================================
