----------------------------- MODULE SendDetail -----------------------------
(***************************************************************************)
(* What a user sees of one send: the rows Lifecycle writes, the view that  *)
(* SendQueryService puts together from them in several sessions, and the   *)
(* drawer that shows the view and asks again while it is in progress.      *)
(*                                                                         *)
(* TanStack Query (external) keeps one query per dispatch: at most one     *)
(* fetch under way, which a second one joins and which outlives the drawer *)
(* that asked for it; one retry while somebody looks; the last data kept   *)
(* when a fetch fails, until nobody has looked for a while.                *)
(***************************************************************************)
EXTENDS Naturals, Sequences

CONSTANTS Dispatch,     \* dispatches, one per accepted send request
          Delivery,     \* deliveries, one per recipient of a dispatch
          DispatchOf,   \* [Delivery -> Dispatch]
          Nobody,       \* no dispatch: the drawer is closed
          MaxHistory,   \* bound: transitions of a delivery
          MaxFaults     \* bound: requests that fail

ASSUME DetailAssumption == /\ DispatchOf \in [Delivery -> Dispatch]
                           /\ Nobody \notin Dispatch
                           /\ MaxHistory \in Nat /\ MaxFaults \in Nat

VARIABLES status, history,   \* as in Lifecycle
          accepted,  \* dispatches whose row is committed
          fetch,     \* GET /sends/{id} of each dispatch: where it is, and what it has read
          data,      \* the data of each dispatch's query
          open,      \* the dispatch the drawer shows
          faults     \* requests that have failed so far

Life == INSTANCE Lifecycle

rowVars == <<status, history>>
tabVars == <<fetch, data, open, faults>>
vars == <<rowVars, accepted, tabVars>>

Transition == (Life!DeliveryStatus \cup {"none"}) \X Life!DeliveryStatus

\* The recipients a request found, each with its row's status and its transitions.
View == UNION { [D -> [status : Life!DeliveryStatus, log : Seq(Transition)]] : D \in SUBSET Delivery }

NoView    == [d \in {} |-> 0]
NoFetch   == [pc |-> "idle", retried |-> FALSE, todo |-> {}, view |-> NoView]
Asked(re) == [pc |-> "asked", retried |-> re, todo |-> {}, view |-> NoView]
Unloaded  == [loaded |-> FALSE, view |-> NoView]

TypeOK == /\ status \in [Delivery -> Life!DeliveryStatus \cup {"none"}]
          /\ history \in [Delivery -> Seq(Transition)]
          /\ accepted \subseteq Dispatch
          /\ fetch \in [Dispatch -> [pc : {"idle", "asked", "reading"}, retried : BOOLEAN,
                                     todo : SUBSET Delivery, view : View]]
          /\ data \in [Dispatch -> [loaded : BOOLEAN, view : View]]
          /\ open \in Dispatch \cup {Nobody}
          /\ faults \in 0 .. MaxFaults

Init == /\ Life!Init
        /\ accepted = {}
        /\ fetch = [k \in Dispatch |-> NoFetch]
        /\ data = [k \in Dispatch |-> Unloaded]
        /\ open = Nobody
        /\ faults = 0

-----------------------------------------------------------------------------
(* The rows: a dispatch first, then what Lifecycle says *)

Accept(k) == /\ k \notin accepted
             /\ accepted' = accepted \cup {k}
             /\ UNCHANGED <<rowVars, tabVars>>

RowStep(d) == /\ DispatchOf[d] \in accepted
              /\ \/ Life!Create(d)
                 \/ \E to \in Life!DeliveryStatus : Life!Move(d, to)
                 \/ \E from \in Life!DeliveryStatus : Life!Repeat(d, from)
              /\ Len(history'[d]) <= MaxHistory
              /\ UNCHANGED <<accepted, tabVars>>

-----------------------------------------------------------------------------
(* The server: one session for the rows, and one for each timeline *)

\* list_for_dispatch.
ListDeliveries(k) ==
    /\ fetch[k].pc = "asked"
    /\ LET found == { d \in Delivery : DispatchOf[d] = k /\ status[d] # "none" }
       IN fetch' = [fetch EXCEPT ![k] = [pc |-> "reading", retried |-> @.retried, todo |-> found,
                        view |-> [d \in found |-> [status |-> status[d], log |-> << >>]]]]
    /\ UNCHANGED <<rowVars, accepted, data, open, faults>>

\* transitions_for_delivery of the next one.
ReadTransitions(k) ==
    /\ fetch[k].pc = "reading"
    /\ \E d \in fetch[k].todo :
          fetch' = [fetch EXCEPT ![k] = [pc |-> "reading", retried |-> @.retried, todo |-> @.todo \ {d},
                                         view |-> [@.view EXCEPT ![d].log = history[d]]]]
    /\ UNCHANGED <<rowVars, accepted, data, open, faults>>

-----------------------------------------------------------------------------
(* The drawer and its query *)

\* Variant: the poll goes on only while nothing is final.
AllInProgress(view) == \A d \in DOMAIN view : view[d].status \notin Life!Terminal

\* dispatchInProgress.
InProgress(view) == \E d \in DOMAIN view : view[d].status \notin Life!Terminal

\* A fetch of k, if none is under way.
Fetch(k) == fetch' = IF fetch[k].pc = "idle" THEN [fetch EXCEPT ![k] = Asked(FALSE)] ELSE fetch

\* A click on a row of the history shows the data there is, and fetches.
Open(k) == /\ open = Nobody
           /\ k \in accepted
           /\ open' = k
           /\ Fetch(k)
           /\ UNCHANGED <<rowVars, accepted, data, faults>>

Close == /\ open # Nobody
         /\ open' = Nobody
         /\ UNCHANGED <<rowVars, accepted, fetch, data, faults>>

\* refetchInterval.
Poll(k) == /\ open = k
           /\ data[k].loaded /\ InProgress(data[k].view)
           /\ fetch[k].pc = "idle"
           /\ Fetch(k)
           /\ UNCHANGED <<rowVars, accepted, data, open, faults>>

\* Variant: rows expire when their session ends, and are read again for the answer.
ReceiveRefreshed(k) ==
    /\ fetch[k].pc = "reading" /\ fetch[k].todo = {}
    /\ LET view == fetch[k].view
       IN data' = [data EXCEPT ![k] = [loaded |-> TRUE,
                       view |-> [d \in DOMAIN view |-> [view[d] EXCEPT !.status = status[d]]]]]
    /\ fetch' = [fetch EXCEPT ![k] = NoFetch]
    /\ UNCHANGED <<rowVars, accepted, open, faults>>

\* The answer replaces the data.
Receive(k) == /\ fetch[k].pc = "reading" /\ fetch[k].todo = {}
              /\ data' = [data EXCEPT ![k] = [loaded |-> TRUE, view |-> fetch[k].view]]
              /\ fetch' = [fetch EXCEPT ![k] = NoFetch]
              /\ UNCHANGED <<rowVars, accepted, open, faults>>

\* Variant: an error takes the place of the data.
LoseWithData(k) ==
    /\ fetch[k].pc # "idle"
    /\ faults < MaxFaults
    /\ faults' = faults + 1
    /\ fetch' = [fetch EXCEPT ![k] = NoFetch]
    /\ data' = [data EXCEPT ![k] = Unloaded]
    /\ UNCHANGED <<rowVars, accepted, open>>

\* The request or its answer is lost: tried again once, while the drawer is open.
Lose(k) == /\ fetch[k].pc # "idle"
           /\ faults < MaxFaults
           /\ faults' = faults + 1
           /\ fetch' = [fetch EXCEPT ![k] = IF open = k /\ ~fetch[k].retried
                                            THEN Asked(TRUE)
                                            ELSE NoFetch]
           /\ UNCHANGED <<rowVars, accepted, data, open>>

\* Data nobody has looked at for a while is dropped.
Collect(k) == /\ open # k
              /\ fetch[k].pc = "idle"
              /\ data[k].loaded
              /\ data' = [data EXCEPT ![k] = Unloaded]
              /\ UNCHANGED <<rowVars, accepted, fetch, open, faults>>

Next == \/ \E k \in Dispatch : \/ Accept(k) \/ ListDeliveries(k) \/ ReadTransitions(k)
                               \/ Open(k) \/ Poll(k) \/ Receive(k) \/ Lose(k) \/ Collect(k)
        \/ \E d \in Delivery : RowStep(d)
        \/ Close

Spec == Init /\ [][Next]_vars

\* The server answers and the timer of an open drawer runs; nothing else need happen.
FairSpec == /\ Spec
            /\ \A k \in Dispatch : /\ WF_vars(ListDeliveries(k)) /\ WF_vars(ReadTransitions(k))
                                   /\ WF_vars(Receive(k)) /\ WF_vars(Poll(k))

-----------------------------------------------------------------------------
(* Properties *)

\* A card never contradicts itself: its status is the end of a transition of its own
\* timeline, and the timeline is the beginning of what happened to the delivery, though
\* the row and the transitions are read in different sessions (SendQueryService._view).
ViewConsistent ==
    \A k \in Dispatch : \A d \in DOMAIN data[k].view :
        LET card == data[k].view[d]
        IN /\ \E i \in DOMAIN card.log : card.log[i][2] = card.status
           /\ Len(card.log) <= Len(history[d])
           /\ \A i \in DOMAIN card.log : card.log[i] = history[d][i]

\* Once the drawer has recipients to show and stops asking, there is nothing left to
\* ask for: every recipient of the send is on it with the status it will keep, although
\* the view may have been read while the send was still adding recipients
\* (dispatchInProgress and the order of SendingService.send_template).
StopsComplete ==
    \A k \in Dispatch :
        LET view == data[k].view
        IN DOMAIN view # {} /\ ~InProgress(view) =>
               \A d \in Delivery : DispatchOf[d] = k =>
                   d \in DOMAIN view /\ view[d].status = status[d] /\ status[d] \in Life!Terminal

\* An open drawer with recipients does not stay behind: whenever a delivery has another
\* status than its card, the card catches up or the user closes the drawer, whatever
\* requests fail (the 4 s poll of SendDetailDrawer).
Current(d) == LET view == data[DispatchOf[d]].view
              IN d \in DOMAIN view /\ view[d].status = status[d]

CatchesUp ==
    \A d \in Delivery :
        LET k == DispatchOf[d]
        IN (open = k /\ DOMAIN data[k].view # {} /\ status[d] # "none") ~> (open # k \/ Current(d))
=============================================================================
