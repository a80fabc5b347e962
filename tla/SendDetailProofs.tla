-------------------------- MODULE SendDetailProofs --------------------------
(***************************************************************************)
(* What the drawer shows is consistent and, once it stops asking,          *)
(* complete: for any number of dispatches, recipients, transitions and     *)
(* failed requests.  The invariant says what a half-read view may rely on. *)
(***************************************************************************)
EXTENDS SendDetail, TLAPS

Card == [status : Life!DeliveryStatus, log : Seq(Transition)]

\* Some transition of the log leads to s.
Reaches(log, s) == \E i \in DOMAIN log : log[i][2] = s

Begins(log, whole) == /\ Len(log) <= Len(whole)
                      /\ \A i \in DOMAIN log : log[i] = whole[i]

\* The rows: no status without its transition, none but queued before all are there.
RowInv == \A d \in Delivery :
             /\ status[d] # "none" => Reaches(history[d], status[d])
             /\ status[d] \notin {"none", "queued"} => Life!Whole(DispatchOf[d])

\* What was true of the rows of k when they were listed, and still is.
ListOK(k, view) ==
    \A d \in DOMAIN view :
        /\ DispatchOf[d] = k
        /\ Reaches(history[d], view[d].status)
        /\ view[d].status \in Life!Terminal =>
               /\ status[d] = view[d].status
               /\ \A e \in Delivery : DispatchOf[e] = k => e \in DOMAIN view

\* What is true of a card whose transitions were read.
CardOK(d, card) == Reaches(card.log, card.status) /\ Begins(card.log, history[d])

FetchInv == \A k \in Dispatch :
               /\ ListOK(k, fetch[k].view)
               /\ \A d \in DOMAIN fetch[k].view \ fetch[k].todo : CardOK(d, fetch[k].view[d])

DataInv == \A k \in Dispatch :
              /\ ListOK(k, data[k].view)
              /\ \A d \in DOMAIN data[k].view : CardOK(d, data[k].view[d])

IInv == TypeOK /\ RowInv /\ FetchInv /\ DataInv

LEMMA ViewIsFunction ==
    ASSUME NEW view \in View
    PROVE  /\ DOMAIN view \subseteq Delivery
           /\ view \in [DOMAIN view -> Card]
<1>1. PICK D \in SUBSET Delivery : view \in [D -> [status : Life!DeliveryStatus, log : Seq(Transition)]]
  BY DEF View
<1> QED BY <1>1 DEF Card

LEMMA FunctionIsView ==
    ASSUME NEW D \in SUBSET Delivery, NEW view \in [D -> Card]
    PROVE  view \in View
BY DEF View, Card

LEMMA NoViewIsView == NoView \in View /\ DOMAIN NoView = {}
<1>1. NoView \in [{} -> Card]
  BY DEF NoView
<1> QED BY <1>1, FunctionIsView DEF NoView

LEMMA Initially == Init => IInv
<1> SUFFICES ASSUME Init PROVE IInv
  OBVIOUS
<1> USE NoViewIsView, DetailAssumption
<1>1. TypeOK
  BY DEF Init, Life!Init, TypeOK, NoFetch, Unloaded
<1>2. RowInv
  BY DEF Init, Life!Init, RowInv
<1>3. FetchInv /\ DataInv
  BY DEF Init, FetchInv, DataInv, ListOK, NoFetch, Unloaded
<1> QED BY <1>1, <1>2, <1>3 DEF IInv

-----------------------------------------------------------------------------
(* The rows go on under what was read *)

\* What a step of the rows leaves true.
RowsGoOn ==
    /\ \A d \in Delivery : /\ Begins(history[d], history'[d])
                           /\ status[d] \in Life!Terminal => status'[d] = status[d]

LEMMA BeginsOn ==
    ASSUME NEW a \in Seq(Transition), NEW b \in Seq(Transition), NEW c \in Seq(Transition),
           Begins(a, b), Begins(b, c)
    PROVE  Begins(a, c)
BY DEF Begins

LEMMA ReachesOn ==
    ASSUME NEW a \in Seq(Transition), NEW b \in Seq(Transition), NEW s, Begins(a, b), Reaches(a, s)
    PROVE  Reaches(b, s)
BY DEF Begins, Reaches

LEMMA BeginsItself ==
    ASSUME NEW a \in Seq(Transition)
    PROVE  Begins(a, a)
BY DEF Begins

LEMMA AppendGoesOn ==
    ASSUME NEW a \in Seq(Transition), NEW x \in Transition
    PROVE  /\ Append(a, x) \in Seq(Transition)
           /\ Begins(a, Append(a, x))
           /\ Reaches(Append(a, x), x[2])
<1>1. /\ Append(a, x) \in Seq(Transition)
      /\ Len(Append(a, x)) = Len(a) + 1
      /\ Append(a, x)[Len(a) + 1] = x
      /\ \A i \in 1 .. Len(a) : Append(a, x)[i] = a[i]
  OBVIOUS
<1> QED BY <1>1 DEF Begins, Reaches

LEMMA ListStays ==
    ASSUME RowsGoOn, history \in [Delivery -> Seq(Transition)], history' \in [Delivery -> Seq(Transition)],
           NEW k \in Dispatch, NEW view \in View, ListOK(k, view)
    PROVE  ListOK(k, view)'
<1>1. DOMAIN view \subseteq Delivery
  BY ViewIsFunction
<1> QED BY <1>1, ReachesOn DEF ListOK, RowsGoOn

LEMMA CardStays ==
    ASSUME RowsGoOn, history \in [Delivery -> Seq(Transition)], history' \in [Delivery -> Seq(Transition)],
           NEW d \in Delivery, NEW card \in Card, CardOK(d, card)
    PROVE  CardOK(d, card)'
BY BeginsOn DEF CardOK, RowsGoOn, Card

\* A step of the rows while the tab does nothing.
LEMMA RowsKeep ==
    ASSUME IInv, RowsGoOn, RowInv', status' \in [Delivery -> Life!DeliveryStatus \cup {"none"}],
           history' \in [Delivery -> Seq(Transition)], UNCHANGED <<accepted, tabVars>>
    PROVE  IInv'
<1>1. TypeOK'
  BY DEF IInv, TypeOK, tabVars
<1>2. FetchInv'
  <2> SUFFICES ASSUME NEW k \in Dispatch
               PROVE  /\ ListOK(k, fetch[k].view)'
                      /\ \A d \in DOMAIN fetch[k].view \ fetch[k].todo : CardOK(d, fetch[k].view[d])'
    BY DEF FetchInv, tabVars
  <2>1. fetch[k].view \in View
    BY DEF IInv, TypeOK
  <2>2. ListOK(k, fetch[k].view)'
    BY <2>1, ListStays DEF IInv, TypeOK, FetchInv, tabVars
  <2>3. ASSUME NEW d \in DOMAIN fetch[k].view \ fetch[k].todo
        PROVE  CardOK(d, fetch[k].view[d])'
    BY <2>1, CardStays, ViewIsFunction DEF IInv, TypeOK, FetchInv, tabVars
  <2> QED BY <2>2, <2>3
<1>3. DataInv'
  <2> SUFFICES ASSUME NEW k \in Dispatch
               PROVE  /\ ListOK(k, data[k].view)'
                      /\ \A d \in DOMAIN data[k].view : CardOK(d, data[k].view[d])'
    BY DEF DataInv, tabVars
  <2>1. data[k].view \in View
    BY DEF IInv, TypeOK
  <2>2. ListOK(k, data[k].view)'
    BY <2>1, ListStays DEF IInv, TypeOK, DataInv, tabVars
  <2>3. ASSUME NEW d \in DOMAIN data[k].view
        PROVE  CardOK(d, data[k].view[d])'
    BY <2>1, CardStays, ViewIsFunction DEF IInv, TypeOK, DataInv, tabVars
  <2> QED BY <2>2, <2>3
<1> QED BY <1>1, <1>2, <1>3 DEF IInv

\* What Lifecycle's steps do to one delivery, and to nothing else.
LEMMA RowStepShape ==
    ASSUME IInv, NEW d \in Delivery, RowStep(d)
    PROVE  \E t \in Transition :
              /\ history' = [history EXCEPT ![d] = Append(@, t)]
              /\ status' = [status EXCEPT ![d] = t[2]]
              /\ status[d] \in Life!Terminal => t[2] = status[d]
              /\ t[2] # "queued" => Life!Whole(DispatchOf[d])
<1>1. CASE Life!Create(d)
  <2>1. <<"none", "queued">> \in Transition
    BY DEF Transition, Life!DeliveryStatus
  <2>2. /\ history' = [history EXCEPT ![d] = Append(@, <<"none", "queued">>)]
        /\ status' = [status EXCEPT ![d] = "queued"]
        /\ status[d] = "none"
    BY <1>1 DEF Life!Create, Life!Noted
  <2> QED BY <2>1, <2>2 DEF Life!Terminal
<1>2. ASSUME NEW to \in Life!DeliveryStatus, Life!Move(d, to)
      PROVE  \E t \in Transition :
              /\ history' = [history EXCEPT ![d] = Append(@, t)]
              /\ status' = [status EXCEPT ![d] = t[2]]
              /\ status[d] \in Life!Terminal => t[2] = status[d]
              /\ t[2] # "queued" => Life!Whole(DispatchOf[d])
  <2>1. <<status[d], to>> \in Transition
    BY DEF IInv, TypeOK, Transition
  <2>2. /\ history' = [history EXCEPT ![d] = Append(@, <<status[d], to>>)]
        /\ status' = [status EXCEPT ![d] = to]
        /\ status[d] \notin Life!Terminal
        /\ Life!Whole(DispatchOf[d])
    BY <1>2 DEF Life!Move, Life!Noted, Life!AllowedTransitions, Life!Terminal
  <2> QED BY <2>1, <2>2
<1>3. ASSUME NEW from \in Life!DeliveryStatus, Life!Repeat(d, from)
      PROVE  \E t \in Transition :
              /\ history' = [history EXCEPT ![d] = Append(@, t)]
              /\ status' = [status EXCEPT ![d] = t[2]]
              /\ status[d] \in Life!Terminal => t[2] = status[d]
              /\ t[2] # "queued" => Life!Whole(DispatchOf[d])
  <2>1. <<from, status[d]>> \in Transition
    BY <1>3 DEF Life!Repeat, Life!Terminal, Transition, Life!DeliveryStatus
  <2>2. /\ history' = [history EXCEPT ![d] = Append(@, <<from, status[d]>>)]
        /\ status[d] \in Life!Terminal /\ UNCHANGED status
    BY <1>3 DEF Life!Repeat, Life!Noted
  <2>3. Life!Whole(DispatchOf[d])
    BY <2>2 DEF IInv, RowInv, Life!Terminal
  <2>4. status' = [status EXCEPT ![d] = status[d]]
    BY <2>2 DEF IInv, TypeOK
  <2> QED BY <2>1, <2>2, <2>3, <2>4
<1> QED BY <1>1, <1>2, <1>3 DEF RowStep

LEMMA RowStepKeeps ==
    ASSUME IInv, NEW d \in Delivery, RowStep(d)
    PROVE  IInv'
<1>1. PICK t \in Transition :
              /\ history' = [history EXCEPT ![d] = Append(@, t)]
              /\ status' = [status EXCEPT ![d] = t[2]]
              /\ status[d] \in Life!Terminal => t[2] = status[d]
              /\ t[2] # "queued" => Life!Whole(DispatchOf[d])
  BY RowStepShape
<1>2. t[2] \in Life!DeliveryStatus
  BY DEF Transition
<1>3. status' \in [Delivery -> Life!DeliveryStatus \cup {"none"}]
  BY <1>1, <1>2 DEF IInv, TypeOK
<1>4. history \in [Delivery -> Seq(Transition)] /\ history' \in [Delivery -> Seq(Transition)]
  BY <1>1, AppendGoesOn DEF IInv, TypeOK
<1>5. /\ history'[d] = Append(history[d], t) /\ status'[d] = t[2]
      /\ \A e \in Delivery \ {d} : history'[e] = history[e] /\ status'[e] = status[e]
  BY <1>1 DEF IInv, TypeOK
<1>6. RowsGoOn
  <2> SUFFICES ASSUME NEW e \in Delivery
               PROVE  /\ Begins(history[e], history'[e])
                      /\ status[e] \in Life!Terminal => status'[e] = status[e]
    BY DEF RowsGoOn
  <2> QED BY <1>1, <1>4, <1>5, AppendGoesOn, BeginsItself
<1>7. RowInv'
  <2> SUFFICES ASSUME NEW e \in Delivery
               PROVE  /\ status'[e] # "none" => Reaches(history'[e], status'[e])
                      /\ status'[e] \notin {"none", "queued"} => Life!Whole(DispatchOf[e])'
    BY DEF RowInv
  <2>1. status'[e] # "none" => Reaches(history'[e], status'[e])
    <3>1. CASE e = d
      BY <1>4, <1>5, <3>1, AppendGoesOn
    <3>2. CASE e # d
      BY <1>5, <3>2 DEF IInv, RowInv
    <3> QED BY <3>1, <3>2
  <2>2. status'[e] \notin {"none", "queued"} => Life!Whole(DispatchOf[e])
    BY <1>1, <1>5 DEF IInv, RowInv
  <2>3. Life!Whole(DispatchOf[e]) => Life!Whole(DispatchOf[e])'
    BY <1>2, <1>5 DEF Life!Whole, Life!DeliveryStatus
  <2> QED BY <2>1, <2>2, <2>3
<1>8. UNCHANGED <<accepted, tabVars>>
  BY DEF RowStep
<1> QED BY <1>3, <1>4, <1>6, <1>7, <1>8, RowsKeep

-----------------------------------------------------------------------------
(* The tab goes on over rows that stay *)

\* The rows stay, and one query's fetch or data changes.
LEMMA TabKeeps ==
    ASSUME IInv, UNCHANGED rowVars, TypeOK', FetchInv', DataInv'
    PROVE  IInv'
<1>1. RowInv'
  BY DEF IInv, RowInv, rowVars, Life!Whole
<1> QED BY <1>1 DEF IInv

\* A fetch that has read nothing promises nothing.
LEMMA FetchAnew ==
    ASSUME IInv, UNCHANGED <<rowVars, data>>, NEW k \in Dispatch, NEW f,
           f.view = NoView, fetch' = [fetch EXCEPT ![k] = f]
    PROVE  FetchInv' /\ DataInv'
<1>1. DataInv'
  BY DEF IInv, DataInv, ListOK, CardOK, rowVars
<1>2. FetchInv'
  <2> SUFFICES ASSUME NEW m \in Dispatch
               PROVE  (/\ ListOK(m, fetch[m].view)
                       /\ \A d \in DOMAIN fetch[m].view \ fetch[m].todo : CardOK(d, fetch[m].view[d]))'
    BY DEF FetchInv
  <2>1. CASE m = k
    BY <2>1, NoViewIsView DEF ListOK, IInv, TypeOK
  <2>2. CASE m # k
    BY <2>2 DEF IInv, TypeOK, FetchInv, ListOK, CardOK, rowVars
  <2> QED BY <2>1, <2>2
<1> QED BY <1>1, <1>2

\* list_for_dispatch: a final status among the rows means that all of them are there.
LEMMA ListKeeps ==
    ASSUME IInv, NEW k \in Dispatch, ListDeliveries(k)
    PROVE  IInv'
<1> DEFINE found == { d \in Delivery : DispatchOf[d] = k /\ status[d] # "none" }
           view == [d \in found |-> [status |-> status[d], log |-> << >>]]
           f == [pc |-> "reading", retried |-> fetch[k].retried, todo |-> found, view |-> view]
<1>1. /\ fetch' = [fetch EXCEPT ![k] = f]
      /\ UNCHANGED <<rowVars, accepted, data, open, faults>>
  BY DEF ListDeliveries
<1>2. view \in [found -> Card] /\ view \in View /\ DOMAIN view = found
  <2>1. view \in [found -> Card]
    BY DEF IInv, TypeOK, Card
  <2> QED BY <2>1, FunctionIsView
<1>3. /\ f.view = view /\ f.todo = found
      /\ f \in [pc : {"idle", "asked", "reading"}, retried : BOOLEAN, todo : SUBSET Delivery, view : View]
  <2> HIDE DEF view
  <2> QED BY <1>2 DEF IInv, TypeOK
<1>4. TypeOK'
  <2> HIDE DEF f
  <2> QED BY <1>1, <1>3 DEF IInv, TypeOK, rowVars
<1>5. ListOK(k, view)
  <2> SUFFICES ASSUME NEW d \in found
               PROVE  /\ DispatchOf[d] = k
                      /\ Reaches(history[d], view[d].status)
                      /\ view[d].status \in Life!Terminal =>
                            /\ status[d] = view[d].status
                            /\ \A e \in Delivery : DispatchOf[e] = k => e \in found
    BY <1>2 DEF ListOK
  <2>1. view[d].status = status[d]
    OBVIOUS
  <2> QED BY <2>1 DEF IInv, RowInv, Life!Terminal, Life!Whole
<1> HIDE DEF view, found
<1>6. FetchInv'
  <2> SUFFICES ASSUME NEW m \in Dispatch
               PROVE  (/\ ListOK(m, fetch[m].view)
                       /\ \A d \in DOMAIN fetch[m].view \ fetch[m].todo : CardOK(d, fetch[m].view[d]))'
    BY DEF FetchInv
  <2>1. CASE m = k
    <3>1. fetch'[m] = f
      BY <1>1, <2>1 DEF IInv, TypeOK
    <3> QED BY <1>1, <1>2, <1>3, <1>5, <2>1, <3>1 DEF ListOK, rowVars
  <2>2. CASE m # k
    BY <1>1, <2>2 DEF IInv, TypeOK, FetchInv, ListOK, CardOK, rowVars
  <2> QED BY <2>1, <2>2
<1>7. DataInv'
  BY <1>1 DEF IInv, DataInv, ListOK, CardOK, rowVars
<1> QED BY <1>1, <1>4, <1>6, <1>7, TabKeeps

\* transitions_for_delivery: what is read now contains what the row said before.
LEMMA ReadKeeps ==
    ASSUME IInv, NEW k \in Dispatch, ReadTransitions(k)
    PROVE  IInv'
<1>1. PICK d \in fetch[k].todo :
          fetch' = [fetch EXCEPT ![k] = [pc |-> "reading", retried |-> @.retried, todo |-> @.todo \ {d},
                                         view |-> [@.view EXCEPT ![d].log = history[d]]]]
  BY DEF ReadTransitions
<1> DEFINE old == fetch[k].view
           view == [old EXCEPT ![d].log = history[d]]
<1>2. old \in View /\ d \in Delivery /\ history[d] \in Seq(Transition)
  BY DEF IInv, TypeOK
<1>3. /\ UNCHANGED <<rowVars, accepted, data, open, faults>>
      /\ fetch' = [fetch EXCEPT ![k] = [pc |-> "reading", retried |-> @.retried,
                                         todo |-> @.todo \ {d}, view |-> view]]
  BY <1>1 DEF ReadTransitions
<1>4. /\ view \in [DOMAIN old -> Card]
      /\ \A e \in DOMAIN old : view[e].status = old[e].status
      /\ \A e \in DOMAIN old \ {d} : view[e] = old[e]
      /\ d \in DOMAIN old => view[d].log = history[d]
  BY <1>2, ViewIsFunction DEF Card
<1>5. DOMAIN view = DOMAIN old /\ view \in View
  BY <1>2, <1>4, ViewIsFunction, FunctionIsView
<1>6. TypeOK'
  BY <1>3, <1>5 DEF IInv, TypeOK, rowVars
<1>7. /\ ListOK(k, view)
      /\ \A e \in DOMAIN view \ (fetch[k].todo \ {d}) : CardOK(e, view[e])
  <2>1. ListOK(k, view)
    BY <1>4, <1>5 DEF IInv, FetchInv, ListOK
  <2>2. ASSUME NEW e \in DOMAIN old, e = d
        PROVE  CardOK(e, view[e])
    BY <1>2, <1>4, <2>2, BeginsItself DEF IInv, FetchInv, ListOK, CardOK
  <2>3. ASSUME NEW e \in DOMAIN old, e # d, e \notin fetch[k].todo
        PROVE  CardOK(e, view[e])
    BY <1>4, <2>3 DEF IInv, FetchInv
  <2> QED BY <1>5, <2>1, <2>2, <2>3
<1>8. fetch'[k].view = view /\ fetch'[k].todo = fetch[k].todo \ {d}
  BY <1>3 DEF IInv, TypeOK
<1> HIDE DEF view, old
<1>9. FetchInv'
  <2> SUFFICES ASSUME NEW m \in Dispatch
               PROVE  (/\ ListOK(m, fetch[m].view)
                       /\ \A e \in DOMAIN fetch[m].view \ fetch[m].todo : CardOK(e, fetch[m].view[e]))'
    BY DEF FetchInv
  <2>1. CASE m = k
    BY <1>3, <1>7, <1>8, <2>1 DEF ListOK, CardOK, rowVars
  <2>2. CASE m # k
    BY <1>3, <2>2 DEF IInv, TypeOK, FetchInv, ListOK, CardOK, rowVars
  <2> QED BY <2>1, <2>2
<1>10. DataInv'
  BY <1>3 DEF IInv, DataInv, ListOK, CardOK, rowVars
<1> QED BY <1>3, <1>6, <1>9, <1>10, TabKeeps

\* The answer: what a finished fetch has read becomes the data.
LEMMA ReceiveKeeps ==
    ASSUME IInv, NEW k \in Dispatch, Receive(k)
    PROVE  IInv'
<1>1. /\ fetch[k].todo = {} /\ UNCHANGED <<rowVars, accepted, open, faults>>
      /\ data' = [data EXCEPT ![k] = [loaded |-> TRUE, view |-> fetch[k].view]]
      /\ fetch' = [fetch EXCEPT ![k] = NoFetch]
  BY DEF Receive
<1>2. TypeOK'
  BY <1>1, NoViewIsView DEF IInv, TypeOK, NoFetch, rowVars
<1>3. FetchInv'
  <2> SUFFICES ASSUME NEW m \in Dispatch
               PROVE  (/\ ListOK(m, fetch[m].view)
                       /\ \A d \in DOMAIN fetch[m].view \ fetch[m].todo : CardOK(d, fetch[m].view[d]))'
    BY DEF FetchInv
  <2>1. CASE m = k
    BY <1>1, <2>1, NoViewIsView DEF ListOK, IInv, TypeOK, NoFetch
  <2>2. CASE m # k
    BY <1>1, <2>2 DEF IInv, TypeOK, FetchInv, ListOK, CardOK, rowVars
  <2> QED BY <2>1, <2>2
<1>4. DataInv'
  <2> SUFFICES ASSUME NEW m \in Dispatch
               PROVE  (/\ ListOK(m, data[m].view)
                       /\ \A d \in DOMAIN data[m].view : CardOK(d, data[m].view[d]))'
    BY DEF DataInv
  <2>1. CASE m = k
    BY <1>1, <2>1 DEF IInv, TypeOK, FetchInv, ListOK, CardOK, rowVars
  <2>2. CASE m # k
    BY <1>1, <2>2 DEF IInv, TypeOK, DataInv, ListOK, CardOK, rowVars
  <2> QED BY <2>1, <2>2
<1> QED BY <1>1, <1>2, <1>3, <1>4, TabKeeps

\* Data that is dropped promises nothing.
LEMMA CollectKeeps ==
    ASSUME IInv, NEW k \in Dispatch, Collect(k)
    PROVE  IInv'
<1>1. /\ UNCHANGED <<rowVars, accepted, fetch, open, faults>>
      /\ data' = [data EXCEPT ![k] = Unloaded]
  BY DEF Collect
<1>2. TypeOK'
  BY <1>1, NoViewIsView DEF IInv, TypeOK, Unloaded, rowVars
<1>3. FetchInv'
  BY <1>1 DEF IInv, FetchInv, ListOK, CardOK, rowVars
<1>4. DataInv'
  <2> SUFFICES ASSUME NEW m \in Dispatch
               PROVE  (/\ ListOK(m, data[m].view)
                       /\ \A d \in DOMAIN data[m].view : CardOK(d, data[m].view[d]))'
    BY DEF DataInv
  <2>1. CASE m = k
    BY <1>1, <2>1, NoViewIsView DEF ListOK, IInv, TypeOK, Unloaded
  <2>2. CASE m # k
    BY <1>1, <2>2 DEF IInv, TypeOK, DataInv, ListOK, CardOK, rowVars
  <2> QED BY <2>1, <2>2
<1> QED BY <1>1, <1>2, <1>3, <1>4, TabKeeps

\* Asking, asking again and giving up.
LEMMA AskKeeps ==
    ASSUME IInv, NEW k \in Dispatch, Open(k) \/ Poll(k) \/ Lose(k)
    PROVE  IInv'
<1>1. UNCHANGED <<rowVars, accepted, data>> /\ open' \in Dispatch \cup {Nobody} /\ faults' \in 0 .. MaxFaults
  <2>1. UNCHANGED <<rowVars, accepted, data>> /\ open' \in {open, k} /\ faults' \in {faults, faults + 1}
    BY DEF Open, Poll, Lose
  <2>2. faults' = faults \/ faults < MaxFaults
    BY DEF Open, Poll, Lose
  <2> QED BY <2>1, <2>2, DetailAssumption DEF IInv, TypeOK
<1>2. ASSUME NEW f, f.view = NoView, fetch' = [fetch EXCEPT ![k] = f],
             f \in [pc : {"idle", "asked", "reading"}, retried : BOOLEAN, todo : SUBSET Delivery, view : View]
      PROVE  IInv'
  <2>1. TypeOK'
    BY <1>1, <1>2 DEF IInv, TypeOK, rowVars
  <2> QED BY <1>1, <1>2, <2>1, FetchAnew, TabKeeps
<1>3. CASE UNCHANGED fetch
  <2>1. TypeOK' /\ FetchInv' /\ DataInv'
    BY <1>1, <1>3 DEF IInv, TypeOK, FetchInv, DataInv, ListOK, CardOK, rowVars
  <2> QED BY <1>1, <2>1, TabKeeps
<1>4. CASE fetch' = [fetch EXCEPT ![k] = NoFetch]
  BY <1>2, <1>4, NoViewIsView DEF NoFetch
<1>5. ASSUME NEW re \in BOOLEAN, fetch' = [fetch EXCEPT ![k] = Asked(re)]
      PROVE  IInv'
  BY <1>2, <1>5, NoViewIsView DEF Asked
<1>6. Open(k) \/ Poll(k) => UNCHANGED fetch \/ fetch' = [fetch EXCEPT ![k] = Asked(FALSE)]
  BY DEF Open, Poll, Fetch
<1>7. Lose(k) => fetch' = [fetch EXCEPT ![k] = Asked(TRUE)] \/ fetch' = [fetch EXCEPT ![k] = NoFetch]
  BY DEF Lose
<1> QED BY <1>3, <1>4, <1>5, <1>6, <1>7

LEMMA StepKeeps == IInv /\ [Next]_vars => IInv'
<1> SUFFICES ASSUME IInv, [Next]_vars PROVE IInv'
  OBVIOUS
<1>1. ASSUME UNCHANGED <<rowVars, fetch, data>>, accepted' \subseteq Dispatch,
             open' \in Dispatch \cup {Nobody}, UNCHANGED faults
      PROVE  IInv'
  <2>1. TypeOK' /\ FetchInv' /\ DataInv'
    BY <1>1 DEF IInv, TypeOK, FetchInv, DataInv, ListOK, CardOK, rowVars
  <2> QED BY <1>1, <2>1, TabKeeps
<1>2. ASSUME NEW k \in Dispatch, Accept(k)
      PROVE  IInv'
  BY <1>1, <1>2 DEF Accept, tabVars, IInv, TypeOK
<1>3. CASE Close
  BY <1>1, <1>3 DEF Close, IInv, TypeOK
<1>4. CASE UNCHANGED vars
  BY <1>1, <1>4 DEF vars, tabVars, IInv, TypeOK
<1> QED BY <1>2, <1>3, <1>4, RowStepKeeps, ListKeeps, ReadKeeps, ReceiveKeeps, CollectKeeps, AskKeeps DEF Next

\* What a half-read view may rely on holds in every reachable state.
THEOREM Invariance == Spec => []IInv
BY Initially, StepKeeps, PTL DEF Spec

\* The rows, the fetches and the data keep their types.
THEOREM TypesCorrect == Spec => []TypeOK
<1>1. IInv => TypeOK
  BY DEF IInv
<1> QED BY <1>1, Invariance, PTL

\* A card's status is on its own timeline, and its timeline is a beginning of the
\* delivery's, for every interleaving of reads and writes.
THEOREM CardsAreConsistent == Spec => []ViewConsistent
<1>1. IInv => ViewConsistent
  BY DEF IInv, DataInv, CardOK, Reaches, Begins, ViewConsistent
<1> QED BY <1>1, Invariance, PTL

\* A view without work in progress shows every recipient with the status it keeps: the
\* first row that is final was moved after the last row was created.
THEOREM StopsWhenComplete == Spec => []StopsComplete
<1>1. IInv => StopsComplete
  BY DEF IInv, DataInv, ListOK, StopsComplete, InProgress
<1> QED BY <1>1, Invariance, PTL
=============================================================================
