----------------------------- MODULE Dashboard ------------------------------
(***************************************************************************)
(* The console's dashboard: loadDashboard pages through the sends of the   *)
(* user by offset, newest first, and aggregate counts the `sent`           *)
(* transitions per UTC hour, while new sends come in at the head of the    *)
(* list and deliveries are sent.  A dispatch is its number of `sent`       *)
(* transitions in each hour.  A page is read in one step: the API reads    *)
(* its rows and then their transitions, which only grow.                   *)
(***************************************************************************)
EXTENDS Naturals, SequencesExt, FiniteSets

CONSTANTS Hour,        \* hours of the day
          Page, Cap,   \* PAGE and CAP
          MaxList,     \* bound: dispatches
          MaxSent,     \* bound: transitions of a dispatch in an hour
          MaxFaults    \* bound: pages that fail

ASSUME DashboardAssumption == /\ {Page, Cap} \subseteq Nat \ {0}
                              /\ Cap % Page = 0
                              /\ {MaxList, MaxSent, MaxFaults} \subseteq Nat

VARIABLES list,    \* the user's dispatches, newest first
          sent,    \* transitions of each dispatch per hour
          scan,    \* the load under way
          result,  \* the data of the last load, and history about it
          faults

vars == <<list, sent, scan, result, faults>>

Dispatch == 1 .. MaxList
Counts == [Hour -> Nat]
MaxCalls == Cap \div Page

\* got holds the dispatches read so far.  History: first is the list, low the
\* counts when the load (its last attempt) began, born the sends since.
NoScan == [on |-> FALSE, got |-> <<>>, offset |-> 0, calls |-> 0, retried |-> FALSE,
           first |-> <<>>, low |-> [h \in Hour |-> 0], born |-> 0]

SumOf(seq, h) == FoldLeft(LAMBDA acc, x : acc + x[h], 0, seq)

\* aggregate: per delivery and hour.
Aggregate(rows) == [h \in Hour |-> SumOf([i \in DOMAIN rows |-> rows[i].sent], h)]
TrueCounts == [h \in Hour |-> SumOf([i \in DOMAIN list |-> sent[list[i]]], h)]

Begun(retried) == [NoScan EXCEPT !.on = TRUE, !.retried = retried, !.first = list, !.low = TrueCounts]

Row == [id : Dispatch, sent : Counts]
Scan == [on : BOOLEAN, got : Seq(Row), offset : Nat, calls : Nat, retried : BOOLEAN,
         first : Seq(Dispatch), low : Counts, born : Nat]
Result == [capped : BOOLEAN, buckets : Counts, got : Seq(Row), high : Counts, scan : Scan]

TypeOK == /\ list \in Seq(Dispatch) /\ Len(list) <= MaxList
          /\ sent \in [Dispatch -> [Hour -> 0 .. MaxSent]]
          /\ scan \in Scan /\ scan.offset = Len(scan.got)
          /\ Len(scan.got) < Cap /\ scan.calls < MaxCalls
          /\ result \in Result
          /\ faults \in 0 .. MaxFaults

NoResult == [capped |-> FALSE, buckets |-> [h \in Hour |-> 0], got |-> <<>>,
             high |-> [h \in Hour |-> 0], scan |-> NoScan]

Init == /\ list = <<>>
        /\ sent = [d \in Dispatch |-> [h \in Hour |-> 0]]
        /\ scan = NoScan /\ result = NoResult /\ faults = 0

-----------------------------------------------------------------------------
(* The service *)

\* A dispatch is created: at the head, or behind one that began later and was
\* committed earlier.
NewSend(place) ==
  /\ Len(list) < MaxList
  /\ place <= Len(list) + 1
  /\ list' = InsertAt(list, place, Len(list) + 1)
  /\ scan' = [scan EXCEPT !.born = IF scan.on THEN @ + 1 ELSE 0]
  /\ UNCHANGED <<sent, result, faults>>

\* A delivery of the dispatch becomes sent.
Sent(d, h) == /\ d \in 1 .. Len(list)
              /\ sent[d][h] < MaxSent
              /\ sent' = [sent EXCEPT ![d][h] = @ + 1]
              /\ UNCHANGED <<list, scan, result, faults>>

Rows(from, n) == [i \in 1 .. n |-> [id |-> list[from + i], sent |-> sent[list[from + i]]]]
Left(from) == CASE Len(list) > from + Page -> Page
                [] Len(list) <= from       -> 0
                [] OTHER                   -> Len(list) - from

\* Variant: OFFSET counted from 1.
PageSkewed(offset) == Rows(offset + 1, Left(offset + 1))

\* GET /sends?limit&offset.
PageAt(offset) == Rows(offset, Left(offset))

-----------------------------------------------------------------------------
(* loadDashboard *)

\* The page is shown, or Refresh is clicked; a load under way is dropped.  What
\* was shown stays on the page, and is forgotten here.
Load == /\ scan' = Begun(FALSE) /\ result' = NoResult
        /\ UNCHANGED <<list, sent, faults>>

Finish(got, capped) ==
  /\ result' = [capped |-> capped, buckets |-> Aggregate(got), got |-> got, high |-> TrueCounts, scan |-> scan]
  /\ scan' = NoScan

\* Variant: the last page is one that is not longer than the limit.
ExhaustedEarly(rows) == Len(rows) <= Page
Exhausted(rows) == Len(rows) < Page

\* One turn of the loop.
ReadPage ==
  LET rows == PageAt(scan.offset)
      got == scan.got \o rows
  IN /\ scan.on
     /\ \/ Exhausted(rows) /\ Finish(got, FALSE)
        \/ ~Exhausted(rows) /\ Len(got) >= Cap /\ Finish(got, TRUE)
        \/ /\ ~Exhausted(rows) /\ Len(got) < Cap /\ scan.calls + 1 < MaxCalls
           /\ scan' = [scan EXCEPT !.got = got, !.offset = @ + Page, !.calls = @ + 1]
           /\ UNCHANGED result
     /\ UNCHANGED <<list, sent, faults>>

\* Variant: the retry goes on with the rows it has.
PageFailsKeeping ==
  /\ scan.on /\ faults < MaxFaults /\ faults' = faults + 1
  /\ scan' = IF scan.retried THEN NoScan ELSE [Begun(TRUE) EXCEPT !.got = scan.got]
  /\ UNCHANGED <<list, sent, result>>

\* A page fails: the load is made again from the start, once.
PageFails ==
  /\ scan.on /\ faults < MaxFaults /\ faults' = faults + 1
  /\ scan' = IF scan.retried THEN NoScan ELSE Begun(TRUE)
  /\ UNCHANGED <<list, sent, result>>

Next == \/ \E place \in {1, 2} : NewSend(place)
        \/ \E d \in Dispatch, h \in Hour : Sent(d, h)
        \/ Load \/ ReadPage \/ PageFails

Spec == Init /\ [][Next]_vars

-----------------------------------------------------------------------------
(* Properties *)

Ids(rows) == {rows[i].id : i \in DOMAIN rows}

\* A chart that is not marked as a recent window counts at least what was sent
\* when its load began, and at most what is sent when it ends if no send came
\* in between: so the exact counts when nothing happens (Dashboard.tsx:20).
CountsBracketed == ~result.capped =>
                     \A h \in Hour : /\ result.scan.low[h] <= result.buckets[h]
                                     /\ result.scan.born = 0 => result.buckets[h] <= result.high[h]

\* Offsets shift under new sends; a dispatch is then read twice, once for each
\* send that came in and no more (Dashboard.tsx:24).
CopiesBounded == Len(result.got) <= Cardinality(Ids(result.got)) + result.scan.born

\* The window that is shown has the newest sends of when the load began: as
\* many as the cap allows less those that came in meanwhile (Dashboard.tsx:28).
WindowCovered == \A q \in DOMAIN result.scan.first :
                   q + result.scan.born <= Cap => result.scan.first[q] \in Ids(result.got)

=============================================================================
