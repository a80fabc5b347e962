------------------------------ MODULE Lifecycle ------------------------------
(***************************************************************************)
(* What a delivery promises to everyone who reads it: a record is created  *)
(* queued with its first transition; its status moves along the edges of   *)
(* domain/dispatch.py, not before every recipient of its dispatch has a    *)
(* record; each move leaves a transition, and a final status may leave     *)
(* more than one.  Module Pipeline is shown to implement this              *)
(* specification, and module SendDetail reads what it writes.              *)
(***************************************************************************)
EXTENDS Sequences

CONSTANTS Dispatch, Delivery, DispatchOf

VARIABLES status,    \* status of each delivery; "none" before its row exists
          history    \* its delivery_transition rows, in commit order

lifeVars == <<status, history>>

DeliveryStatus == {"queued", "sent", "delivered", "failed"}

AllowedTransitions == { <<"queued", "sent">>, <<"queued", "failed">>,
                        <<"sent", "delivered">>, <<"sent", "failed">> }

Terminal == {"delivered", "failed"}

Init == /\ status = [d \in Delivery |-> "none"]
        /\ history = [d \in Delivery |-> << >>]

Noted(d, from, to) == history' = [history EXCEPT ![d] = Append(@, <<from, to>>)]

\* The recipients of dispatch k have their rows.
Whole(k) == \A d \in Delivery : DispatchOf[d] = k => status[d] # "none"

Create(d) == /\ status[d] = "none"
             /\ status' = [status EXCEPT ![d] = "queued"]
             /\ Noted(d, "none", "queued")

Move(d, to) == /\ <<status[d], to>> \in AllowedTransitions
               /\ Whole(DispatchOf[d])
               /\ status' = [status EXCEPT ![d] = to]
               /\ Noted(d, status[d], to)

\* A second writer of the outcome leaves a transition of its own.
Repeat(d, from) == /\ status[d] \in Terminal
                   /\ Noted(d, from, status[d])
                   /\ UNCHANGED status

Next == \E d \in Delivery : \/ Create(d)
                            \/ \E to \in DeliveryStatus : Move(d, to)
                            \/ \E from \in DeliveryStatus : Repeat(d, from)

Spec == Init /\ [][Next]_lifeVars
=============================================================================
