---------------------------- MODULE DeliveryStore ----------------------------
(***************************************************************************)
(* The rows the notification pipeline shares: dispatch, delivery, the      *)
(* append-only delivery_transition and idempotency_key, with the writes of *)
(* the repositories that own them.  Each operator is the COMMIT of one     *)
(* repository call; the reads that precede it are separate steps of the    *)
(* caller, because a session that has SELECTed a row holds no lock on it.  *)
(*                                                                         *)
(* A definition introduced as "Variant:", here and in the other modules,   *)
(* is a plausible bug of the definition after it, not part of the model;   *)
(* the README says which property each one breaks.                         *)
(***************************************************************************)
EXTENDS Naturals, Sequences

CONSTANTS Dispatch,        \* dispatches, one per accepted send request
          Delivery,        \* deliveries, one per recipient of a dispatch
          DispatchOf,      \* [Delivery -> Dispatch]
          NoDestination,   \* deliveries whose contact lacks the channel's address
          BadDestination,  \* deliveries whose address the adapter rejects
          Polled,          \* deliveries of an SMS dispatch: confirmed by polling
          MaxAttempts,     \* retry_max_attempts
          NoRef            \* a null provider_ref

ASSUME StoreAssumption == /\ DispatchOf \in [Delivery -> Dispatch]
                          /\ NoDestination \subseteq Delivery
                          /\ BadDestination \subseteq Delivery \ NoDestination
                          /\ Polled \subseteq Delivery
                          /\ MaxAttempts \in Nat \ {0}
                          /\ NoRef \notin Delivery \X (1 .. MaxAttempts)

VARIABLES dispatched,  \* dispatch rows
          status,      \* delivery.status, "none" while there is no row
          ref,         \* delivery.provider_ref
          reason,      \* delivery.failure_reason, "none" when null
          history,     \* delivery_transition rows of a delivery, in commit order
          keys         \* deliveries that have an idempotency_key row

dbVars == <<dispatched, status, ref, reason, history, keys>>

\* The n-th send of d that the provider accepts gets a reference of its own.
Ref == Delivery \X (1 .. MaxAttempts)

Status == {"none", "queued", "sent", "delivered", "failed"}
Reason == {"none", "missing_destination", "invalid_format", "channel_error", "carrier_rejected"}

StoreInit == /\ dispatched = {}
             /\ status  = [d \in Delivery |-> "none"]
             /\ ref     = [d \in Delivery |-> NoRef]
             /\ reason  = [d \in Delivery |-> "none"]
             /\ history = [d \in Delivery |-> << >>]
             /\ keys    = {}

StoreTypeOK == /\ dispatched \subseteq Dispatch
               /\ status  \in [Delivery -> Status]
               /\ ref     \in [Delivery -> Ref \cup {NoRef}]
               /\ reason  \in [Delivery -> Reason]
               /\ history \in [Delivery -> Seq(Status \X Status)]
               /\ keys    \subseteq Delivery

CreateDispatch(k) == /\ dispatched' = dispatched \cup {k}
                     /\ UNCHANGED <<status, ref, reason, history, keys>>

\* UPDATE of the row and INSERT of the transition, committed together.
Write(d, from, to) == /\ status'  = [status EXCEPT ![d] = to]
                      /\ history' = [history EXCEPT ![d] = Append(@, <<from, to>>)]

CreateQueued(d) == /\ Write(d, "none", "queued")
                   /\ UNCHANGED <<dispatched, ref, reason, keys>>

WriteSent(d, from, r) == /\ Write(d, from, "sent")
                         /\ ref' = [ref EXCEPT ![d] = r]
                         /\ UNCHANGED <<dispatched, reason, keys>>

WriteFailed(d, from, why) == /\ Write(d, from, "failed")
                             /\ reason' = [reason EXCEPT ![d] = why]
                             /\ UNCHANGED <<dispatched, ref, keys>>

\* confirm and confirm_by_provider_ref; the reason is stored only for a failure.
WriteConfirmed(d, outcome, why) ==
    /\ Write(d, "sent", outcome)
    /\ reason' = IF outcome = "failed" THEN [reason EXCEPT ![d] = why] ELSE reason
    /\ UNCHANGED <<dispatched, ref, keys>>

\* Variant: no unique constraint.
ClaimKeyTwice(d) == /\ keys' = keys \cup {d}
                    /\ UNCHANGED <<dispatched, status, ref, reason, history>>

\* The INSERT of the key; the unique constraint refuses a second one.
ClaimKey(d) == /\ d \notin keys
               /\ keys' = keys \cup {d}
               /\ UNCHANGED <<dispatched, status, ref, reason, history>>

\* The deliveries of k a fan-out reads.
QueuedIds(k) == { d \in Delivery : DispatchOf[d] = k /\ status[d] = "queued" }
=============================================================================
