----------------------------- MODULE Redelivery -----------------------------
(***************************************************************************)
(* A sender with one event, the receive route, and the insert under        *)
(* retry_on_locked.  The route answers 200, 503 with Retry-After when the  *)
(* storage is contended, or 500.  The sender redelivers on 503 and when    *)
(* the connection is lost, gives the event up on 500, and does one of the  *)
(* two when its own timeout is over.                                       *)
(***************************************************************************)
EXTENDS LockRetry

CONSTANTS
    Patiences,          \* how long senders wait (GitHub: 10 s)
    MaxDeliveries,      \* bound: deliveries of the event
    MaxLost             \* bound: connections lost

ASSUME SenderAssumption ==
    /\ Patiences \subseteq Nat
    /\ MaxDeliveries \in Nat
    /\ MaxLost \in Nat

VARIABLES
    sender,         \* "ready" to deliver, "waiting", "done" or "dropped"
    patience,       \* this sender's timeout
    deliveries,
    lostAnswers,    \* connections lost while a delivery was under way
    timeouts        \* deliveries for which the sender stopped waiting

senderVars == <<sender, patience, deliveries, lostAnswers, timeouts>>
vars == <<callVars, senderVars>>

\* Wrong on purpose: every storage error is answered as contention.
StatusOf_AlwaysBusy(e) == IF e = NoError THEN 200 ELSE 503

StatusOf(e) ==
    IF e = NoError THEN 200 ELSE IF IsLockContention(e) THEN 503 ELSE 500

Deliver ==
    /\ sender = "ready"
    /\ deliveries < MaxDeliveries
    /\ deliveries' = deliveries + 1
    /\ sender' = "waiting"
    /\ Begin
    /\ UNCHANGED <<patience, lostAnswers, timeouts>>

Handle ==
    /\ sender = "waiting"
    /\ CallStep
    /\ UNCHANGED senderVars

Answer ==
    /\ sender = "waiting"
    /\ elapsed < patience
    /\ \/ StatusOf(error) = 200 /\ sender' = "done"
       \/ StatusOf(error) = 503 /\ sender' = "ready"
       \/ StatusOf(error) = 500 /\ sender' = "dropped"
    /\ CallEnds
    /\ UNCHANGED <<patience, deliveries, lostAnswers, timeouts>>

\* The sender closes the connection and the server drops the handler.
SenderTimesOut ==
    /\ sender = "waiting"
    /\ elapsed >= patience
    /\ timeouts' = timeouts + 1
    /\ sender' \in {"ready", "dropped"}
    /\ CallDropped
    /\ UNCHANGED <<patience, deliveries, lostAnswers>>

\* The network fails or the process restarts at any moment of the delivery.
ConnectionLost ==
    /\ sender = "waiting"
    /\ lostAnswers < MaxLost
    /\ lostAnswers' = lostAnswers + 1
    /\ sender' = "ready"
    /\ CallDropped
    /\ UNCHANGED <<patience, deliveries, timeouts>>

Init ==
    /\ CallInit
    /\ sender = "ready"
    /\ patience \in Patiences
    /\ deliveries = 0
    /\ lostAnswers = 0
    /\ timeouts = 0

Next ==
    \/ Deliver
    \/ Handle
    \/ Answer
    \/ SenderTimesOut
    \/ ConnectionLost

Spec == Init /\ [][Next]_vars

-----------------------------------------------------------------------------
TypeOK ==
    /\ CallType
    /\ sender \in {"ready", "waiting", "done", "dropped"}
    /\ patience \in Patiences
    /\ deliveries \in Nat
    /\ lostAnswers \in Nat
    /\ timeouts \in Nat
    /\ sender = "waiting" <=> call # "idle"

Patient == patience > SlowestCall

\* "Nothing was written, so retrying cannot duplicate anything" (route/mod.rs):
\* an event is stored more than once only if a connection was lost or the
\* sender is one that stops waiting before the slowest call is over, and a
\* sender that got its 200 finds the event stored.
StoredOnce ==
    /\ commits <= 1 + lostAnswers + (IF Patient THEN 0 ELSE timeouts)
    /\ sender = "done" => commits > 0

\* "A lock collision costs a retry instead of the event itself" (route/mod.rs):
\* a sender that outwaits the slowest call gives the event up only on an error
\* that is not contention.
ContentionOnlyDelays == Patient /\ sender = "dropped" => error \in Broken
=============================================================================
