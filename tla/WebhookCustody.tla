--------------------------- MODULE WebhookCustody ---------------------------
(***************************************************************************)
(* What kwp promises about a webhook it has answered 200 for, with nothing *)
(* said of how: it stays in the queue until the target has accepted it, a  *)
(* poll has taken it or an operator has removed it; a poll takes it for    *)
(* itself alone; and what has left the queue never comes back to it.       *)
(* Delivery is at least once: a webhook may be delivered while it is       *)
(* queued, again, and even after it has left, by an attempt under way.     *)
(***************************************************************************)
CONSTANT Webhooks

VARIABLES
    admitted,   \* webhooks that entered the queue at some time
    queued,     \* those still in it
    delivered,  \* those the target has accepted
    released,   \* those a poll took
    discarded   \* those an operator removed

vars == <<admitted, queued, delivered, released, discarded>>

TypeOK ==
    /\ admitted \subseteq Webhooks
    /\ queued \subseteq admitted
    /\ delivered \subseteq admitted
    /\ released \subseteq admitted
    /\ discarded \subseteq admitted

Init ==
    /\ admitted = {}
    /\ queued = {}
    /\ delivered = {}
    /\ released = {}
    /\ discarded = {}

Admit(w) ==
    /\ w \in Webhooks \ admitted
    /\ admitted' = admitted \cup {w}
    /\ queued' = queued \cup {w}
    /\ UNCHANGED <<delivered, released, discarded>>

Deliver(w) ==
    /\ w \in admitted
    /\ delivered' = delivered \cup {w}
    /\ UNCHANGED <<admitted, queued, released, discarded>>

Retire(w) ==
    /\ w \in queued \cap delivered
    /\ queued' = queued \ {w}
    /\ UNCHANGED <<admitted, delivered, released, discarded>>

Release(S) ==
    /\ S \subseteq queued
    /\ queued' = queued \ S
    /\ released' = released \cup S
    /\ UNCHANGED <<admitted, delivered, discarded>>

Discard(S) ==
    /\ S \subseteq queued
    /\ queued' = queued \ S
    /\ discarded' = discarded \cup S
    /\ UNCHANGED <<admitted, delivered, released>>

Next ==
    \/ \E w \in Webhooks : Admit(w) \/ Deliver(w) \/ Retire(w)
    \/ \E S \in SUBSET Webhooks : Release(S) \/ Discard(S)

Spec == Init /\ [][Next]_vars
=============================================================================
