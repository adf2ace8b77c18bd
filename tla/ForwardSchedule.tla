-------------------------- MODULE ForwardSchedule --------------------------
(***************************************************************************)
(* The forwarder of one channel in time.  After a failure it sleeps for    *)
(* the interval and then takes the oldest webhook that is due, which may   *)
(* be the same one again if its own delay is over by then.  Times are      *)
(* relative and count down: the seconds until a webhook's next_attempt_at  *)
(* and the seconds the forwarder still sleeps.  The target never accepts   *)
(* the Hopeless webhooks and fails for the others a bounded number of      *)
(* times.                                                                  *)
(***************************************************************************)
EXTENDS Backoff, FiniteSets

CONSTANTS
    MaxWebhooks,        \* bound: webhooks 1, 2, ... arrive in this order
    Hopeless,           \* those whose payload the target always refuses
    HopelessStatuses,   \* what it answers for them
    FlakyStatuses,      \* what it may answer for the others
    HopelessAsks,       \* and the Retry-After it sends with that answer
    FlakyAsks,          \* the same for the others; NoRetryAfter if none
    JitterUnits,        \* values the clock may give as a random number
    MaxFlaky,           \* bound: failures of a webhook that is not hopeless
    AttemptCap,         \* bound: the attempt count stops here, past the clamp
    SendSeconds,        \* bound: how long one attempt may take
    SleepDrift          \* seconds a sleep may exceed the interval by

Webhooks == 1..MaxWebhooks

ASSUME ScheduleAssumption ==
    /\ MaxWebhooks \in Nat
    /\ Hopeless \subseteq Webhooks
    /\ HopelessAsks \cup FlakyAsks \subseteq Nat \cup {NoRetryAfter}
    /\ JitterUnits \subseteq 0..99
    /\ MaxFlaky \in Nat
    /\ AttemptCap \in Nat /\ AttemptCap >= MaxExponent + 1
    /\ AttemptCap >= MaxFlaky
    /\ SendSeconds \in Nat
    /\ SleepDrift \in Nat

VARIABLES
    arrived,    \* webhooks received so far
    queue,      \* those still stored
    attempts,   \* forward_attempts
    wait,       \* seconds until next_attempt_at, 0 when due
    sleeping,   \* seconds the forwarder still sleeps
    tried       \* the webhook tried since it last slept, 0 if none

vars == <<arrived, queue, attempts, wait, sleeping, tried>>

\* Wrong on purpose: a webhook is given up after two failures.
Due_GivesUp == {w \in queue : wait[w] = 0 /\ attempts[w] < 2}

Due == {w \in queue : wait[w] = 0}

\* Wrong on purpose: a webhook that waits out its delay is not skipped.
IsNext_AnyWait(w) == w \in queue /\ \A v \in queue : w <= v

IsNext(w) == w \in Due /\ \A v \in Due : w <= v

Later(t, seconds) == IF t > seconds THEN t - seconds ELSE 0
WaitAfter(seconds) == [w \in Webhooks |-> Later(wait[w], seconds)]

Init ==
    /\ arrived = 0
    /\ queue = {}
    /\ attempts = [w \in Webhooks |-> 0]
    /\ wait = [w \in Webhooks |-> 0]
    /\ sleeping = 0
    /\ tried = 0

Receive ==
    /\ arrived < MaxWebhooks
    /\ arrived' = arrived + 1
    /\ queue' = queue \cup {arrived + 1}
    /\ UNCHANGED <<attempts, wait, sleeping, tried>>

FallAsleep ==
    \E drift \in 0..SleepDrift : sleeping' = Interval + drift

Deliver(w) ==
    /\ sleeping = 0
    /\ IsNext(w)
    /\ w \notin Hopeless
    /\ queue' = queue \ {w}
    /\ attempts' = [attempts EXCEPT ![w] = 0]
    /\ \E spent \in 0..SendSeconds : wait' = WaitAfter(spent)
    /\ tried' = w
    /\ UNCHANGED <<arrived, sleeping>>

\* The delay counts from the end of the attempt.
Fail(w, status, after) ==
    /\ sleeping = 0
    /\ IsNext(w)
    /\ w \notin Hopeless => attempts[w] < MaxFlaky
    /\ attempts' = [attempts EXCEPT ![w] = AtMost(@ + 1, AttemptCap)]
    /\ \E spent \in 0..SendSeconds, unit \in JitterUnits :
           wait' = [WaitAfter(spent) EXCEPT ![w] =
               ParkSeconds(ClassifyStatus(status), attempts[w] + 1, after, unit)]
    /\ tried' = w
    /\ FallAsleep
    /\ UNCHANGED <<arrived, queue>>

NothingDue ==
    /\ sleeping = 0
    /\ Due = {}
    /\ FallAsleep
    /\ UNCHANGED <<arrived, queue, attempts, wait, tried>>

\* One second passes while the forwarder sleeps.
Second ==
    /\ sleeping > 0
    /\ sleeping' = sleeping - 1
    /\ wait' = WaitAfter(1)
    /\ tried' = 0
    /\ UNCHANGED <<arrived, queue, attempts>>

FailSome(w) ==
    \/ /\ w \in Hopeless
       /\ \E status \in HopelessStatuses, after \in HopelessAsks :
              Fail(w, status, after)
    \/ /\ w \notin Hopeless
       /\ \E status \in FlakyStatuses, after \in FlakyAsks :
              Fail(w, status, after)

Next ==
    \/ Receive
    \/ \E w \in Webhooks : Deliver(w) \/ FailSome(w)
    \/ NothingDue
    \/ Second

Spec == Init /\ [][Next]_vars

\* The forwarder task and its timers run; nobody has to send webhooks.
Forward ==
    \/ \E w \in Webhooks : Deliver(w) \/ FailSome(w)
    \/ NothingDue
    \/ Second

FairSpec == Spec /\ WF_vars(Forward)

-----------------------------------------------------------------------------
\* Types; in particular no delay is longer than max-seconds.
TypeOK ==
    /\ arrived \in 0..MaxWebhooks
    /\ queue \subseteq 1..arrived
    /\ attempts \in [Webhooks -> 0..AttemptCap]
    /\ wait \in [Webhooks -> 0..MaxSeconds]
    /\ sleeping \in 0..(Interval + SleepDrift)
    /\ tried \in 0..arrived

\* "A webhook the target keeps rejecting cannot hold up the ones queued behind
\* it" (backoff.rs): every webhook the target is willing to take leaves.  It
\* takes two premises, which the code does not check.  Between two attempts of
\* a refused webhook the forwarder must have time to sleep and to send for each
\* of the others, so max-seconds must be well above the interval; and the
\* target must not ask for less with a Retry-After on the refusal, since
\* next_delay grants that before it looks at the kind of the failure.
NoneHeldUp ==
    \A w \in Webhooks \ Hopeless : w \in queue ~> w \notin queue

\* "Retries never stop" (backoff.rs): a hopeless webhook is tried again and
\* again, so a target that is repaired still gets it.
RetriesNeverStop ==
    \A w \in Hopeless : w \in queue ~> tried = w
=============================================================================
