------------------------ MODULE ForwardScheduleProofs -----------------------
(***************************************************************************)
(* The backoff for every interval, ceiling, jitter and multiplier that     *)
(* check_backoff_values admits, and the types of the schedule, for any     *)
(* number of webhooks and any answers.                                     *)
(***************************************************************************)
EXTENDS ForwardSchedule, TLAPS

\* AtMost is the smaller of two durations.
LEMMA AtMostBounds ==
    ASSUME NEW ms \in Nat, NEW limit \in Nat
    PROVE  AtMost(ms, limit) \in 0..limit /\ AtMost(ms, limit) <= ms
BY DEF AtMost

\* Nothing is parked for longer than the ceiling.
LEMMA CeilingBounds ==
    /\ Ceiling \in Nat
    /\ \A q \in Nat : AtMost(q, Ceiling) \in 0..Ceiling
BY BackoffAssumption DEF CheckBackoffValues, AtMost, Ceiling

\* The clamped exponent stays inside the growth table.
LEMMA ExponentInRange ==
    ASSUME NEW n \in Nat
    PROVE  Exponent(n) \in 0..MaxExponent
BY BackoffAssumption, AtMostBounds DEF CheckBackoffValues, Exponent, AtMost

\* A growing delay lies between the interval and max-seconds.
LEMMA DelayBounds ==
    ASSUME NEW n \in Nat
    PROVE  DelayForAttempt(n) \in (1000 * Interval)..Ceiling
<1> DEFINE g == Growth[Exponent(n)]
<1>1. Exponent(n) \in 0..MaxExponent
  BY ExponentInRange
<1>2. g \in Nat /\ 1000 * Interval <= g
  BY <1>1, BackoffAssumption DEF CheckBackoffValues
<1>3. 1000 * Interval <= Ceiling /\ Ceiling \in Nat
  BY BackoffAssumption DEF CheckBackoffValues, Ceiling
<1> QED BY <1>2, <1>3, BackoffAssumption DEF CheckBackoffValues, DelayForAttempt, AtMost

\* Jitter subtracts at most the whole delay, never more: no delay is negative.
LEMMA JitterBounds ==
    ASSUME NEW ms \in Nat, NEW unit \in 0..99
    PROVE  ApplyJitter(ms, unit) \in 0..Ceiling
<1> DEFINE scale == 10000 + JitterPercent * (2 * unit - 100)
<1>1. scale \in Nat
  <2>1. JitterPercent \in 0..100
    BY BackoffAssumption DEF CheckBackoffValues
  <2>2. 2 * unit - 100 \in -100..98
    OBVIOUS
  <2>3. \A a \in 0..100, b \in -100..98 : 10000 + a * b \in Nat
    OBVIOUS
  <2> QED BY <2>1, <2>2, <2>3
<1>2. ms * scale \in Nat
  BY <1>1
<1>3. (ms * scale) \div 10000 \in Nat
  BY <1>2
<1>4. PICK q \in Nat : q = (ms * scale) \div 10000
  BY <1>3
<1>5. ApplyJitter(ms, unit) = AtMost(q, Ceiling)
  BY <1>4 DEF ApplyJitter
<1> QED BY <1>5, CeilingBounds, Zenon

\* The delays grow with the attempts (delay_for_attempt): a webhook that fails
\* once more never waits less, before jitter.
THEOREM DelaysGrow ==
    ASSUME NEW a \in Nat, NEW b \in Nat, a <= b
    PROVE  DelayForAttempt(a) <= DelayForAttempt(b)
<1>1. Exponent(a) \in 0..MaxExponent /\ Exponent(b) \in 0..MaxExponent
  BY ExponentInRange
<1>2. Exponent(a) <= Exponent(b)
  BY BackoffAssumption DEF CheckBackoffValues, Exponent, AtMost
<1>3. Growth[Exponent(a)] <= Growth[Exponent(b)]
  BY <1>1, <1>2, BackoffAssumption DEF CheckBackoffValues
<1>4. Growth[Exponent(a)] \in Nat /\ Growth[Exponent(b)] \in Nat /\ Ceiling \in Nat
  BY <1>1, BackoffAssumption DEF CheckBackoffValues, Ceiling
<1> QED BY <1>3, <1>4 DEF DelayForAttempt, AtMost

\* Every delay (next_delay), also one the target asked for with Retry-After,
\* lies between zero and max-seconds.
THEOREM DelayCapped ==
    ASSUME NEW kind, NEW n \in Nat,
           NEW after \in Nat \cup {NoRetryAfter}, NEW unit \in 0..99
    PROVE  /\ NextDelay(kind, n, after, unit) \in 0..Ceiling
           /\ ParkSeconds(kind, n, after, unit) \in 0..MaxSeconds
<1> DEFINE d == NextDelay(kind, n, after, unit)
<1>1. Ceiling \in Nat /\ Ceiling = 1000 * MaxSeconds /\ MaxSeconds \in Nat
  BY BackoffAssumption DEF CheckBackoffValues, Ceiling
<1>2. DelayForAttempt(n) \in Nat
  <2>1. Interval \in Nat
    BY BackoffAssumption DEF CheckBackoffValues
  <2>2. \A x \in (1000 * Interval)..Ceiling : x \in Nat
    BY <1>1, <2>1
  <2> QED BY <2>2, DelayBounds
<1>3. ApplyJitter(DelayForAttempt(n), unit) \in 0..Ceiling
  BY <1>2, JitterBounds
<1>4. PICK asked : asked = 1000 * after
  OBVIOUS
<1>5. after # NoRetryAfter => AtMost(1000 * after, Ceiling) \in 0..Ceiling
  <2>1. after # NoRetryAfter => asked \in Nat
    BY <1>4 DEF NoRetryAfter
  <2>2. after # NoRetryAfter => AtMost(asked, Ceiling) \in 0..Ceiling
    BY <2>1, CeilingBounds
  <2> QED
    BY <1>4, <2>2
<1>6. d \in 0..Ceiling
  BY <1>1, <1>3, <1>5 DEF NextDelay
<1>7. \A x \in Nat, m \in Nat : x <= 1000 * m => x \div 1000 \in 0..m
  OBVIOUS
<1> QED BY <1>1, <1>6, <1>7 DEF ParkSeconds

\* What a Retry-After overrides (next_delay): a target that names a time waits
\* that time or the ceiling, whether it refused the payload or failed.  So a
\* refused webhook with a short Retry-After is as soon due as any other.
THEOREM RetryAfterOverrides ==
    ASSUME NEW kind, NEW n \in Nat, NEW after \in Nat, NEW u \in 0..99
    PROVE  NextDelay(kind, n, after, u) = AtMost(1000 * after, Ceiling)
BY DEF NextDelay, NoRetryAfter

\* A payload the target refuses without a Retry-After waits at least as long as
\* any failed webhook, with or without a Retry-After of its own (next_delay):
\* no failure comes back to the front later.
THEOREM RejectedWaitsLongest ==
    ASSUME NEW kind, NEW n \in Nat, NEW m \in Nat,
           NEW after \in Nat \cup {NoRetryAfter}, NEW u \in 0..99, NEW v \in 0..99
    PROVE  NextDelay(kind, n, after, u)
               <= NextDelay("rejected", m, NoRetryAfter, v)
<1>1. NextDelay(kind, n, after, u) \in 0..Ceiling
  BY DelayCapped
<1>2. NextDelay("rejected", m, NoRetryAfter, v) = Ceiling
  BY DEF NextDelay
<1> QED BY <1>1, <1>2, BackoffAssumption DEF CheckBackoffValues, Ceiling

-----------------------------------------------------------------------------
(* The schedule. *)

\* No webhook is ever parked for longer than max-seconds, no sleep is longer
\* than the interval and the drift, whatever the target answers.
THEOREM ScheduleTypes == Spec => []TypeOK
<1> USE ScheduleAssumption
<1>a. Interval \in Nat \ {0} /\ MaxSeconds \in Nat
  BY BackoffAssumption DEF CheckBackoffValues
<1>1. Init => TypeOK
  BY <1>a DEF Init, TypeOK, Webhooks
<1>2. TypeOK /\ [Next]_vars => TypeOK'
  <2> SUFFICES ASSUME TypeOK, [Next]_vars PROVE TypeOK'
    OBVIOUS
  <2>1. \A seconds \in Nat : WaitAfter(seconds) \in [Webhooks -> 0..MaxSeconds]
    BY <1>a DEF TypeOK, WaitAfter, Later
  <2>2. \A w \in queue : w \in Webhooks /\ w \in 0..arrived
    BY DEF TypeOK, Webhooks
  <2>3. ASSUME FallAsleep PROVE sleeping' \in 0..(Interval + SleepDrift)
    BY <1>a, <2>3 DEF FallAsleep
  <2>4. CASE Receive
    BY <2>4 DEF Receive, TypeOK, Webhooks
  <2>5. ASSUME NEW w \in Webhooks, Deliver(w) PROVE TypeOK'
    <3>1. wait' \in [Webhooks -> 0..MaxSeconds]
      BY <2>1, <2>5 DEF Deliver
    <3>2. w \in queue
      BY <2>5 DEF Deliver, IsNext, Due
    <3>3. queue' \subseteq 1..arrived' /\ tried' \in 0..arrived'
      BY <2>2, <2>5, <3>2 DEF Deliver, TypeOK
    <3>4. attempts' \in [Webhooks -> 0..AttemptCap]
      BY <2>5 DEF Deliver, TypeOK
    <3>5. UNCHANGED <<arrived, sleeping>>
      BY <2>5 DEF Deliver
    <3> QED BY <3>1, <3>3, <3>4, <3>5 DEF TypeOK
  <2>6. ASSUME NEW w \in Webhooks, FailSome(w) PROVE TypeOK'
    <3>1. PICK status \in HopelessStatuses \cup FlakyStatuses,
               after \in HopelessAsks \cup FlakyAsks : Fail(w, status, after)
      BY <2>6 DEF FailSome
    <3>2. attempts[w] + 1 \in Nat
      BY DEF TypeOK
    <3>3. \A unit \in JitterUnits :
             ParkSeconds(ClassifyStatus(status), attempts[w] + 1, after, unit)
                 \in 0..MaxSeconds
      BY <3>2, DelayCapped
    <3>4. wait' \in [Webhooks -> 0..MaxSeconds]
      BY <2>1, <3>1, <3>3 DEF Fail
    <3>5. attempts' \in [Webhooks -> 0..AttemptCap]
      BY <3>1 DEF Fail, TypeOK, AtMost
    <3>6. tried' \in 0..arrived
      BY <2>2, <3>1 DEF Fail, IsNext, Due
    <3> QED BY <2>3, <3>1, <3>4, <3>5, <3>6 DEF Fail, TypeOK
  <2>7. CASE NothingDue
    BY <2>3, <2>7 DEF NothingDue, TypeOK
  <2>8. CASE Second
    <3>1. wait' \in [Webhooks -> 0..MaxSeconds]
      BY <2>1, <2>8 DEF Second
    <3>2. sleeping' \in 0..(Interval + SleepDrift)
      BY <2>8, <1>a DEF Second, TypeOK
    <3>3. tried' = 0 /\ UNCHANGED <<arrived, queue, attempts>>
      BY <2>8 DEF Second
    <3>4. arrived \in Nat
      BY DEF TypeOK
    <3> QED BY <3>1, <3>2, <3>3, <3>4 DEF TypeOK
  <2>9. CASE UNCHANGED vars
    BY <2>9 DEF vars, TypeOK
  <2> QED BY <2>4, <2>5, <2>6, <2>7, <2>8, <2>9 DEF Next
<1> QED BY <1>1, <1>2, PTL DEF Spec
=============================================================================
