------------------------------ MODULE Backoff ------------------------------
(***************************************************************************)
(* How long a failed webhook is parked (domain/webhook/backoff.rs): a pure *)
(* function of the attempt count, of what the target answered and of a     *)
(* random number.  Durations are whole milliseconds; what is stored is the *)
(* duration's whole seconds.  The floating-point power is the constant     *)
(* Growth: all that is assumed of it is what a multiplier of at least 1    *)
(* gives, a delay that starts at the interval and never shrinks.           *)
(***************************************************************************)
EXTENDS Integers

CONSTANTS
    Interval,       \* base: the channel's interval-seconds
    MaxSeconds,     \* max: ceiling of a single delay
    JitterPercent,  \* jitter, in hundredths
    MaxExponent,    \* the exponent is clamped to this (64 in the code)
    Growth          \* Growth[e]: Interval * multiplier^e in milliseconds

\* validate_forward_backoff lets a channel start with nothing else: the
\* multiplier is at least 1, the jitter at most 100%, the ceiling not below the
\* interval.
CheckBackoffValues ==
    /\ Interval \in Nat \ {0}
    /\ MaxSeconds \in Nat
    /\ MaxSeconds >= Interval
    /\ JitterPercent \in 0..100
    /\ MaxExponent \in Nat
    /\ Growth \in [0..MaxExponent -> Nat]
    /\ Growth[0] = 1000 * Interval
    /\ \A d, e \in 0..MaxExponent : d <= e => Growth[d] <= Growth[e]

ASSUME BackoffAssumption == CheckBackoffValues

Ceiling == 1000 * MaxSeconds
NoRetryAfter == -1
AtMost(ms, limit) == IF ms <= limit THEN ms ELSE limit

ClassifyStatus(status) ==
    IF status \in (400..499) \ {408, 429} THEN "rejected" ELSE "transient"

Exponent(attempts) ==
    IF attempts <= 1 THEN 0 ELSE AtMost(attempts - 1, MaxExponent)

DelayForAttempt(attempts) == AtMost(Growth[Exponent(attempts)], Ceiling)

\* unit is the random number, in hundredths.
ApplyJitter(ms, unit) ==
    AtMost((ms * (10000 + JitterPercent * (2 * unit - 100))) \div 10000, Ceiling)

\* Wrong on purpose: whatever the target asks for is granted.
NextDelay_TrustsRetryAfter(kind, attempts, retryAfter, unit) ==
    IF retryAfter # NoRetryAfter THEN 1000 * retryAfter
    ELSE IF kind = "rejected" THEN Ceiling
    ELSE ApplyJitter(DelayForAttempt(attempts), unit)

NextDelay(kind, attempts, retryAfter, unit) ==
    IF retryAfter # NoRetryAfter THEN AtMost(1000 * retryAfter, Ceiling)
    ELSE IF kind = "rejected" THEN Ceiling
    ELSE ApplyJitter(DelayForAttempt(attempts), unit)

\* next_attempt_at - now, in whole seconds.
ParkSeconds(kind, attempts, retryAfter, unit) ==
    NextDelay(kind, attempts, retryAfter, unit) \div 1000
=============================================================================
