------------------------- MODULE MCForwardSchedule -------------------------
(***************************************************************************)
(* ForwardSchedule for TLC: a multiplier of 2.                             *)
(***************************************************************************)
EXTENDS ForwardSchedule

Doubling == [e \in 0..MaxExponent |-> 1000 * Interval * 2^e]
NoHeader == {NoRetryAfter}
NoHeaderOrLong == {NoRetryAfter, MaxSeconds + 2}
AnyHeader == {NoRetryAfter, 0, Interval, MaxSeconds + 2}
ShortHeader == {Interval}
=============================================================================
