-------------------------- MODULE RedeliveryProofs --------------------------
(***************************************************************************)
(* Redelivery keeps its types, answers within the slowest call, stores an  *)
(* event once, and never lets contention cost the event.                   *)
(***************************************************************************)
EXTENDS Redelivery, TLAPS

\* A jittered backoff is a natural number, whatever the attempt.
LEMMA BackoffNatural ==
    ASSUME NEW n, NEW b \in BackoffAfter(n) PROVE b \in Nat
BY TuningAssumption DEF BackoffAfter

\* A wait is a natural number within its limit.
LEMMA WaitNatural ==
    ASSUME NEW limit \in Nat, NEW d \in Waits(limit)
    PROVE  d \in Nat /\ d <= limit
BY DEF Waits

\* Contention, in whatever extended form, is recognised by its low byte, and
\* no broken statement is taken for it.
LEMMA Classified ==
    /\ \A e \in Contended : IsLockContention(e) /\ e # NoError
    /\ \A e \in Broken : ~IsLockContention(e) /\ ~IsRetryableLock(e)
    /\ ~IsRetryableLock(NoError)
    /\ \A e : IsRetryableLock(e) => IsLockContention(e)
    /\ IsLockContention(PoolTimedOut)
<1>1. /\ 5 % 256 = 5 /\ 6 % 256 = 6 /\ 261 % 256 = 5 /\ 262 % 256 = 6
      /\ 517 % 256 = 5 /\ 773 % 256 = 5
  OBVIOUS
<1>2. /\ 1 % 256 = 1 /\ 13 % 256 = 13 /\ 19 % 256 = 19 /\ 1034 % 256 = 10
      /\ 0 % 256 = 0
  OBVIOUS
<1>3. \A e \in Contended : IsLockContention(e) /\ e # NoError
  BY <1>1 DEF Contended, IsLockContention, IsRetryableLock, IsLockCode,
              NoError, PoolTimedOut
<1>4. \A e \in Broken : ~IsLockContention(e) /\ ~IsRetryableLock(e)
  BY <1>2 DEF Broken, IsLockContention, IsRetryableLock, IsLockCode,
              PoolTimedOut
<1>5. ~IsRetryableLock(NoError)
  BY <1>2 DEF IsRetryableLock, IsLockCode, NoError
<1> QED
  BY <1>3, <1>4, <1>5 DEF IsLockContention

-----------------------------------------------------------------------------
\* The types are inductive as they stand: every wait is a natural number.
LEMMA TypeStep == TypeOK /\ [Next]_vars => TypeOK'
<1> SUFFICES ASSUME TypeOK, [Next]_vars PROVE TypeOK'
  OBVIOUS
<1> USE TuningAssumption, SenderAssumption
<1>1. CASE Deliver
  BY <1>1 DEF TypeOK, CallType, Deliver, Begin
<1>2. CASE Handle
  <2> USE DEF TypeOK, CallType, Handle, senderVars
  <2>1. CASE Acquired
    BY <1>2, <2>1, WaitNatural DEF Acquired
  <2>2. CASE PoolExhausted
    BY <1>2, <2>2 DEF PoolExhausted
  <2>3. CASE Committed
    BY <1>2, <2>3, WaitNatural DEF Committed
  <2>4. CASE Locked
    BY <1>2, <2>4, WaitNatural DEF Locked
  <2>5. CASE Breaks
    BY <1>2, <2>5, WaitNatural DEF Breaks
  <2>6. CASE TryAgain
    BY <1>2, <2>6, BackoffNatural DEF TryAgain
  <2>7. CASE GiveUp
    BY <1>2, <2>7 DEF GiveUp
  <2> QED
    BY <1>2, <2>1, <2>2, <2>3, <2>4, <2>5, <2>6, <2>7 DEF CallStep
<1>3. CASE Answer
  <2>1. sender' \in {"done", "ready", "dropped"}
    BY <1>3 DEF Answer, StatusOf
  <2> QED
    BY <1>3, <2>1 DEF TypeOK, CallType, Answer, CallEnds
<1>4. CASE SenderTimesOut
  BY <1>4 DEF TypeOK, CallType, SenderTimesOut, CallDropped
<1>5. CASE ConnectionLost
  BY <1>5 DEF TypeOK, CallType, ConnectionLost, CallDropped
<1>6. CASE UNCHANGED vars
  BY <1>6 DEF TypeOK, CallType, vars, callVars, senderVars
<1> QED
  BY <1>1, <1>2, <1>3, <1>4, <1>5, <1>6 DEF Next

\* Every variable of the sender, the route and the retry loop keeps its type.
THEOREM RedeliveryTypes == Spec => []TypeOK
<1>1. Init => TypeOK
  BY SenderAssumption
     DEF Init, CallInit, TypeOK, CallType, NoError
<1> QED
  BY <1>1, TypeStep, PTL DEF Spec

-----------------------------------------------------------------------------
(***************************************************************************)
(* Time.  The bound alone is not inductive: what a call may still need     *)
(* depends on how far its attempt has come.                                *)
(***************************************************************************)
TimeLeft ==
    /\ call = "acquire" => elapsed <= Budget + TimerSlack
    /\ call = "execute" => elapsed <= Budget + TimerSlack + AcquireTimeout
    /\ LatencyBound

LEMMA TimeStep == TypeOK /\ TimeLeft /\ [Next]_vars => TimeLeft'
<1> SUFFICES ASSUME TypeOK, TimeLeft, [Next]_vars PROVE TimeLeft'
  OBVIOUS
<1> USE TuningAssumption
<1> USE DEF TypeOK, CallType, TimeLeft, LatencyBound, SlowestCall
<1>1. CASE Deliver
  BY <1>1 DEF Deliver, Begin
<1>2. CASE Handle
  <2>1. CASE Acquired
    BY <2>1, WaitNatural DEF Acquired
  <2>2. CASE PoolExhausted
    BY <2>2 DEF PoolExhausted
  <2>3. CASE Committed
    BY <2>3, WaitNatural DEF Committed
  <2>4. CASE Locked
    BY <2>4, WaitNatural DEF Locked
  <2>5. CASE Breaks
    BY <2>5, WaitNatural DEF Breaks
  <2>6. CASE TryAgain
    <3>1. PICK b \in BackoffAfter(attempt), late \in 0..TimerSlack :
              /\ elapsed + b < Budget
              /\ elapsed' = elapsed + b + late
      BY <2>6 DEF TryAgain, WithinBudget
    <3>2. b \in Nat
      BY BackoffNatural
    <3> QED
      BY <2>6, <3>1, <3>2 DEF TryAgain
  <2>7. CASE GiveUp
    BY <2>7 DEF GiveUp
  <2> QED
    BY <1>2, <2>1, <2>2, <2>3, <2>4, <2>5, <2>6, <2>7 DEF Handle, CallStep
<1>3. CASE Answer
  BY <1>3 DEF Answer, CallEnds
<1>4. CASE SenderTimesOut
  BY <1>4 DEF SenderTimesOut, CallDropped
<1>5. CASE ConnectionLost
  BY <1>5 DEF ConnectionLost, CallDropped
<1>6. CASE UNCHANGED vars
  BY <1>6 DEF vars, callVars
<1> QED
  BY <1>1, <1>2, <1>3, <1>4, <1>5, <1>6 DEF Next

\* No call takes longer than its budget, one late timer, one wait for the pool
\* and one for the lock, whatever the attempts and the backoff are.
THEOREM CallsEndInTime == Spec => []LatencyBound
<1>1. Init => TypeOK /\ TimeLeft
  BY TuningAssumption, SenderAssumption
     DEF Init, CallInit, TypeOK, CallType, NoError, TimeLeft, LatencyBound,
         SlowestCall
<1>2. TypeOK /\ TimeLeft /\ [Next]_vars => (TypeOK /\ TimeLeft)'
  BY TypeStep, TimeStep
<1>3. TimeLeft => LatencyBound
  BY DEF TimeLeft
<1> QED
  BY <1>1, <1>2, <1>3, PTL DEF Spec

-----------------------------------------------------------------------------
(***************************************************************************)
(* One event, one row.  While the route may still try again or ask for     *)
(* redelivery, every commit so far belongs to a delivery that the sender   *)
(* could not see the end of.                                               *)
(***************************************************************************)
Unseen == lostAnswers + timeouts

NothingWritten == commits <= Unseen

CommitsSeen ==
    /\ sender = "ready" => NothingWritten
    /\ call \in {"acquire", "execute"} => NothingWritten
    /\ call \in {"failed", "answer"} /\ IsLockContention(error) => NothingWritten
    /\ call = "failed" => error # NoError
    /\ commits <= 1 + Unseen
    /\ call = "answer" /\ error = NoError => commits > 0
    /\ sender = "done" => commits > 0

PatientNeverTimesOut == Patient => timeouts = 0

GivenUp == Patient /\ sender = "dropped" => error \in Broken

LEMMA CommitsStep == TypeOK /\ CommitsSeen /\ [Next]_vars => CommitsSeen'
<1> SUFFICES ASSUME TypeOK, CommitsSeen, [Next]_vars PROVE CommitsSeen'
  OBVIOUS
<1> USE DEF TypeOK, CallType, CommitsSeen, NothingWritten, Unseen
<1>1. CASE Deliver
  BY <1>1 DEF Deliver, Begin
<1>2. CASE Handle
  <2> USE DEF Handle, senderVars
  <2>1. CASE Acquired
    BY <1>2, <2>1 DEF Acquired
  <2>2. CASE PoolExhausted
    BY <1>2, <2>2 DEF PoolExhausted, PoolTimedOut, NoError
  <2>3. CASE Committed
    BY <1>2, <2>3, Classified
       DEF Committed, IsLockContention, PoolTimedOut, NoError
  <2>4. CASE Locked
    BY <1>2, <2>4, Classified DEF Locked
  <2>5. CASE Breaks
    <3>1. ~IsLockContention(error') /\ error' # NoError
      BY <2>5, Classified DEF Breaks, Broken, NoError
    <3> QED
      BY <1>2, <2>5, <3>1 DEF Breaks
  <2>6. CASE TryAgain
    BY <1>2, <2>6, Classified DEF TryAgain
  <2>7. CASE GiveUp
    BY <1>2, <2>7 DEF GiveUp
  <2> QED
    BY <1>2, <2>1, <2>2, <2>3, <2>4, <2>5, <2>6, <2>7 DEF CallStep
<1>3. CASE Answer
  <2>1. /\ sender' = "ready" => IsLockContention(error)
        /\ sender' = "done" => error = NoError
    BY <1>3 DEF Answer, StatusOf
  <2> QED
    BY <1>3, <2>1 DEF Answer, CallEnds
<1>4. CASE SenderTimesOut
  BY <1>4 DEF SenderTimesOut, CallDropped
<1>5. CASE ConnectionLost
  BY <1>5 DEF ConnectionLost, CallDropped
<1>6. CASE UNCHANGED vars
  BY <1>6 DEF vars, callVars, senderVars
<1> QED
  BY <1>1, <1>2, <1>3, <1>4, <1>5, <1>6 DEF Next

\* A sender that outwaits the slowest call has its answer before its timeout.
LEMMA PatienceStep ==
    TypeOK /\ TimeLeft /\ PatientNeverTimesOut /\ [Next]_vars
        => PatientNeverTimesOut'
<1> SUFFICES ASSUME TypeOK, TimeLeft, PatientNeverTimesOut, [Next]_vars
             PROVE  PatientNeverTimesOut'
  OBVIOUS
<1> USE TuningAssumption, SenderAssumption
<1> USE DEF PatientNeverTimesOut, Patient
<1>1. CASE SenderTimesOut
  <2>1. ~(patience > SlowestCall)
    BY <1>1 DEF SenderTimesOut, TimeLeft, LatencyBound, TypeOK, CallType,
                SlowestCall
  <2> QED
    BY <1>1, <2>1 DEF SenderTimesOut, SlowestCall
<1>2. CASE Deliver \/ Handle \/ Answer \/ ConnectionLost \/ UNCHANGED vars
  BY <1>2 DEF Deliver, Handle, Answer, ConnectionLost, vars, senderVars,
              SlowestCall
<1> QED
  BY <1>1, <1>2 DEF Next

\* What a patient sender gives up was refused for a reason other than contention.
LEMMA GivenUpStep ==
    TypeOK /\ TimeLeft /\ CommitsSeen /\ GivenUp /\ [Next]_vars => GivenUp'
<1> SUFFICES ASSUME TypeOK, TimeLeft, CommitsSeen, GivenUp, [Next]_vars
             PROVE  GivenUp'
  OBVIOUS
<1> USE TuningAssumption, SenderAssumption
<1> USE DEF GivenUp, Patient
<1>1. CASE Answer
  <2>1. sender' = "dropped" => error # NoError /\ ~IsLockContention(error)
    BY <1>1 DEF Answer, StatusOf
  <2>2. error' = error
    BY <1>1 DEF Answer, CallEnds
  <2>3. sender' = "dropped" => error \in Broken
    BY <2>1, Classified DEF TypeOK, CallType
  <2> QED
    BY <2>2, <2>3
<1>2. CASE SenderTimesOut
  <2>1. ~(patience > SlowestCall)
    BY <1>2 DEF SenderTimesOut, TimeLeft, LatencyBound, TypeOK, CallType,
                SlowestCall
  <2> QED
    BY <1>2, <2>1 DEF SenderTimesOut, SlowestCall
<1>3. CASE Deliver \/ Handle \/ ConnectionLost
  BY <1>3 DEF Deliver, Handle, ConnectionLost, senderVars
<1>4. CASE UNCHANGED vars
  BY <1>4 DEF vars, senderVars, callVars, SlowestCall
<1> QED
  BY <1>1, <1>2, <1>3, <1>4 DEF Next

RedeliveryInv ==
    TypeOK /\ TimeLeft /\ CommitsSeen /\ PatientNeverTimesOut /\ GivenUp

\* The invariant of the sender, the route and the retry loop together.
LEMMA RedeliveryInvariant == Spec => []RedeliveryInv
<1>1. Init => RedeliveryInv
  <2> SUFFICES ASSUME Init PROVE RedeliveryInv
    OBVIOUS
  <2>1. TypeOK /\ TimeLeft
    BY TuningAssumption, SenderAssumption
       DEF Init, CallInit, TypeOK, CallType, NoError, TimeLeft, LatencyBound,
           SlowestCall
  <2>2. CommitsSeen /\ PatientNeverTimesOut /\ GivenUp
    BY DEF Init, CallInit, CommitsSeen, NothingWritten, Unseen,
           PatientNeverTimesOut, GivenUp
  <2> QED
    BY <2>1, <2>2 DEF RedeliveryInv
<1>2. RedeliveryInv /\ [Next]_vars => RedeliveryInv'
  BY TypeStep, TimeStep, CommitsStep, PatienceStep, GivenUpStep
     DEF RedeliveryInv
<1> QED
  BY <1>1, <1>2, PTL DEF Spec

\* Neither the retries of a statement nor the redeliveries after a 503 store an
\* event twice; a second row takes a lost connection or an impatient sender.
THEOREM EventStoredOnce == Spec => []StoredOnce
<1>1. RedeliveryInv => StoredOnce
  BY DEF RedeliveryInv, TypeOK, CallType, CommitsSeen, Unseen,
         PatientNeverTimesOut, StoredOnce
<1> QED
  BY <1>1, RedeliveryInvariant, PTL

\* Contention delays an event and never costs it, for a patient sender.
THEOREM ContentionNeverDrops == Spec => []ContentionOnlyDelays
<1>1. RedeliveryInv => ContentionOnlyDelays
  BY DEF RedeliveryInv, GivenUp, ContentionOnlyDelays
<1> QED
  BY <1>1, RedeliveryInvariant, PTL
=============================================================================
