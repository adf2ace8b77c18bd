----------------------------- MODULE LockRetry ------------------------------
(***************************************************************************)
(* One statement of the SQLite adapter under retry_on_locked: wait for a   *)
(* pool connection, execute, and on a lock error sleep and try again, up   *)
(* to a number of attempts and a wall-clock budget.  Other connections and *)
(* processes hold the write lock as they please.  Time is counted in a     *)
(* unit small enough for the shortest backoff.                             *)
(***************************************************************************)
EXTENDS Integers

CONSTANTS
    MaxAttempts,        \* LockRetryPolicy.max_attempts
    InitialBackoff,     \* LockRetryPolicy.initial_backoff
    MaxBackoff,         \* LockRetryPolicy.max_backoff
    Budget,             \* LockRetryPolicy.budget
    AcquireTimeout,     \* SqliteTuning.acquire_timeout
    BusyTimeout,        \* SqliteTuning.busy_timeout
    TimerSlack,         \* bound: how late a sleep may wake
    WaitStep            \* bound: waits are multiples of this

ASSUME TuningAssumption ==
    /\ MaxAttempts \in Nat \ {0}
    /\ InitialBackoff \in Nat /\ MaxBackoff \in Nat
    /\ Budget \in Nat
    /\ AcquireTimeout \in Nat /\ BusyTimeout \in Nat
    /\ TimerSlack \in Nat /\ WaitStep \in Nat \ {0}

VARIABLES
    call,       \* where the call stands
    attempt,    \* attempt_number
    elapsed,    \* started.elapsed()
    error,      \* what the last attempt failed with
    commits     \* history: how often the statement was committed

callVars == <<call, attempt, elapsed, error, commits>>

(***************************************************************************)
(* Errors: extended SQLite result codes, and the pool's own error.         *)
(***************************************************************************)
NoError == 0
PoolTimedOut == -1
\* BUSY, LOCKED, BUSY_RECOVERY, LOCKED_SHAREDCACHE, BUSY_SNAPSHOT, BUSY_TIMEOUT:
\* SQLite has committed nothing.
Contended == {5, 6, 261, 262, 517, 773}
\* ERROR, FULL, CONSTRAINT, and IOERR_FSYNC, after which the statement may be
\* in the file or not.
Broken == {1, 13, 19, 1034}

\* Wrong on purpose: the extended codes are not reduced to the primary ones.
IsLockCode_Extended(code) == code \in {5, 6}

\* The primary code is the low byte.
IsLockCode(code) == code % 256 \in {5, 6}

\* Wrong on purpose: whatever fails is tried again.
IsRetryableLock_AnyCode(e) == e # PoolTimedOut

IsRetryableLock(e) == e # PoolTimedOut /\ IsLockCode(e)
IsLockContention(e) == IsRetryableLock(e) \/ e = PoolTimedOut

SlowestCall == Budget + TimerSlack + AcquireTimeout + BusyTimeout

Waits(limit) == {d \in 0..limit : d % WaitStep = 0}

\* Doubling from the initial backoff, capped, plus a jitter of up to a half.
BackoffAfter(n) ==
    LET doubled == InitialBackoff * 2^(n - 1)
        base == IF doubled <= MaxBackoff THEN doubled ELSE MaxBackoff
    IN  {b \in 0..(MaxBackoff + MaxBackoff) :
            base <= b /\ 2 * b <= 3 * base}

\* Wrong on purpose: only the attempts are counted.
WithinBudget_NoClock(backoff) == attempt < MaxAttempts

\* Another attempt may start after this backoff.
WithinBudget(backoff) == attempt < MaxAttempts /\ elapsed + backoff < Budget

-----------------------------------------------------------------------------
Begin ==
    /\ call = "idle"
    /\ call' = "acquire"
    /\ attempt' = 1
    /\ elapsed' = 0
    /\ error' = NoError
    /\ UNCHANGED commits

Acquired ==
    /\ call = "acquire"
    /\ call' = "execute"
    /\ \E d \in Waits(AcquireTimeout) : elapsed' = elapsed + d
    /\ UNCHANGED <<attempt, error, commits>>

\* Not worth retrying at this layer.
PoolExhausted ==
    /\ call = "acquire"
    /\ call' = "answer"
    /\ elapsed' = elapsed + AcquireTimeout
    /\ error' = PoolTimedOut
    /\ UNCHANGED <<attempt, commits>>

Committed ==
    /\ call = "execute"
    /\ call' = "answer"
    /\ \E d \in Waits(BusyTimeout) : elapsed' = elapsed + d
    /\ error' = NoError
    /\ commits' = commits + 1
    /\ UNCHANGED attempt

\* Some conditions bypass the busy handler: the error may come at once.
Locked ==
    /\ call = "execute"
    /\ call' = "failed"
    /\ \E d \in Waits(BusyTimeout) : elapsed' = elapsed + d
    /\ error' \in Contended
    /\ UNCHANGED <<attempt, commits>>

Breaks ==
    /\ call = "execute"
    /\ call' = "failed"
    /\ \E d \in Waits(BusyTimeout) : elapsed' = elapsed + d
    /\ error' \in Broken
    /\ commits' \in IF error' = 1034 THEN {commits, commits + 1} ELSE {commits}
    /\ UNCHANGED attempt

TryAgain ==
    /\ call = "failed"
    /\ IsRetryableLock(error)
    /\ \E b \in BackoffAfter(attempt), late \in 0..TimerSlack :
        /\ WithinBudget(b)
        /\ elapsed' = elapsed + b + late
    /\ call' = "acquire"
    /\ attempt' = attempt + 1
    /\ UNCHANGED <<error, commits>>

\* The error is handed back unchanged for the caller to classify.
GiveUp ==
    /\ call = "failed"
    /\ \/ ~IsRetryableLock(error)
       \/ \E b \in BackoffAfter(attempt) : ~WithinBudget(b)
    /\ call' = "answer"
    /\ UNCHANGED <<attempt, elapsed, error, commits>>

\* The caller has the result.
CallEnds ==
    /\ call = "answer"
    /\ call' = "idle"
    /\ UNCHANGED <<attempt, elapsed, error, commits>>

\* The caller is dropped at its await; a statement that SQLite is executing may
\* still be committed by the connection's thread.
CallDropped ==
    /\ call' = "idle"
    /\ commits' \in
           IF call = "execute" THEN {commits, commits + 1} ELSE {commits}
    /\ UNCHANGED <<attempt, elapsed, error>>

CallInit ==
    /\ call = "idle"
    /\ attempt = 1
    /\ elapsed = 0
    /\ error = NoError
    /\ commits = 0

CallStep ==
    \/ Acquired
    \/ PoolExhausted
    \/ Committed
    \/ Locked
    \/ Breaks
    \/ TryAgain
    \/ GiveUp

CallType ==
    /\ call \in {"idle", "acquire", "execute", "failed", "answer"}
    /\ attempt \in Nat
    /\ elapsed \in Nat
    /\ error \in Contended \cup Broken \cup {NoError, PoolTimedOut}
    /\ commits \in Nat

\* "The slowest possible call is roughly retry.budget + acquire_timeout +
\* busy_timeout" (init.rs): the budget only decides whether another attempt is
\* started, and that attempt may still wait for the pool and for the lock.
LatencyBound == elapsed <= SlowestCall
=============================================================================
