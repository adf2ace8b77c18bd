---------------------------- MODULE WebhookQueue ----------------------------
(***************************************************************************)
(* The life of a webhook inside one kwp process: the webhooks table, the   *)
(* background forwarder of every channel that forwards, and the HTTP       *)
(* handlers that read and write the same table while the forwarder works.  *)
(*                                                                         *)
(* Every database statement is one step (SQLite runs it atomically); every *)
(* await between two statements, or between a statement and the request to *)
(* the target, is a place where the other actors may move, the client may  *)
(* hang up and the process may die.  Time is abstracted to two facts: a    *)
(* row is "parked" while its next_attempt_at lies in the future, and       *)
(* received_at is a clock of whole seconds that orders the rows.           *)
(***************************************************************************)
EXTENDS Naturals, FiniteSets

CONSTANTS
    Channels,           \* channels of config.yml
    ForwardChannels,    \* those with a forward section: one forwarder each
    Senders,            \* concurrent POSTs of webhooks
    Pollers,            \* concurrent GETs that read and delete
    Retriers,           \* concurrent manual retries from the Web UI
    ReadLimit,          \* read_limit of the service (1000 in the code)
    StuckThreshold,     \* STUCK_ATTEMPTS_THRESHOLD (10 in the code)
    MaxWebhooks,        \* bound: rows ever inserted
    MaxClock,           \* bound: the clock stops here, later stamps tie
    MaxFailures,        \* bound: failed attempts of one webhook
    MaxStorageFaults,   \* bound: statements of the delivery path that fail
    MaxRetries,         \* bound: manual retries ever begun
    MaxCrashes          \* bound: crashes or restarts of the process

ASSUME ChannelAssumption ==
    /\ ForwardChannels \subseteq Channels
    /\ ForwardChannels \cap Retriers = {}
ASSUME FiniteAssumption ==
    IsFiniteSet(ForwardChannels) /\ IsFiniteSet(Retriers)
ASSUME BoundAssumption ==
    /\ ReadLimit \in Nat \ {0}
    /\ StuckThreshold \in Nat \ {0}
    /\ MaxWebhooks \in Nat
    /\ MaxClock \in Nat
    /\ MaxFailures \in Nat
    /\ MaxStorageFaults \in Nat
    /\ MaxRetries \in Nat
    /\ MaxCrashes \in Nat

VARIABLES
    webhooks,       \* the table: a function from the ids present to rows
    nextId,         \* AUTOINCREMENT: an id is never given out twice
    clock,          \* the wall clock that stamps received_at
    receiving,      \* the webhook a sender's handler is about to insert
    answer,         \* rows a poll has deleted and not yet returned
    paused,         \* ChannelForwardStatus.paused, in memory
    pc,             \* where each forwarder and each manual retry stands
    held,           \* id of the webhook the agent read, 0 for none
    seen,           \* forward_attempts in the copy the agent read
    storageFaults,  \* statements of the delivery path that failed so far
    retries,        \* manual retries begun so far
    crashes         \* crashes so far

(***************************************************************************)
(* History: what outsiders observed.  No guard reads these, except that    *)
(* failures bounds how often a target refuses.                             *)
(***************************************************************************)
VARIABLES
    accepted,       \* times the target accepted each webhook
    failures,       \* attempts that ended in a failure, per webhook
    unrecorded,     \* failures that never reached forward_attempts
    mishaps,        \* events after which a second delivery is to be expected
    reports,        \* "still not delivered" error records, per webhook
    silenced,       \* webhooks whose report a crash cut off
    released,       \* ids some poll deleted
    lost,           \* ids of polls whose response never reached the client
    discarded,      \* ids removed by Delete or Clear
    sincePause      \* attempts begun since the channel was paused

storeVars == <<webhooks, nextId>>
receiveVars == <<clock, receiving>>
agentVars == <<pc, held, seen>>
faultVars == <<storageFaults, retries, crashes>>
deliveryHistory == <<accepted, failures, unrecorded, mishaps, reports, silenced>>
exitHistory == <<released, lost, discarded>>
pauseVars == <<paused, sincePause>>
vars == <<storeVars, receiveVars, answer, pauseVars, agentVars, faultVars,
          deliveryHistory, exitHistory>>

Ids == 1..MaxWebhooks
StartOf(a) == IF a \in ForwardChannels THEN "check" ELSE "idle"
Agents == ForwardChannels \cup Retriers
Attempting == {"send", "delete", "record", "report"}
Places == {"check", "peek", "sleep", "idle"} \cup Attempting
Row == [channel : Channels, received_at : 0..MaxClock,
        forward_attempts : Nat, parked : BOOLEAN]

-----------------------------------------------------------------------------
(* The table. *)

Stored == DOMAIN webhooks
RowsOf(c) == {id \in Stored : webhooks[id].channel = c}
Due(c) == {id \in RowsOf(c) : ~webhooks[id].parked}
\* Wrong on purpose: the rows are read and left in the table.
Without_KeepsRows(ids) == webhooks

Without(ids) == [id \in Stored \ ids |-> webhooks[id]]

\* SELECT ... ORDER BY received_at LIMIT n: rows that tie come in any order.
OldestOf(ids, n) ==
    {S \in SUBSET ids :
        /\ Cardinality(S) = IF Cardinality(ids) < n THEN Cardinality(ids) ELSE n
        /\ \A i \in S, j \in ids \ S :
               webhooks[i].received_at <= webhooks[j].received_at}

\* The row with other delivery columns.
WithDelivery(row, attempts, parked) ==
    [channel |-> row.channel, received_at |-> row.received_at,
     forward_attempts |-> attempts, parked |-> parked]

StorageFault ==
    /\ storageFaults < MaxStorageFaults
    /\ storageFaults' = storageFaults + 1

\* An agent has a webhook's copy and may still get the target to accept it,
\* or has had it accepted and has not removed the row yet.
Delivering(a, id) == held[a] = id /\ pc[a] \in {"send", "delete"}

Add(h, id) == [h EXCEPT ![id] = @ + 1]

-----------------------------------------------------------------------------
(* Receiving: the stamp is taken before the insert waits for the lock. *)

ClockTick ==
    /\ clock < MaxClock
    /\ clock' = clock + 1
    /\ UNCHANGED <<storeVars, receiving, answer, pauseVars, agentVars,
                   faultVars, deliveryHistory, exitHistory>>

ReceiveBegin(s, c) ==
    /\ receiving[s] = {}
    /\ nextId <= MaxWebhooks
    /\ receiving' = [receiving EXCEPT ![s] = {[channel |-> c, received_at |-> clock]}]
    /\ UNCHANGED <<storeVars, clock, answer, pauseVars, agentVars, faultVars,
                   deliveryHistory, exitHistory>>

Insert(s) ==
    /\ nextId <= MaxWebhooks
    /\ \E w \in receiving[s] :
           webhooks' = [id \in Stored \cup {nextId} |->
               IF id = nextId
               THEN [channel |-> w.channel, received_at |-> w.received_at,
                     forward_attempts |-> 0, parked |-> FALSE]
               ELSE webhooks[id]]
    /\ nextId' = nextId + 1
    /\ receiving' = [receiving EXCEPT ![s] = {}]
    /\ UNCHANGED <<clock, answer, pauseVars, agentVars, faultVars,
                   deliveryHistory, exitHistory>>

\* Busy, a storage error, or the sender hung up before the insert: no row.
ReceiveFails(s) ==
    /\ receiving[s] # {}
    /\ receiving' = [receiving EXCEPT ![s] = {}]
    /\ UNCHANGED <<storeVars, clock, answer, pauseVars, agentVars, faultVars,
                   deliveryHistory, exitHistory>>

-----------------------------------------------------------------------------
(* Polling: one DELETE ... RETURNING, then the response. *)

PollTakes(p, c) ==
    /\ answer[p] = {}
    /\ \E S \in OldestOf(RowsOf(c), ReadLimit) :
        /\ S # {}
        /\ webhooks' = Without(S)
        /\ answer' = [answer EXCEPT ![p] =
               {[id |-> i, received_at |-> webhooks[i].received_at] : i \in S}]
        /\ released' = released \cup S
    /\ UNCHANGED <<nextId, receiveVars, pauseVars, agentVars, faultVars,
                   deliveryHistory, lost, discarded>>

AnswerIds(p) == {w.id : w \in answer[p]}

PollAnswered(p) ==
    /\ answer[p] # {}
    /\ answer' = [answer EXCEPT ![p] = {}]
    /\ UNCHANGED <<storeVars, receiveVars, pauseVars, agentVars, faultVars,
                   deliveryHistory, exitHistory>>

\* The client went away while the response was being written.
PollUnanswered(p) ==
    /\ answer[p] # {}
    /\ answer' = [answer EXCEPT ![p] = {}]
    /\ lost' = lost \cup AnswerIds(p)
    /\ UNCHANGED <<storeVars, receiveVars, pauseVars, agentVars, faultVars,
                   deliveryHistory, released, discarded>>

-----------------------------------------------------------------------------
(* What an operator does from the Web UI, besides the manual retry. *)

\* Wrong on purpose: without AUTOINCREMENT the id after the largest one in the
\* table is given out next, though somebody still works with that webhook.
Delete_FreesId(id) ==
    /\ id \in Stored
    /\ webhooks' = Without({id})
    /\ nextId' = IF Stored = {id} THEN 1
                 ELSE 1 + CHOOSE i \in Stored \ {id} : \A j \in Stored \ {id} : j <= i
    /\ discarded' = discarded \cup {id}
    /\ UNCHANGED <<receiveVars, answer, pauseVars, agentVars, faultVars,
                   deliveryHistory, released, lost>>

Delete(id) ==
    /\ id \in Stored
    /\ webhooks' = Without({id})
    /\ discarded' = discarded \cup {id}
    /\ UNCHANGED <<nextId, receiveVars, answer, pauseVars, agentVars,
                   faultVars, deliveryHistory, released, lost>>

Clear(c) ==
    /\ RowsOf(c) # {}
    /\ webhooks' = Without(RowsOf(c))
    /\ discarded' = discarded \cup RowsOf(c)
    /\ UNCHANGED <<nextId, receiveVars, answer, pauseVars, agentVars,
                   faultVars, deliveryHistory, released, lost>>

Pause(c) ==
    /\ ~paused[c]
    /\ paused' = [paused EXCEPT ![c] = TRUE]
    /\ sincePause' = [sincePause EXCEPT ![c] = 0]
    /\ UNCHANGED <<storeVars, receiveVars, answer, agentVars, faultVars,
                   deliveryHistory, exitHistory>>

Resume(c) ==
    /\ paused[c]
    /\ paused' = [paused EXCEPT ![c] = FALSE]
    /\ sincePause' = [sincePause EXCEPT ![c] = 0]
    /\ UNCHANGED <<storeVars, receiveVars, answer, agentVars, faultVars,
                   deliveryHistory, exitHistory>>

-----------------------------------------------------------------------------
(* The forwarder's loop up to the attempt. *)

MoveTo(a, where) == pc' = [pc EXCEPT ![a] = where]

\* Progress::Idle for a forwarder, the end of the handler for a manual retry.
\* A forwarder's held keeps the id until it has slept: the properties ask
\* which webhook it tried last, the code no longer has it.
EndAttempt(a) ==
    /\ MoveTo(a, IF a \in ForwardChannels THEN "sleep" ELSE "idle")
    /\ held' = [held EXCEPT ![a] = IF a \in ForwardChannels THEN @ ELSE 0]
    /\ seen' = [seen EXCEPT ![a] = 0]

CheckPause(c) ==
    /\ pc[c] = "check"
    /\ MoveTo(c, IF paused[c] THEN "sleep" ELSE "peek")
    /\ UNCHANGED <<storeVars, receiveVars, answer, pauseVars, held, seen,
                   faultVars, deliveryHistory, exitHistory>>

\* The agent takes its copy of row id and builds the request from it.  The
\* channels here are ones whose request can be built: Service tells what the
\* startup checks leave over, templates that do not render.  If somebody else is
\* delivering the webhook already, the target is bound to see it twice.
TakeCopy(a, id) ==
    /\ MoveTo(a, "send")
    /\ held' = [held EXCEPT ![a] = id]
    /\ seen' = [seen EXCEPT ![a] = webhooks[id].forward_attempts]
    /\ mishaps' = IF \E b \in Agents : Delivering(b, id)
                  THEN Add(mishaps, id) ELSE mishaps

PeekDue(c) ==
    /\ pc[c] = "peek"
    /\ \E id \in Due(c) :
        /\ {id} \in OldestOf(Due(c), 1)
        /\ TakeCopy(c, id)
    /\ sincePause' = IF paused[c] THEN Add(sincePause, c) ELSE sincePause
    /\ UNCHANGED <<storeVars, receiveVars, answer, paused, faultVars,
                   accepted, failures, unrecorded, reports, silenced,
                   exitHistory>>

PeekNothing(c) ==
    /\ pc[c] = "peek"
    /\ Due(c) = {}
    /\ EndAttempt(c)
    /\ UNCHANGED <<storeVars, receiveVars, answer, pauseVars, faultVars,
                   deliveryHistory, exitHistory>>

\* Wrong on purpose: the forwarder task ends on a storage error.
PeekFails_EndsTask(c) ==
    /\ pc[c] = "peek"
    /\ StorageFault
    /\ MoveTo(c, "idle")
    /\ UNCHANGED <<storeVars, receiveVars, answer, pauseVars, held, seen,
                   retries, crashes, deliveryHistory, exitHistory>>

PeekFails(c) ==
    /\ pc[c] = "peek"
    /\ StorageFault
    /\ EndAttempt(c)
    /\ UNCHANGED <<storeVars, receiveVars, answer, pauseVars, retries,
                   crashes, deliveryHistory, exitHistory>>

\* The interval is over.
Wake(c) ==
    /\ pc[c] = "sleep"
    /\ MoveTo(c, "check")
    /\ held' = [held EXCEPT ![c] = 0]
    /\ UNCHANGED <<storeVars, receiveVars, answer, pauseVars, seen, faultVars,
                   deliveryHistory, exitHistory>>

\* Time passes next_attempt_at.
DelayElapses(id) ==
    /\ id \in Stored
    /\ webhooks[id].parked
    /\ webhooks' = [webhooks EXCEPT ![id] = WithDelivery(@, @.forward_attempts, FALSE)]
    /\ UNCHANGED <<nextId, receiveVars, answer, pauseVars, agentVars,
                   faultVars, deliveryHistory, exitHistory>>

-----------------------------------------------------------------------------
(* The manual retry: load, check the channel, send.  Neither the pause flag *)
(* nor next_attempt_at is consulted.                                       *)

RetryLoad(o, c, id) ==
    /\ pc[o] = "idle"
    /\ id \in RowsOf(c)
    /\ retries < MaxRetries
    /\ retries' = retries + 1
    /\ TakeCopy(o, id)
    /\ UNCHANGED <<storeVars, receiveVars, answer, pauseVars, storageFaults,
                   crashes, accepted, failures, unrecorded, reports, silenced,
                   exitHistory>>

\* The browser hung up, so the server drops the handler at its await.
RetryAbandoned(o) ==
    /\ pc[o] \in Attempting
    /\ mishaps' = IF pc[o] = "delete" THEN Add(mishaps, held[o]) ELSE mishaps
    /\ unrecorded' = IF pc[o] = "record" THEN Add(unrecorded, held[o])
                     ELSE unrecorded
    /\ EndAttempt(o)
    /\ UNCHANGED <<storeVars, receiveVars, answer, pauseVars, faultVars,
                   accepted, failures, reports, silenced, exitHistory>>

-----------------------------------------------------------------------------
(* One attempt, by the forwarder or by a manual retry. *)

\* The expected status came back.
TargetAccepts(a) ==
    /\ pc[a] = "send"
    /\ MoveTo(a, "delete")
    /\ accepted' = Add(accepted, held[a])
    /\ UNCHANGED <<storeVars, receiveVars, answer, pauseVars, held, seen,
                   faultVars, failures, unrecorded, mishaps, reports, silenced,
                   exitHistory>>

\* The target took the webhook, but the answer was lost or came too late.
AnswerLost(a) ==
    /\ pc[a] = "send"
    /\ failures[held[a]] < MaxFailures
    /\ MoveTo(a, "record")
    /\ accepted' = Add(accepted, held[a])
    /\ failures' = Add(failures, held[a])
    /\ mishaps' = Add(mishaps, held[a])
    /\ UNCHANGED <<storeVars, receiveVars, answer, pauseVars, held, seen,
                   faultVars, unrecorded, reports, silenced, exitHistory>>

\* Any other status, or no connection at all.
TargetRefuses(a) ==
    /\ pc[a] = "send"
    /\ failures[held[a]] < MaxFailures
    /\ MoveTo(a, "record")
    /\ failures' = Add(failures, held[a])
    /\ UNCHANGED <<storeVars, receiveVars, answer, pauseVars, held, seen,
                   faultVars, accepted, unrecorded, mishaps, reports, silenced,
                   exitHistory>>

\* Wrong on purpose: a delivered webhook stays queued.
RemoveDelivered_KeepsRow(a) ==
    /\ pc[a] = "delete"
    /\ EndAttempt(a)
    /\ UNCHANGED <<storeVars, receiveVars, answer, pauseVars, faultVars,
                   deliveryHistory, exitHistory>>

\* Wrong on purpose: draining goes on without looking at the pause flag.
RemoveDelivered_SkipsPause(a) ==
    /\ pc[a] = "delete"
    /\ webhooks' = Without({held[a]})
    /\ MoveTo(a, IF a \in ForwardChannels THEN "peek" ELSE "idle")
    /\ held' = [held EXCEPT ![a] = IF a \in ForwardChannels THEN @ ELSE 0]
    /\ seen' = [seen EXCEPT ![a] = 0]
    /\ UNCHANGED <<nextId, receiveVars, answer, pauseVars, faultVars,
                   deliveryHistory, exitHistory>>

\* DELETE FROM webhooks WHERE id = ?, which may find the row gone already.
\* A forwarder drains: it goes on at once and does not sleep.
RemoveDelivered(a) ==
    /\ pc[a] = "delete"
    /\ webhooks' = Without({held[a]})
    /\ MoveTo(a, StartOf(a))
    /\ held' = [held EXCEPT ![a] = IF a \in ForwardChannels THEN @ ELSE 0]
    /\ seen' = [seen EXCEPT ![a] = 0]
    /\ UNCHANGED <<nextId, receiveVars, answer, pauseVars, faultVars,
                   deliveryHistory, exitHistory>>

\* Wrong on purpose: the queue is drained on although the row is still there.
RemoveFails_Drains(a) ==
    /\ pc[a] = "delete"
    /\ StorageFault
    /\ mishaps' = Add(mishaps, held[a])
    /\ MoveTo(a, StartOf(a))
    /\ UNCHANGED <<storeVars, receiveVars, answer, pauseVars, held, seen, retries,
                   crashes, accepted, failures, unrecorded, reports, silenced,
                   exitHistory>>

RemoveFails(a) ==
    /\ pc[a] = "delete"
    /\ StorageFault
    /\ mishaps' = Add(mishaps, held[a])
    /\ EndAttempt(a)
    /\ UNCHANGED <<storeVars, receiveVars, answer, pauseVars, retries,
                   crashes, accepted, failures, unrecorded, reports, silenced,
                   exitHistory>>

\* Wrong on purpose: every retry past the threshold is reported.
CrossedStuckThreshold_EachRetry(attemptsBefore) ==
    attemptsBefore + 1 >= StuckThreshold

\* Wrong on purpose: the count before the failure is compared.
CrossedStuckThreshold_OffByOne(attemptsBefore) ==
    attemptsBefore = StuckThreshold

CrossedStuckThreshold(attemptsBefore) == attemptsBefore + 1 = StuckThreshold

\* The statement is awaited.  A forwarder has yet to report; a manual retry is
\* done, it never reports.
LeaveRecord(a) ==
    IF a \in ForwardChannels
    THEN MoveTo(a, "report") /\ UNCHANGED <<held, seen>>
    ELSE EndAttempt(a)

\* Wrong on purpose: the counter is written from the copy that was read.
RecordFailure_FromCopy(a) ==
    /\ pc[a] = "record"
    /\ webhooks' =
        [id \in Stored |->
            IF id = held[a]
            THEN WithDelivery(webhooks[id], seen[a] + 1, TRUE)
            ELSE webhooks[id]]
    /\ LeaveRecord(a)
    /\ UNCHANGED <<nextId, receiveVars, answer, pauseVars, faultVars,
                   accepted, failures, unrecorded, mishaps, reports, silenced,
                   exitHistory>>

\* Wrong on purpose: a webhook that failed is given up.
RecordFailure_Drops(a) ==
    /\ pc[a] = "record"
    /\ webhooks' = Without({held[a]})
    /\ LeaveRecord(a)
    /\ UNCHANGED <<nextId, receiveVars, answer, pauseVars, faultVars,
                   accepted, failures, unrecorded, mishaps, reports, silenced,
                   exitHistory>>

\* Wrong on purpose: a row that is gone is written again.
RecordFailure_Upserts(a) ==
    /\ pc[a] = "record"
    /\ webhooks' =
        [id \in Stored \cup {held[a]} |->
            IF id = held[a]
            THEN [channel |-> CHOOSE c \in ForwardChannels : TRUE,
                  received_at |-> 0, forward_attempts |-> seen[a] + 1,
                  parked |-> TRUE]
            ELSE webhooks[id]]
    /\ LeaveRecord(a)
    /\ UNCHANGED <<nextId, receiveVars, answer, pauseVars, faultVars,
                   accepted, failures, unrecorded, mishaps, reports, silenced,
                   exitHistory>>

RecordFailure(a) ==
    /\ pc[a] = "record"
    /\ webhooks' =
        [id \in Stored |->
            IF id = held[a]
            THEN WithDelivery(webhooks[id], webhooks[id].forward_attempts + 1, TRUE)
            ELSE webhooks[id]]
    /\ LeaveRecord(a)
    /\ UNCHANGED <<nextId, receiveVars, answer, pauseVars, faultVars,
                   accepted, failures, unrecorded, mishaps, reports, silenced,
                   exitHistory>>

RecordFails(a) ==
    /\ pc[a] = "record"
    /\ StorageFault
    /\ unrecorded' = Add(unrecorded, held[a])
    /\ LeaveRecord(a)
    /\ UNCHANGED <<storeVars, receiveVars, answer, pauseVars, retries,
                   crashes, accepted, failures, mishaps, reports, silenced,
                   exitHistory>>

\* Its copy tells forwarder c that this failure of webhook id crosses the
\* threshold, whatever the row says by now.
AboutToReport(c, id) ==
    pc[c] = "report" /\ held[c] = id /\ CrossedStuckThreshold(seen[c])

\* The error record, the status, and the return to the loop: no await between.
Report(c) ==
    /\ pc[c] = "report"
    /\ reports' = IF AboutToReport(c, held[c]) THEN Add(reports, held[c]) ELSE reports
    /\ EndAttempt(c)
    /\ UNCHANGED <<storeVars, receiveVars, answer, pauseVars, faultVars,
                   accepted, failures, unrecorded, mishaps, silenced, exitHistory>>

-----------------------------------------------------------------------------
(* The process dies or is restarted: memory is lost, the table survives. *)

AgentsAt(where, id) == {a \in Agents : pc[a] = where /\ held[a] = id}

Crash ==
    /\ crashes < MaxCrashes
    /\ crashes' = crashes + 1
    /\ pc' = [a \in Agents |-> StartOf(a)]
    /\ held' = [a \in Agents |-> 0]
    /\ seen' = [a \in Agents |-> 0]
    /\ paused' = [c \in ForwardChannels |-> FALSE]
    /\ sincePause' = [c \in ForwardChannels |-> 0]
    /\ receiving' = [s \in Senders |-> {}]
    /\ answer' = [p \in Pollers |-> {}]
    /\ lost' = lost \cup UNION {AnswerIds(p) : p \in Pollers}
    /\ mishaps' = [id \in Ids |->
                      mishaps[id] + Cardinality(AgentsAt("delete", id))]
    /\ unrecorded' = [id \in Ids |->
                      unrecorded[id] + Cardinality(AgentsAt("record", id))]
    /\ silenced' = silenced \cup
                      {id \in Ids : \E c \in ForwardChannels : AboutToReport(c, id)}
    /\ UNCHANGED <<storeVars, clock, storageFaults, retries, accepted, failures,
                   reports, released, discarded>>

-----------------------------------------------------------------------------
Init ==
    /\ webhooks = [id \in {} |-> {}]
    /\ nextId = 1
    /\ clock = 0
    /\ receiving = [s \in Senders |-> {}]
    /\ answer = [p \in Pollers |-> {}]
    /\ paused = [c \in ForwardChannels |-> FALSE]
    /\ sincePause = [c \in ForwardChannels |-> 0]
    /\ pc = [a \in Agents |-> StartOf(a)]
    /\ held = [a \in Agents |-> 0]
    /\ seen = [a \in Agents |-> 0]
    /\ storageFaults = 0
    /\ retries = 0
    /\ crashes = 0
    /\ accepted = [id \in Ids |-> 0]
    /\ failures = [id \in Ids |-> 0]
    /\ unrecorded = [id \in Ids |-> 0]
    /\ mishaps = [id \in Ids |-> 0]
    /\ reports = [id \in Ids |-> 0]
    /\ silenced = {}
    /\ released = {}
    /\ lost = {}
    /\ discarded = {}

Attempt(a) ==
    \/ TargetAccepts(a)
    \/ AnswerLost(a)
    \/ TargetRefuses(a)
    \/ RemoveDelivered(a)
    \/ RemoveFails(a)
    \/ RecordFailure(a)
    \/ RecordFails(a)

Forwarder(c) ==
    \/ CheckPause(c)
    \/ PeekDue(c)
    \/ PeekNothing(c)
    \/ PeekFails(c)
    \/ Attempt(c)
    \/ Report(c)
    \/ Wake(c)

Retrier(o) ==
    \/ \E c \in ForwardChannels, id \in Ids : RetryLoad(o, c, id)
    \/ RetryAbandoned(o)
    \/ Attempt(o)

Receiver(s) ==
    \/ \E c \in Channels : ReceiveBegin(s, c)
    \/ Insert(s)
    \/ ReceiveFails(s)

Poller(p) ==
    \/ \E c \in Channels : PollTakes(p, c)
    \/ PollAnswered(p)
    \/ PollUnanswered(p)

Operator ==
    \/ \E id \in Ids : Delete(id)
    \/ \E c \in ForwardChannels : Pause(c) \/ Resume(c)
    \/ \E c \in Channels : Clear(c)

Next ==
    \/ ClockTick
    \/ \E s \in Senders : Receiver(s)
    \/ \E p \in Pollers : Poller(p)
    \/ Operator
    \/ \E c \in ForwardChannels : Forwarder(c)
    \/ \E o \in Retriers : Retrier(o)
    \/ \E id \in Ids : DelayElapses(id)
    \/ Crash

Spec == Init /\ [][Next]_vars

\* tokio keeps polling a forwarder task that can run, its timers fire and the
\* request timeout ends every send; the wall clock passes next_attempt_at.
\* Senders, pollers and operators promise nothing.
Fairness ==
    /\ \A c \in ForwardChannels : WF_vars(Forwarder(c))
    /\ \A id \in Ids : WF_vars(DelayElapses(id))

FairSpec == Spec /\ Fairness

-----------------------------------------------------------------------------
(* Properties. *)

TableType ==
    /\ nextId \in 1..(MaxWebhooks + 1)
    /\ Stored \subseteq 1..(nextId - 1)
    /\ webhooks \in [Stored -> Row]

RequestType ==
    /\ clock \in 0..MaxClock
    /\ receiving \in [Senders ->
           SUBSET [channel : Channels, received_at : 0..MaxClock]]
    /\ answer \in [Pollers ->
           SUBSET [id : 1..(nextId - 1), received_at : 0..MaxClock]]

PauseType ==
    /\ paused \in [ForwardChannels -> BOOLEAN]
    /\ sincePause \in [ForwardChannels -> Nat]

\* A forwarder is never "idle", a manual retry never sleeps, peeks or reports, and an
\* agent in the middle of an attempt has a webhook.
AgentType ==
    /\ pc \in [Agents -> Places]
    /\ \A c \in ForwardChannels : pc[c] # "idle"
    /\ \A o \in Retriers : pc[o] \notin {"check", "peek", "sleep", "report"}
    /\ held \in [Agents -> 0..(nextId - 1)]
    /\ \A a \in Agents : pc[a] \in Attempting => held[a] # 0
    /\ seen \in [Agents -> Nat]

FaultType ==
    /\ storageFaults \in 0..MaxStorageFaults
    /\ retries \in 0..MaxRetries
    /\ crashes \in 0..MaxCrashes

DeliveryType ==
    /\ accepted \in [Ids -> Nat]
    /\ failures \in [Ids -> Nat]
    /\ unrecorded \in [Ids -> Nat]
    /\ mishaps \in [Ids -> Nat]
    /\ reports \in [Ids -> Nat]
    /\ silenced \subseteq Ids

ExitType ==
    /\ released \subseteq 1..(nextId - 1)
    /\ lost \subseteq 1..(nextId - 1)
    /\ discarded \subseteq 1..(nextId - 1)

\* Every variable has its type; rows, copies and responses only name ids that
\* were given out (AUTOINCREMENT).
TypeOK ==
    /\ TableType
    /\ RequestType
    /\ PauseType
    /\ AgentType
    /\ FaultType
    /\ DeliveryType
    /\ ExitType

\* A webhook that was inserted is in the table until the target has accepted
\* it, a poll has taken it, or an operator has removed it: neither a failed
\* attempt, a failed statement nor a crash between two steps drops it.
Custody ==
    \A id \in 1..(nextId - 1) :
        \/ id \in Stored
        \/ accepted[id] > 0
        \/ id \in released
        \/ id \in discarded

\* read_and_delete_by_channel is atomic: a webhook is in one poll response at
\* most, and never in a response and in the table (ports.rs).
HandedOutOnce ==
    /\ (released \cup discarded) \cap Stored = {}
    /\ lost \subseteq released
    /\ \A p \in Pollers : AnswerIds(p) \subseteq released \ (lost \cup discarded)
    /\ \A p, q \in Pollers : p # q => AnswerIds(p) \cap AnswerIds(q) = {}

\* forward_attempts loses no update although the forwarder and a manual retry
\* both work from a copy: every failed attempt is in the counter, is about to
\* be recorded, or is known not to have been recorded.
AttemptsAccounted ==
    \A id \in Stored :
        failures[id] = webhooks[id].forward_attempts + unrecorded[id]
                       + Cardinality(AgentsAt("record", id))

\* The target sees a webhook twice only after a lost answer, a removal that
\* failed or was interrupted, or two deliveries of it that overlapped.
DuplicatesExplained ==
    \A id \in Ids : accepted[id] <= 1 + mishaps[id]

\* After a pause the forwarder starts one more attempt at most: the one that
\* had passed is_paused already.  Draining a queue does not skip the check.
PauseLetsOneThrough ==
    \A c \in ForwardChannels : sincePause[c] <= 1

\* A webhook is reported as stuck twice only if a failure of it was never
\* recorded.
ReportsExplained ==
    \A id \in Ids : reports[id] <= 1 + unrecorded[id]

\* Without manual retries a webhook whose counter reached the threshold has
\* been reported or is about to be, unless the process died between the UPDATE
\* that raised the counter and the report: the test is an equality, so the next
\* failure does not make up for it.
StuckIsReported ==
    \A id \in Stored : webhooks[id].forward_attempts >= StuckThreshold =>
        \/ reports[id] > 0
        \/ \E c \in ForwardChannels : AboutToReport(c, id)
        \/ id \in silenced

\* The forwarder never takes up the webhook it tried last without sleeping
\* first, even when the delivered row could not be removed (on_delivered).
NoImmediateResend ==
    [][\A c \in ForwardChannels :
         pc[c] = "peek" /\ pc'[c] = "send" => held'[c] # held[c]]_vars

\* A webhook of a forwarding channel stays queued for ever only if the channel
\* is paused again and again; bounded failures, faults and crashes delay it.
EventuallyLeaves ==
    \A c \in ForwardChannels, id \in Ids :
        <>[](id \in RowsOf(c)) => []<>paused[c]
-----------------------------------------------------------------------------
(* What the queue implements. *)

Promise == INSTANCE WebhookCustody WITH
    Webhooks <- Ids,
    admitted <- 1..(nextId - 1),
    queued <- Stored,
    delivered <- {id \in Ids : accepted[id] > 0}

\* Every step of the service is a step of the promise or changes nothing in it.
ImplementsCustody == Promise!Spec

-----------------------------------------------------------------------------
(* What the comments and documents say, and the code does not do. *)

\* forward.rs: after STUCK_ATTEMPTS_THRESHOLD failed attempts "a single
\* error-level record is emitted".
SingleStuckReport ==
    \A id \in Stored : webhooks[id].forward_attempts >= StuckThreshold =>
        reports[id] = 1 \/ \E c \in ForwardChannels : AboutToReport(c, id)

\* ports.rs: read and delete, "oldest first".  RETURNING gives the rows in the
\* order of their ids.
PollOldestFirst ==
    \A p \in Pollers : \A v, w \in answer[p] :
        v.id < w.id => v.received_at <= w.received_at

\* API.md: webhooks are deleted "immediately after being successfully
\* returned"; a response that was lost deletes nothing then.
DeletedOnceReturned == lost \subseteq Stored
=============================================================================
