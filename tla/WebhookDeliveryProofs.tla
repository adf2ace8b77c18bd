----------------------- MODULE WebhookDeliveryProofs ------------------------
(***************************************************************************)
(* What forwarders and manual retries do to each other, whatever the       *)
(* constants are.  A pause lets one attempt through, because only a        *)
(* forwarder that has passed the check stands at the peek (PauseInv).  No  *)
(* failed attempt is missing from the counters, because each is on its way *)
(* to one of them (AttemptsInv).  The target sees no webhook twice without *)
(* a mishap, because everybody who may still get it accepted is counted    *)
(* (DeliveryInv).  A webhook is not reported as stuck again without cause, *)
(* because no two forwarders work on it and no copy is ahead of its row    *)
(* (ReportInv), and without manual retries it is not missed (QuietInv).    *)
(* What a forwarder has just tried it tries again only after a sleep,      *)
(* because it reads on at once only when the row is gone (FreshInv).       *)
(***************************************************************************)
EXTENDS WebhookQueueProofs

-----------------------------------------------------------------------------
(* Pauses. *)

\* A forwarder that is about to peek has begun nothing since the pause.
PauseInv ==
    \A c \in ForwardChannels :
        /\ sincePause[c] <= 1
        /\ paused[c] /\ pc[c] = "peek" => sincePause[c] = 0

LEMMA PauseKept ==
    ASSUME PauseInv, UNCHANGED pauseVars,
           \A c \in ForwardChannels : pc'[c] = "peek" => pc[c] = "peek" \/ ~paused[c]
    PROVE  PauseInv'
BY DEF PauseInv, pauseVars

\* One agent moves, and not to the peek.
LEMMA PauseKeptByMove ==
    ASSUME TypeOK, PauseInv, UNCHANGED pauseVars, NEW a \in Agents, NEW where,
           where # "peek", MoveTo(a, where)
    PROVE  PauseInv'
<1>1. pc \in [Agents -> Places]
  BY DEF TypeOK, AgentType
<1>2. \A c \in ForwardChannels : pc'[c] = "peek" => pc[c] = "peek"
  BY <1>1 DEF MoveTo, Agents
<1> QED BY <1>2, PauseKept

LEMMA PauseStep == TypeOK /\ PauseInv /\ [Next]_vars => PauseInv'
<1> SUFFICES ASSUME TypeOK, PauseInv, [Next]_vars PROVE PauseInv'
  OBVIOUS
<1>1. ASSUME UNCHANGED <<pc, pauseVars>> PROVE PauseInv'
  BY <1>1, PauseKept
<1>2. ASSUME NEW a \in Agents, Attempt(a) PROVE PauseInv'
  <2>1. \E where \in Places \ {"peek"} : MoveTo(a, where)
    BY <1>2 DEF Attempt, TargetAccepts, AnswerLost, TargetRefuses, RemoveDelivered,
       RemoveFails, RecordFailure, RecordFails, LeaveRecord, EndAttempt, StartOf, Places,
       Attempting
  <2>2. UNCHANGED pauseVars
    BY <1>2 DEF Attempt, TargetAccepts, AnswerLost, TargetRefuses, RemoveDelivered,
       RemoveFails, RecordFailure, RecordFails
  <2> QED BY <2>1, <2>2, PauseKeptByMove
<1>3. ASSUME NEW c \in ForwardChannels, CheckPause(c) PROVE PauseInv'
  <2>1. pc \in [Agents -> Places] /\ c \in Agents
    BY DEF TypeOK, AgentType, Agents
  <2>2. \A d \in ForwardChannels : pc'[d] = "peek" => pc[d] = "peek" \/ ~paused[d]
    BY <1>3, <2>1 DEF CheckPause, MoveTo
  <2> QED BY <1>3, <2>2, PauseKept DEF CheckPause
<1>4. ASSUME NEW c \in ForwardChannels, PeekDue(c) PROVE PauseInv'
  <2>1. pc \in [Agents -> Places] /\ c \in Agents /\ ForwardChannels \subseteq Agents
    BY DEF TypeOK, AgentType, Agents
  <2>2. pc' = [pc EXCEPT ![c] = "send"] /\ pc[c] = "peek" /\ paused' = paused
    BY <1>4 DEF PeekDue, TakeCopy, MoveTo
  <2>3. sincePause' = IF paused[c] THEN [sincePause EXCEPT ![c] = @ + 1] ELSE sincePause
    BY <1>4 DEF PeekDue, Add
  <2>4. sincePause \in [ForwardChannels -> Nat]
    BY DEF TypeOK, PauseType
  <2>5. ASSUME NEW d \in ForwardChannels, d # c
        PROVE  pc'[d] = pc[d] /\ sincePause'[d] = sincePause[d]
    BY <2>1, <2>2, <2>3, <2>4, <2>5
  <2>6. pc'[c] = "send" /\ sincePause'[c] <= 1
    BY <2>1, <2>2, <2>3, <2>4 DEF PauseInv
  <2> QED BY <2>2, <2>5, <2>6 DEF PauseInv
<1>5. ASSUME NEW c \in ForwardChannels,
             PeekNothing(c) \/ PeekFails(c) \/ Report(c) \/ Wake(c)
      PROVE  PauseInv'
  <2>1. \E where \in Places \ {"peek"} : MoveTo(c, where)
    BY <1>5 DEF PeekNothing, PeekFails, Report, Wake, EndAttempt, Places
  <2>2. UNCHANGED pauseVars
    BY <1>5 DEF PeekNothing, PeekFails, Report, Wake
  <2> QED BY <2>1, <2>2, PauseKeptByMove DEF Agents
<1>6. ASSUME NEW o \in Retriers, Retrier(o) PROVE PauseInv'
  <2>1. ASSUME NEW c \in ForwardChannels, NEW id \in Ids, RetryLoad(o, c, id)
        PROVE  PauseInv'
    BY <2>1, PauseKeptByMove DEF RetryLoad, TakeCopy, Agents
  <2>2. CASE RetryAbandoned(o)
    <3>1. o \notin ForwardChannels
      BY ChannelAssumption
    <3>2. MoveTo(o, "idle") /\ UNCHANGED pauseVars
      BY <2>2, <3>1 DEF RetryAbandoned, EndAttempt
    <3> QED BY <3>2, PauseKeptByMove DEF Agents
  <2> QED BY <1>2, <1>6, <2>1, <2>2 DEF Retrier, Agents
<1>7. ASSUME NEW c \in ForwardChannels, Pause(c) \/ Resume(c) PROVE PauseInv'
  <2>1. sincePause' = [sincePause EXCEPT ![c] = 0] /\ pc' = pc
    BY <1>7 DEF Pause, Resume, agentVars
  <2>2. \A d \in ForwardChannels : d # c => paused'[d] = paused[d]
    BY <1>7 DEF Pause, Resume, TypeOK, PauseType
  <2> QED BY <2>1, <2>2 DEF PauseInv, TypeOK, PauseType
<1>8. CASE Crash
  BY <1>8 DEF Crash, PauseInv
<1>9. CASE \E s \in Senders : Receiver(s)
  BY <1>1, <1>9 DEF Receiver, ReceiveBegin, Insert, ReceiveFails, agentVars
<1>10. CASE \E p \in Pollers : Poller(p)
  BY <1>1, <1>10 DEF Poller, PollTakes, PollAnswered, PollUnanswered, agentVars
<1>11. CASE Operator
  BY <1>1, <1>7, <1>11 DEF Operator, Delete, Clear, agentVars
<1>12. ASSUME NEW c \in ForwardChannels, Forwarder(c) PROVE PauseInv'
  BY <1>2, <1>3, <1>4, <1>5, <1>12 DEF Forwarder, Agents
<1>13. CASE \E id \in Ids : DelayElapses(id)
  BY <1>1, <1>13 DEF DelayElapses, agentVars
<1>14. CASE ClockTick \/ UNCHANGED vars
  BY <1>1, <1>14 DEF ClockTick, vars, agentVars
<1> QED
  BY <1>6, <1>8, <1>9, <1>10, <1>11, <1>12, <1>13, <1>14 DEF Next

\* After a pause the forwarder begins one more attempt at most, whatever the
\* others do (is_paused is asked at every turn of the loop, draining or not).
THEOREM PauseTakesEffect == Spec => []PauseLetsOneThrough
<1>1. Init => PauseInv
  BY DEF Init, PauseInv
<1>2. PauseInv => PauseLetsOneThrough
  BY DEF PauseInv, PauseLetsOneThrough
<1> QED BY <1>1, <1>2, TypeCorrect, PauseStep, PTL DEF Spec

-----------------------------------------------------------------------------
(* Counting agents. *)

\* Whoever is at a place with a webhook stays, and nobody joins.
LEMMA CountStays ==
    ASSUME NEW where, NEW id,
           \A b \in Agents : pc'[b] = where /\ held'[b] = id
                             <=> pc[b] = where /\ held[b] = id
    PROVE  AgentsAt(where, id)' = AgentsAt(where, id)
BY DEF AgentsAt

LEMMA CountGrows ==
    ASSUME NEW where, NEW id, NEW a \in Agents,
           pc'[a] = where, held'[a] = id, pc[a] # where,
           \A b \in Agents \ {a} : pc'[b] = pc[b] /\ held'[b] = held[b]
    PROVE  Cardinality(AgentsAt(where, id))' = Cardinality(AgentsAt(where, id)) + 1
<1>1. AgentsAt(where, id)' = AgentsAt(where, id) \cup {a}
  BY DEF AgentsAt
<1>2. a \notin AgentsAt(where, id)
  BY DEF AgentsAt
<1>3. IsFiniteSet(AgentsAt(where, id))
  BY AgentsAtType
<1>4. Cardinality(AgentsAt(where, id) \cup {a}) = Cardinality(AgentsAt(where, id)) + 1
  BY <1>2, <1>3, FS_AddElement
<1> QED BY <1>1, <1>4

LEMMA CountShrinks ==
    ASSUME NEW where, NEW id, NEW a \in Agents,
           pc[a] = where, held[a] = id, pc'[a] # where,
           \A b \in Agents \ {a} : pc'[b] = pc[b] /\ held'[b] = held[b]
    PROVE  Cardinality(AgentsAt(where, id))' = Cardinality(AgentsAt(where, id)) - 1
<1>1. AgentsAt(where, id)' = AgentsAt(where, id) \ {a}
  BY DEF AgentsAt
<1>2. a \in AgentsAt(where, id)
  BY DEF AgentsAt
<1> QED BY <1>1, <1>2, AgentsAtType, FS_RemoveElement

LEMMA CountIsZero ==
    ASSUME NEW where, NEW id, \A b \in Agents : ~(pc[b] = where /\ held[b] = id)
    PROVE  Cardinality(AgentsAt(where, id)) = 0
<1>1. AgentsAt(where, id) = {}
  BY DEF AgentsAt
<1> QED BY <1>1, FS_EmptySet

-----------------------------------------------------------------------------
(* The attempt counters. *)

Balance(id) ==
    failures[id] = webhooks[id].forward_attempts + unrecorded[id]
                   + Cardinality(AgentsAt("record", id))

\* Nothing has happened to an id that was not given out.
AttemptsInv ==
    /\ \A id \in Stored : Balance(id)
    /\ \A id \in Ids : id >= nextId => failures[id] = 0 /\ unrecorded[id] = 0

\* Nobody comes to record a failure or leaves with it, and no count changes.
LEMMA BooksKept ==
    ASSUME AttemptsInv, nextId' = nextId, UNCHANGED <<failures, unrecorded>>,
           Stored' \subseteq Stored,
           \A id \in Stored' :
               webhooks'[id].forward_attempts = webhooks[id].forward_attempts,
           \A b \in Agents : \/ pc'[b] = pc[b] /\ held'[b] = held[b]
                             \/ pc[b] # "record" /\ pc'[b] # "record"
    PROVE  AttemptsInv'
<1>1. \A id : AgentsAt("record", id)' = AgentsAt("record", id)
  BY CountStays
<1> QED BY <1>1 DEF AttemptsInv, Balance

\* An agent that does not stand at the record moves, and not to the record.
LEMMA BooksKeptByMove ==
    ASSUME TypeOK, AttemptsInv, NEW a \in Agents, pc[a] # "record",
           NEW where, where # "record", MoveTo(a, where),
           NEW h, held' = [held EXCEPT ![a] = h],
           nextId' = nextId, UNCHANGED <<failures, unrecorded>>,
           webhooks' = webhooks \/ \E S : webhooks' = Without(S)
    PROVE  AttemptsInv'
<1>1. pc \in [Agents -> Places] /\ held \in [Agents -> 0..(nextId - 1)]
  BY DEF TypeOK, AgentType
<1>2. \A b \in Agents : \/ pc'[b] = pc[b] /\ held'[b] = held[b]
                        \/ pc[b] # "record" /\ pc'[b] # "record"
  BY <1>1 DEF MoveTo
<1>3. /\ Stored' \subseteq Stored
      /\ \A id \in Stored' :
             webhooks'[id].forward_attempts = webhooks[id].forward_attempts
  BY DEF Without, Stored
<1> QED BY <1>2, <1>3, BooksKept

\* What an attempt says of its agent and of the ids it may name.
LEMMA AttemptFacts ==
    ASSUME TypeOK, NEW a \in Agents, pc[a] \in Attempting
    PROVE  /\ held[a] \in Ids /\ held[a] < nextId
           /\ pc \in [Agents -> Places] /\ held \in [Agents -> 0..(nextId - 1)]
           /\ failures \in [Ids -> Nat] /\ unrecorded \in [Ids -> Nat]
           /\ Stored \subseteq Ids /\ nextId \in Nat
           /\ \A id \in Stored : webhooks[id].forward_attempts \in Nat
<1>1. nextId \in 1..(MaxWebhooks + 1) /\ Stored \subseteq 1..(nextId - 1)
  BY DEF TypeOK, TableType
<1>2. held[a] \in 0..(nextId - 1) /\ held[a] # 0
  BY DEF TypeOK, AgentType
<1>3. \A id \in Stored : webhooks[id] \in Row
  BY DEF TypeOK, TableType
<1>4. \A id \in Stored : webhooks[id].forward_attempts \in Nat
  BY <1>3 DEF Row
<1>5. held[a] \in Ids /\ held[a] < nextId /\ Stored \subseteq Ids /\ nextId \in Nat
  BY <1>1, <1>2, BoundAssumption DEF Ids
<1> QED BY <1>4, <1>5 DEF TypeOK, AgentType, DeliveryType

\* A failure is noted by its agent: the webhook counts one more, and one more
\* is on its way to the counter.
LEMMA FailureNoted ==
    ASSUME TypeOK, AttemptsInv, NEW a \in Agents, pc[a] = "send",
           MoveTo(a, "record"), failures' = Add(failures, held[a]),
           UNCHANGED <<webhooks, nextId, held, unrecorded>>
    PROVE  AttemptsInv'
<1> DEFINE h == held[a]
<1>1. /\ h \in Ids /\ h < nextId /\ nextId \in Nat
      /\ pc \in [Agents -> Places] /\ held \in [Agents -> 0..(nextId - 1)]
      /\ failures \in [Ids -> Nat] /\ unrecorded \in [Ids -> Nat]
      /\ Stored \subseteq Ids
      /\ \A id \in Stored : webhooks[id].forward_attempts \in Nat
  BY AttemptFacts DEF Attempting
<1>2. pc'[a] = "record" /\ \A b \in Agents \ {a} : pc'[b] = pc[b]
  BY <1>1 DEF MoveTo
<1>3. Cardinality(AgentsAt("record", h))' = Cardinality(AgentsAt("record", h)) + 1
  BY <1>2, CountGrows
<1>4. \A id : id # h => AgentsAt("record", id)' = AgentsAt("record", id)
  BY <1>2, CountStays
<1>5. failures'[h] = failures[h] + 1 /\ \A id \in Ids : id # h => failures'[id] = failures[id]
  BY <1>1 DEF Add
<1>6. ASSUME NEW id \in Stored PROVE Balance(id)'
  <2>1. Balance(id) /\ Cardinality(AgentsAt("record", id)) \in Nat
    BY AgentsAtType DEF AttemptsInv
  <2>2. CASE id = h
    BY <1>1, <1>3, <1>5, <2>1, <2>2 DEF Balance
  <2>3. CASE id # h
    BY <1>1, <1>4, <1>5, <2>1, <2>3 DEF Balance
  <2> QED BY <2>2, <2>3
<1>7. \A id \in Ids : id >= nextId => failures'[id] = 0 /\ unrecorded[id] = 0
  BY <1>1, <1>5 DEF AttemptsInv, Ids
<1> QED BY <1>6, <1>7 DEF AttemptsInv, Stored

\* An agent leaves the record: its failure has reached the row, if there still
\* is one, or is known not to have been recorded.
LEMMA FailureBooked ==
    ASSUME TypeOK, AttemptsInv, NEW a \in Agents, pc[a] = "record",
           NEW where, where # "record", MoveTo(a, where),
           NEW h, held' = [held EXCEPT ![a] = h],
           nextId' = nextId, failures' = failures, Stored' = Stored,
           \A id \in Stored \ {held[a]} :
               webhooks'[id].forward_attempts = webhooks[id].forward_attempts,
           \/ /\ unrecorded' = unrecorded
              /\ held[a] \in Stored =>
                     webhooks'[held[a]].forward_attempts
                         = webhooks[held[a]].forward_attempts + 1
           \/ /\ unrecorded' = Add(unrecorded, held[a])
              /\ webhooks' = webhooks
    PROVE  AttemptsInv'
<1>0. PICK i : i = held[a]
  OBVIOUS
<1>1. /\ i \in Ids /\ i < nextId /\ nextId \in Nat
      /\ pc \in [Agents -> Places] /\ held \in [Agents -> 0..(nextId - 1)]
      /\ failures \in [Ids -> Nat] /\ unrecorded \in [Ids -> Nat]
      /\ Stored \subseteq Ids
      /\ \A id \in Stored : webhooks[id].forward_attempts \in Nat
  BY <1>0, AttemptFacts DEF Attempting
<1>2. pc'[a] # "record" /\ \A b \in Agents \ {a} : pc'[b] = pc[b] /\ held'[b] = held[b]
  BY <1>1 DEF MoveTo
<1>3. Cardinality(AgentsAt("record", i))' = Cardinality(AgentsAt("record", i)) - 1
  BY <1>0, <1>2, CountShrinks
<1>4. \A id : id # i => AgentsAt("record", id)' = AgentsAt("record", id)
  BY <1>0, <1>2, CountStays
<1>5. \A id \in Ids : id # i => unrecorded'[id] = unrecorded[id]
  BY <1>0, <1>1 DEF Add
<1>6. ASSUME NEW id \in Stored PROVE Balance(id)'
  <2>1. Balance(id) /\ Cardinality(AgentsAt("record", id)) \in Nat
    BY AgentsAtType DEF AttemptsInv
  <2>2. CASE id = i
    <3>1. webhooks'[i].forward_attempts + unrecorded'[i]
              = webhooks[i].forward_attempts + unrecorded[i] + 1
      BY <1>0, <1>1, <2>2 DEF Add
    <3> QED BY <1>1, <1>3, <2>1, <2>2, <3>1 DEF Balance
  <2>3. CASE id # i
    BY <1>0, <1>1, <1>4, <1>5, <2>1, <2>3 DEF Balance
  <2> QED BY <2>2, <2>3
<1>7. \A id \in Ids : id >= nextId => failures'[id] = 0 /\ unrecorded'[id] = 0
  BY <1>1, <1>5 DEF AttemptsInv, Ids
<1> QED BY <1>6, <1>7 DEF AttemptsInv

LEMMA InsertBooked ==
    ASSUME TypeOK, AttemptsInv, NEW s \in Senders, Insert(s)
    PROVE  AttemptsInv'
<1>1. PICK w \in receiving[s] :
          webhooks' = [id \in Stored \cup {nextId} |->
              IF id = nextId
              THEN [channel |-> w.channel, received_at |-> w.received_at,
                    forward_attempts |-> 0, parked |-> FALSE]
              ELSE webhooks[id]]
  BY DEF Insert
<1>2. nextId' = nextId + 1 /\ UNCHANGED <<failures, unrecorded, pc, held>>
  BY DEF Insert, agentVars, deliveryHistory
<1>3. nextId \in Ids /\ nextId \in Nat /\ nextId \notin Stored
  BY BoundAssumption DEF Insert, TypeOK, TableType, Ids
<1>4. \A id : AgentsAt("record", id)' = AgentsAt("record", id)
  BY <1>2, CountStays
<1>5. Cardinality(AgentsAt("record", nextId)) = 0
  <2>1. \A b \in Agents : held[b] # nextId
    BY <1>3 DEF TypeOK, AgentType
  <2> QED BY <2>1, CountIsZero
<1>6. Stored' = Stored \cup {nextId}
  BY <1>1 DEF Stored
<1>7. ASSUME NEW id \in Stored PROVE Balance(id)'
  BY <1>1, <1>2, <1>3, <1>4, <1>7 DEF AttemptsInv, Balance
<1>8. ASSUME NEW id, id = nextId PROVE Balance(id)'
  <2>1. webhooks'[id].forward_attempts = 0
    BY <1>1, <1>8
  <2>2. failures[id] = 0 /\ unrecorded[id] = 0
    BY <1>3, <1>8 DEF AttemptsInv
  <2>3. Cardinality(AgentsAt("record", id))' = 0
    BY <1>4, <1>5, <1>8
  <2> QED BY <1>2, <2>1, <2>2, <2>3 DEF Balance
<1>9. \A id \in Ids : id >= nextId' => failures'[id] = 0 /\ unrecorded'[id] = 0
  BY <1>2, <1>3 DEF AttemptsInv, Ids
<1> QED BY <1>6, <1>7, <1>8, <1>9 DEF AttemptsInv

LEMMA CrashBooked ==
    ASSUME TypeOK, AttemptsInv, Crash
    PROVE  AttemptsInv'
<1>1. \A b \in Agents : pc'[b] # "record"
  BY DEF Crash, StartOf
<1>2. \A id : Cardinality(AgentsAt("record", id))' = 0
  <2>1. \A id : AgentsAt("record", id)' = {}
    BY <1>1 DEF AgentsAt
  <2> QED BY <2>1, FS_EmptySet
<1>3. /\ webhooks' = webhooks /\ nextId' = nextId /\ failures' = failures
      /\ unrecorded' = [id \in Ids |-> unrecorded[id] + Cardinality(AgentsAt("record", id))]
  BY DEF Crash, storeVars
<1>4. /\ Stored \subseteq Ids /\ nextId \in Nat
      /\ failures \in [Ids -> Nat] /\ unrecorded \in [Ids -> Nat]
      /\ \A id \in Stored : webhooks[id] \in Row
  <2>1. nextId \in 1..(MaxWebhooks + 1) /\ Stored \subseteq 1..(nextId - 1)
    BY DEF TypeOK, TableType
  <2>2. Stored \subseteq Ids /\ nextId \in Nat
    BY <2>1, BoundAssumption DEF Ids
  <2> QED BY <2>2 DEF TypeOK, TableType, DeliveryType
<1>5. ASSUME NEW id \in Stored PROVE Balance(id)'
  <2>1. Balance(id) /\ Cardinality(AgentsAt("record", id)) \in Nat
    BY AgentsAtType DEF AttemptsInv
  <2>2. webhooks[id].forward_attempts \in Nat
    BY <1>4 DEF Row
  <2>3. unrecorded'[id] = unrecorded[id] + Cardinality(AgentsAt("record", id))
    BY <1>3, <1>4
  <2> QED BY <1>2, <1>3, <1>4, <2>1, <2>2, <2>3 DEF Balance
<1>6. ASSUME NEW id \in Ids, id >= nextId PROVE failures'[id] = 0 /\ unrecorded'[id] = 0
  <2>1. \A b \in Agents : held[b] # id
    BY <1>4, <1>6 DEF TypeOK, AgentType, Ids
  <2>2. Cardinality(AgentsAt("record", id)) = 0
    BY <2>1, CountIsZero
  <2> QED BY <1>3, <1>6, <2>2 DEF AttemptsInv
<1> QED BY <1>3, <1>5, <1>6 DEF AttemptsInv, Stored

\* Every step of one attempt, by the forwarder or a manual retry.
LEMMA AttemptBooked ==
    ASSUME TypeOK, AttemptsInv, NEW a \in Agents, Attempt(a)
    PROVE  AttemptsInv'
<1>1. CASE TargetAccepts(a)
  <2>1. held' = [held EXCEPT ![a] = held[a]]
    BY <1>1 DEF TargetAccepts, TypeOK, AgentType
  <2> QED BY <1>1, <2>1, BooksKeptByMove DEF TargetAccepts, storeVars
<1>2. CASE AnswerLost(a) \/ TargetRefuses(a)
  BY <1>2, FailureNoted DEF AnswerLost, TargetRefuses, storeVars
<1>3. CASE RemoveDelivered(a) \/ RemoveFails(a)
  <2>1. \E where \in Places \ {"record"} : MoveTo(a, where)
    BY <1>3 DEF RemoveDelivered, RemoveFails, EndAttempt, StartOf, Places, Attempting
  <2>2. held' = [held EXCEPT ![a] = IF a \in ForwardChannels THEN held[a] ELSE 0]
    BY <1>3 DEF RemoveDelivered, RemoveFails, EndAttempt
  <2> QED BY <1>3, <2>1, <2>2, BooksKeptByMove
          DEF RemoveDelivered, RemoveFails, storeVars, deliveryHistory
<1>4. ASSUME RecordFailure(a) \/ RecordFails(a) PROVE AttemptsInv'
  <2>1. \E where \in Places \ {"record"} : MoveTo(a, where)
    BY <1>4 DEF RecordFailure, RecordFails, LeaveRecord, EndAttempt, Places, Attempting
  <2>2. held' = [held EXCEPT ![a] = IF a \in ForwardChannels THEN held[a] ELSE 0]
    BY <1>4 DEF RecordFailure, RecordFails, LeaveRecord, EndAttempt, TypeOK, AgentType
  <2>3. CASE RecordFailure(a)
    <3>1. webhooks' = [id \in Stored |->
              IF id = held[a]
              THEN WithDelivery(webhooks[id], webhooks[id].forward_attempts + 1, TRUE)
              ELSE webhooks[id]]
      BY <2>3 DEF RecordFailure
    <3>2. /\ Stored' = Stored
          /\ \A id \in Stored \ {held[a]} :
                 webhooks'[id].forward_attempts = webhooks[id].forward_attempts
          /\ held[a] \in Stored =>
                 webhooks'[held[a]].forward_attempts
                     = webhooks[held[a]].forward_attempts + 1
      BY <3>1 DEF Stored, WithDelivery
    <3> QED BY <2>1, <2>2, <2>3, <3>2, FailureBooked DEF RecordFailure
  <2>4. CASE RecordFails(a)
    BY <2>1, <2>2, <2>4, FailureBooked DEF RecordFails, storeVars, Stored
  <2> QED BY <1>4, <2>3, <2>4
<1> QED BY <1>1, <1>2, <1>3, <1>4 DEF Attempt

LEMMA AttemptsStep == TypeOK /\ AttemptsInv /\ [Next]_vars => AttemptsInv'
<1> SUFFICES ASSUME TypeOK, AttemptsInv, [Next]_vars PROVE AttemptsInv'
  OBVIOUS
<1>1. ASSUME UNCHANGED <<nextId, pc, held, failures, unrecorded>>,
             webhooks' = webhooks \/ \E S : webhooks' = Without(S)
      PROVE  AttemptsInv'
  <2>1. /\ Stored' \subseteq Stored
        /\ \A id \in Stored' :
               webhooks'[id].forward_attempts = webhooks[id].forward_attempts
    BY <1>1 DEF Without, Stored
  <2> QED BY <1>1, <2>1, BooksKept
<1>2. ASSUME NEW c \in ForwardChannels, Forwarder(c) PROVE AttemptsInv'
  <2>1. c \in Agents /\ pc[c] # "idle"
    BY DEF Agents, TypeOK, AgentType
  <2>2. CASE CheckPause(c) \/ PeekNothing(c) \/ PeekFails(c) \/ Report(c)
    <3>1. /\ pc[c] # "record"
          /\ \E where \in Places \ {"record"} : MoveTo(c, where)
          /\ held' = [held EXCEPT ![c] = held[c]]
      BY <2>2 DEF CheckPause, PeekNothing, PeekFails, Report, EndAttempt, Places, TypeOK,
         AgentType
    <3> QED BY <2>1, <2>2, <3>1, BooksKeptByMove
            DEF CheckPause, PeekNothing, PeekFails, Report, storeVars, deliveryHistory
  <2>3. CASE PeekDue(c)
    <3>1. PICK id \in Due(c) : TakeCopy(c, id)
      BY <2>3 DEF PeekDue
    <3> QED BY <2>1, <2>3, <3>1, BooksKeptByMove DEF PeekDue, TakeCopy, storeVars
  <2>4. CASE Wake(c)
    BY <2>1, <2>4, BooksKeptByMove DEF Wake, storeVars, deliveryHistory
  <2> QED BY <1>2, <2>1, <2>2, <2>3, <2>4, AttemptBooked DEF Forwarder
<1>3. ASSUME NEW o \in Retriers, Retrier(o) PROVE AttemptsInv'
  <2>1. o \in Agents /\ o \notin ForwardChannels
    BY ChannelAssumption DEF Agents
  <2>2. ASSUME NEW c \in ForwardChannels, NEW id \in Ids, RetryLoad(o, c, id)
        PROVE  AttemptsInv'
    BY <2>1, <2>2, BooksKeptByMove DEF RetryLoad, TakeCopy, storeVars
  <2>3. CASE RetryAbandoned(o)
    <3>1. /\ MoveTo(o, "idle") /\ held' = [held EXCEPT ![o] = 0]
          /\ UNCHANGED <<webhooks, nextId, failures>>
      BY <2>1, <2>3 DEF RetryAbandoned, EndAttempt, storeVars
    <3>2. CASE pc[o] = "record"
      <4>1. unrecorded' = Add(unrecorded, held[o])
        BY <2>3, <3>2 DEF RetryAbandoned
      <4> QED BY <2>1, <3>1, <3>2, <4>1, FailureBooked DEF Stored
    <3>3. CASE pc[o] # "record"
      <4>1. unrecorded' = unrecorded
        BY <2>3, <3>3 DEF RetryAbandoned
      <4> QED BY <2>1, <3>1, <3>3, <4>1, BooksKeptByMove
    <3> QED BY <3>2, <3>3
  <2> QED BY <1>3, <2>1, <2>2, <2>3, AttemptBooked DEF Retrier
<1>4. ASSUME NEW s \in Senders, Receiver(s) PROVE AttemptsInv'
  BY <1>1, <1>4, InsertBooked
     DEF Receiver, ReceiveBegin, ReceiveFails, storeVars, agentVars, deliveryHistory
<1>5. ASSUME NEW p \in Pollers, Poller(p) PROVE AttemptsInv'
  BY <1>1, <1>5 DEF Poller, PollTakes, PollAnswered, PollUnanswered, storeVars,
     agentVars, deliveryHistory
<1>6. CASE Operator
  BY <1>1, <1>6 DEF Operator, Delete, Clear, Pause, Resume, storeVars, agentVars,
     deliveryHistory
<1>7. ASSUME NEW id \in Ids, DelayElapses(id) PROVE AttemptsInv'
  <2>1. /\ Stored' = Stored
        /\ \A i \in Stored :
               webhooks'[i].forward_attempts = webhooks[i].forward_attempts
    BY <1>7 DEF DelayElapses, Stored, WithDelivery
  <2> QED BY <1>7, <2>1, BooksKept DEF DelayElapses, agentVars, deliveryHistory
<1>8. CASE ClockTick \/ UNCHANGED vars
  BY <1>1, <1>8 DEF ClockTick, vars, storeVars, agentVars, deliveryHistory
<1> QED
  BY <1>2, <1>3, <1>4, <1>5, <1>6, <1>7, <1>8, CrashBooked DEF Next

\* forward_attempts loses no update, however many agents work from copies of the
\* row: a failure is in the counter, on its way, or known to be unrecorded.
THEOREM NoFailureUncounted == Spec => []AttemptsAccounted
<1>1. Init => AttemptsInv
  BY DEF Init, AttemptsInv, Stored
<1>2. AttemptsInv => AttemptsAccounted
  BY DEF AttemptsInv, Balance, AttemptsAccounted
<1> QED BY <1>1, <1>2, TypeCorrect, AttemptsStep, PTL DEF Spec

-----------------------------------------------------------------------------
(* Duplicates. *)

\* Nobody is delivering a webhook that is in the table: somebody will.
Chance(id) ==
    IF id \in Stored /\ \A b \in Agents : ~Delivering(b, id) THEN 1 ELSE 0

\* What the target has accepted, and all it may still accept without a mishap.
Bounded(id) ==
    accepted[id] + Cardinality(AgentsAt("send", id)) + Chance(id) <= 1 + mishaps[id]

DeliveryInv ==
    /\ \A id \in Ids : Bounded(id)
    /\ \A id \in Ids : id >= nextId => accepted[id] = 0

\* The numbers that are added up.
LEMMA DeliveryNumbers ==
    ASSUME TypeOK, NEW id \in Ids
    PROVE  /\ accepted \in [Ids -> Nat] /\ mishaps \in [Ids -> Nat]
           /\ accepted[id] \in Nat /\ mishaps[id] \in Nat
           /\ Cardinality(AgentsAt("send", id)) \in Nat
           /\ Chance(id) \in 0..1 /\ Chance(id)' \in 0..1
<1>1. Chance(id) \in 0..1 /\ Chance(id)' \in 0..1
  BY DEF Chance
<1> QED BY <1>1, AgentsAtType DEF TypeOK, DeliveryType

\* Nobody begins or ends a delivery of this webhook.
LEMMA BoundElsewhere ==
    ASSUME TypeOK, NEW id \in Ids, Bounded(id),
           accepted'[id] = accepted[id], mishaps'[id] = mishaps[id],
           id \in Stored' => id \in Stored,
           \A b \in Agents : \A where \in {"send", "delete"} :
               pc'[b] = where /\ held'[b] = id <=> pc[b] = where /\ held[b] = id
    PROVE  Bounded(id)'
<1>1. AgentsAt("send", id)' = AgentsAt("send", id)
  BY CountStays
<1>2. \A b \in Agents : Delivering(b, id)' <=> Delivering(b, id)
  BY DEF Delivering
<1>3. Chance(id)' <= Chance(id)
  BY <1>2 DEF Chance
<1> QED BY <1>1, <1>3, DeliveryNumbers DEF Bounded

LEMMA DeliveryKept ==
    ASSUME TypeOK, DeliveryInv, UNCHANGED <<accepted, mishaps, nextId>>,
           Stored' \subseteq Stored,
           \A b \in Agents :
               \/ pc'[b] = pc[b] /\ held'[b] = held[b]
               \/ pc[b] \notin {"send", "delete"} /\ pc'[b] \notin {"send", "delete"}
    PROVE  DeliveryInv'
<1>1. ASSUME NEW id \in Ids PROVE Bounded(id)'
  BY BoundElsewhere DEF DeliveryInv
<1> QED BY <1>1 DEF DeliveryInv

\* An agent that is not delivering moves, and not to a delivery.
LEMMA DeliveryKeptByMove ==
    ASSUME TypeOK, DeliveryInv, NEW a \in Agents, pc[a] \notin {"send", "delete"},
           NEW where, where \notin {"send", "delete"}, MoveTo(a, where),
           NEW h, held' = [held EXCEPT ![a] = h],
           UNCHANGED <<accepted, mishaps, nextId>>, Stored' = Stored
    PROVE  DeliveryInv'
<1>1. pc \in [Agents -> Places] /\ held \in [Agents -> 0..(nextId - 1)]
  BY DEF TypeOK, AgentType
<1>2. \A b \in Agents :
          \/ pc'[b] = pc[b] /\ held'[b] = held[b]
          \/ pc[b] \notin {"send", "delete"} /\ pc'[b] \notin {"send", "delete"}
  BY <1>1 DEF MoveTo
<1> QED BY <1>2, DeliveryKept

\* Agent a ends its send or its removal of webhook i: what that may cost is
\* bounded for i, and nothing changes for the others.
LEMMA DeliveryEnds ==
    ASSUME TypeOK, DeliveryInv, NEW a \in Agents, pc[a] \in {"send", "delete"},
           NEW i, i = held[a],
           NEW where, where # "send", MoveTo(a, where),
           NEW h, held' = [held EXCEPT ![a] = h],
           nextId' = nextId, Stored' \subseteq Stored,
           accepted' \in {accepted, Add(accepted, i)},
           mishaps' \in {mishaps, Add(mishaps, i)},
           i \in Ids /\ i < nextId =>
               accepted'[i] + Cardinality(AgentsAt("send", i))' + Chance(i)' <= 1 + mishaps'[i],
           where = "delete" => h = i /\ pc[a] = "send"
    PROVE  DeliveryInv'
<1>1. /\ i \in Ids /\ i < nextId /\ nextId \in Nat
      /\ pc \in [Agents -> Places] /\ held \in [Agents -> 0..(nextId - 1)]
  BY AttemptFacts DEF Attempting
<1>2. /\ pc'[a] = where /\ held'[a] = h
      /\ \A b \in Agents \ {a} : pc'[b] = pc[b] /\ held'[b] = held[b]
  BY <1>1 DEF MoveTo
<1>3. ASSUME NEW id \in Ids, id # i PROVE accepted'[id] = accepted[id] /\ mishaps'[id] = mishaps[id]
  BY <1>1, <1>3, DeliveryNumbers DEF Add
<1>4. ASSUME NEW id \in Ids PROVE Bounded(id)'
  <2>1. CASE id = i
    BY <1>1, <2>1 DEF Bounded
  <2>2. CASE id # i
    <3>1. \A b \in Agents : \A w \in {"send", "delete"} :
              pc'[b] = w /\ held'[b] = id <=> pc[b] = w /\ held[b] = id
      BY <1>2, <2>2
    <3> QED BY <1>3, <2>2, <3>1, BoundElsewhere DEF DeliveryInv
  <2> QED BY <2>1, <2>2
<1>5. \A id \in Ids : id >= nextId => accepted'[id] = 0
  BY <1>1, <1>3 DEF DeliveryInv, Ids
<1> QED BY <1>4, <1>5 DEF DeliveryInv

\* Agent a takes a copy: the chance becomes a send, or the mishap is counted.
LEMMA DeliveryBegins ==
    ASSUME TypeOK, DeliveryInv, NEW a \in Agents, pc[a] \notin {"send", "delete"},
           NEW i \in Stored, TakeCopy(a, i), UNCHANGED <<accepted, nextId, webhooks>>
    PROVE  DeliveryInv'
<1>1. /\ i \in Ids /\ Stored' = Stored
      /\ pc \in [Agents -> Places] /\ held \in [Agents -> 0..(nextId - 1)]
      /\ mishaps \in [Ids -> Nat]
  <2>1. nextId \in 1..(MaxWebhooks + 1) /\ Stored \subseteq 1..(nextId - 1)
    BY DEF TypeOK, TableType
  <2>2. i \in Ids
    BY <2>1, BoundAssumption DEF Ids
  <2> QED BY <2>2 DEF TypeOK, AgentType, DeliveryType, Stored
<1>2. /\ pc'[a] = "send" /\ held'[a] = i
      /\ \A b \in Agents \ {a} : pc'[b] = pc[b] /\ held'[b] = held[b]
  BY <1>1 DEF TakeCopy, MoveTo
<1>3. \A id \in Ids : id # i => mishaps'[id] = mishaps[id]
  BY <1>1 DEF TakeCopy, Add
<1>4. Bounded(i)'
  <2>1. Cardinality(AgentsAt("send", i))' = Cardinality(AgentsAt("send", i)) + 1
    BY <1>2, CountGrows
  <2>2. Chance(i)' = 0
    BY <1>2 DEF Chance, Delivering
  <2>3. Bounded(i)
    BY <1>1 DEF DeliveryInv
  <2>4. mishaps'[i] >= mishaps[i] + 1 - Chance(i)
    <3>1. mishaps[i] \in Nat
      BY <1>1
    <3>2. CASE \E b \in Agents : Delivering(b, i)
      BY <1>1, <3>1, <3>2 DEF TakeCopy, Add, Chance
    <3>3. CASE \A b \in Agents : ~Delivering(b, i)
      BY <1>1, <3>1, <3>3 DEF TakeCopy, Chance
    <3> QED BY <3>2, <3>3
  <2>5. mishaps'[i] \in Nat
    BY <1>1 DEF TakeCopy, Add
  <2> QED BY <1>1, <2>1, <2>2, <2>3, <2>4, <2>5, DeliveryNumbers DEF Bounded
<1>5. ASSUME NEW id \in Ids, id # i PROVE Bounded(id)'
  <2>1. \A b \in Agents : \A w \in {"send", "delete"} :
            pc'[b] = w /\ held'[b] = id <=> pc[b] = w /\ held[b] = id
    BY <1>2, <1>5
  <2> QED BY <1>1, <1>3, <1>5, <2>1, BoundElsewhere DEF DeliveryInv
<1> QED BY <1>4, <1>5 DEF DeliveryInv

LEMMA DeliveryInserted ==
    ASSUME TypeOK, DeliveryInv, NEW s \in Senders, Insert(s)
    PROVE  DeliveryInv'
<1>1. /\ nextId' = nextId + 1 /\ Stored' = Stored \cup {nextId}
      /\ UNCHANGED <<accepted, mishaps, pc, held>>
  BY DEF Insert, agentVars, deliveryHistory, Stored
<1>2. nextId \in Ids /\ nextId \in Nat
  BY BoundAssumption DEF Insert, TypeOK, TableType, Ids
<1>3. ASSUME NEW id \in Ids, id # nextId PROVE Bounded(id)'
  BY <1>1, <1>3, BoundElsewhere DEF DeliveryInv
<1>4. ASSUME NEW id \in Ids, id = nextId PROVE Bounded(id)'
  <2>1. \A b \in Agents : held'[b] # id
    BY <1>1, <1>2, <1>4 DEF TypeOK, AgentType
  <2>2. AgentsAt("send", id)' = {}
    BY <2>1 DEF AgentsAt
  <2>3. Cardinality(AgentsAt("send", id))' = 0
    BY <2>2, FS_EmptySet
  <2>4. accepted'[id] = 0 /\ mishaps'[id] \in Nat
    BY <1>1, <1>2, <1>4, DeliveryNumbers DEF DeliveryInv
  <2> QED BY <2>3, <2>4, DeliveryNumbers DEF Bounded
<1>5. \A id \in Ids : id >= nextId' => accepted'[id] = 0
  BY <1>1, <1>2 DEF DeliveryInv, Ids
<1> QED BY <1>3, <1>4, <1>5 DEF DeliveryInv

\* Whoever was sending may have been lucky; whoever was removing is a mishap.
LEMMA DeliveryCrashed ==
    ASSUME TypeOK, DeliveryInv, Crash
    PROVE  DeliveryInv'
<1>1. /\ accepted' = accepted /\ nextId' = nextId /\ Stored' = Stored
      /\ mishaps' = [id \in Ids |-> mishaps[id] + Cardinality(AgentsAt("delete", id))]
  BY DEF Crash, storeVars, Stored
<1>2. \A b \in Agents : pc'[b] \notin {"send", "delete"}
  BY DEF Crash, StartOf
<1>3. ASSUME NEW id \in Ids PROVE Bounded(id)'
  <2>1. AgentsAt("send", id)' = {}
    BY <1>2 DEF AgentsAt
  <2>2. Cardinality(AgentsAt("send", id))' = 0
    BY <2>1, FS_EmptySet
  <2>3. /\ Cardinality(AgentsAt("delete", id)) \in Nat
        /\ Cardinality(AgentsAt("send", id)) \in Nat
    BY AgentsAtType
  <2>4. Chance(id)' <= Chance(id) + Cardinality(AgentsAt("send", id))
                       + Cardinality(AgentsAt("delete", id))
    <3>1. CASE \A b \in Agents : ~Delivering(b, id)
      <4>1. Chance(id)' <= Chance(id)
        BY <1>1, <3>1 DEF Chance
      <4> QED BY <2>3, <4>1, DeliveryNumbers
    <3>2. CASE \E b \in Agents : Delivering(b, id)
      <4>1. AgentsAt("send", id) # {} \/ AgentsAt("delete", id) # {}
        BY <3>2 DEF Delivering, AgentsAt
      <4>2. \/ Cardinality(AgentsAt("send", id)) # 0
            \/ Cardinality(AgentsAt("delete", id)) # 0
        BY <4>1, AgentsAtType, FS_EmptySet
      <4> QED BY <2>3, <4>2, DeliveryNumbers
    <3> QED BY <3>1, <3>2
  <2>5. accepted'[id] = accepted[id]
        /\ mishaps'[id] = mishaps[id] + Cardinality(AgentsAt("delete", id))
    BY <1>1
  <2> QED BY <2>2, <2>3, <2>4, <2>5, DeliveryNumbers DEF DeliveryInv, Bounded
<1> QED BY <1>1, <1>3 DEF DeliveryInv

\* Agent a leaves its send for the record or gives up; whatever the target did,
\* the row may be sent again, and an acceptance nobody noticed is a mishap.
LEMMA SendEnds ==
    ASSUME TypeOK, DeliveryInv, NEW a \in Agents, pc[a] = "send",
           NEW where, where # "send", MoveTo(a, where),
           NEW h, held' = [held EXCEPT ![a] = h],
           UNCHANGED <<webhooks, nextId>>,
           accepted' \in {accepted, Add(accepted, held[a])},
           mishaps' \in {mishaps, Add(mishaps, held[a])},
           where # "delete" /\ accepted' # accepted => mishaps' = Add(mishaps, held[a]),
           where = "delete" => h = held[a] /\ accepted' = Add(accepted, held[a])
    PROVE  DeliveryInv'
<1>0. PICK i : i = held[a]
  OBVIOUS
<1>1. /\ i \in Ids /\ pc \in [Agents -> Places] /\ held \in [Agents -> 0..(nextId - 1)]
  BY <1>0, AttemptFacts DEF Attempting
<1>2. /\ pc'[a] = where /\ held'[a] = h
      /\ \A b \in Agents \ {a} : pc'[b] = pc[b] /\ held'[b] = held[b]
  BY <1>1 DEF MoveTo
<1>3. Cardinality(AgentsAt("send", i))' = Cardinality(AgentsAt("send", i)) - 1
  BY <1>0, <1>2, CountShrinks
<1>4. Chance(i)' \in 0..1 /\ (where = "delete" => Chance(i)' = 0)
  BY <1>0, <1>2 DEF Chance, Delivering
<1>5. \/ accepted'[i] = accepted[i] /\ mishaps'[i] \in {mishaps[i], mishaps[i] + 1}
      \/ accepted'[i] = accepted[i] + 1 /\ mishaps'[i] = mishaps[i] + 1
      \/ accepted'[i] = accepted[i] + 1 /\ mishaps'[i] = mishaps[i] /\ Chance(i)' = 0
  <2>1. /\ Add(accepted, held[a])[i] = accepted[i] + 1
        /\ Add(mishaps, held[a])[i] = mishaps[i] + 1
    BY <1>0, <1>1, DeliveryNumbers DEF Add
  <2>2. CASE accepted' = accepted
    BY <2>1, <2>2
  <2>3. CASE accepted' # accepted /\ where # "delete"
    BY <2>1, <2>3
  <2>4. CASE where = "delete"
    <3>1. accepted'[i] = accepted[i] + 1 /\ Chance(i)' = 0
      BY <1>4, <2>1, <2>4
    <3>2. mishaps'[i] = mishaps[i] \/ mishaps'[i] = mishaps[i] + 1
      BY <2>1
    <3> QED BY <3>1, <3>2
  <2> QED BY <2>2, <2>3, <2>4
<1>6. accepted[i] + Cardinality(AgentsAt("send", i)) + Chance(i) <= 1 + mishaps[i]
  BY <1>1 DEF DeliveryInv, Bounded
<1>7. accepted'[i] + Cardinality(AgentsAt("send", i))' + Chance(i)' <= 1 + mishaps'[i]
  BY <1>1, <1>3, <1>4, <1>5, <1>6, DeliveryNumbers
<1>8. /\ pc[a] \in {"send", "delete"} /\ Stored' \subseteq Stored
      /\ accepted' \in {accepted, Add(accepted, i)}
      /\ mishaps' \in {mishaps, Add(mishaps, i)}
      /\ where = "delete" => h = i /\ pc[a] = "send"
  BY <1>0 DEF Stored
<1>9. CASE where # "delete"
  BY <1>0, <1>7, <1>8, <1>9, DeliveryEnds
<1>10. CASE where = "delete"
  <2>1. MoveTo(a, "delete") /\ held' = [held EXCEPT ![a] = i]
    BY <1>8, <1>10
  <2>2. "delete" # "send"
    OBVIOUS
  <2> QED BY <1>0, <1>7, <1>8, <2>1, <2>2, DeliveryEnds
<1> QED BY <1>9, <1>10

\* Agent a leaves the removal: the row is gone, or it is a mishap.
LEMMA RemovalEnds ==
    ASSUME TypeOK, DeliveryInv, NEW a \in Agents, pc[a] = "delete",
           NEW where, where \notin {"send", "delete"}, MoveTo(a, where),
           NEW h, held' = [held EXCEPT ![a] = h],
           UNCHANGED <<accepted, nextId>>,
           \/ webhooks' = Without({held[a]}) /\ mishaps' = mishaps
           \/ webhooks' = webhooks /\ mishaps' = Add(mishaps, held[a])
    PROVE  DeliveryInv'
<1>0. PICK i : i = held[a]
  OBVIOUS
<1>1. /\ i \in Ids /\ pc \in [Agents -> Places] /\ held \in [Agents -> 0..(nextId - 1)]
  BY <1>0, AttemptFacts DEF Attempting
<1>2. \A b \in Agents : pc'[b] = "send" /\ held'[b] = i <=> pc[b] = "send" /\ held[b] = i
  BY <1>1 DEF MoveTo
<1>3. AgentsAt("send", i)' = AgentsAt("send", i)
  BY <1>2, CountStays
<1>4. Stored' \subseteq Stored
  BY DEF Without, Stored
<1>5. \/ Chance(i)' = 0 /\ mishaps'[i] = mishaps[i]
      \/ Chance(i)' \in 0..1 /\ mishaps'[i] = mishaps[i] + 1
  <2>1. CASE webhooks' = Without({held[a]}) /\ mishaps' = mishaps
    <3>1. i \notin Stored'
      BY <1>0, <2>1 DEF Without, Stored
    <3> QED BY <2>1, <3>1 DEF Chance
  <2>2. CASE mishaps' = Add(mishaps, held[a])
    BY <1>0, <1>1, <2>2, DeliveryNumbers DEF Add
  <2> QED BY <2>1, <2>2
<1>6. accepted[i] + Cardinality(AgentsAt("send", i)) + Chance(i) <= 1 + mishaps[i]
  BY <1>1 DEF DeliveryInv, Bounded
<1>7. accepted'[i] + Cardinality(AgentsAt("send", i))' + Chance(i)' <= 1 + mishaps'[i]
  BY <1>1, <1>3, <1>5, <1>6, DeliveryNumbers
<1> QED BY <1>0, <1>4, <1>7, DeliveryEnds

LEMMA DeliveryAttempt ==
    ASSUME TypeOK, DeliveryInv, NEW a \in Agents, Attempt(a)
    PROVE  DeliveryInv'
<1>1. CASE TargetAccepts(a) \/ AnswerLost(a) \/ TargetRefuses(a)
  <2>1. held' = [held EXCEPT ![a] = held[a]]
    BY <1>1 DEF TargetAccepts, AnswerLost, TargetRefuses, TypeOK, AgentType
  <2>2. ASSUME TargetAccepts(a) PROVE DeliveryInv'
    BY <2>1, <2>2, SendEnds DEF TargetAccepts, storeVars
  <2>3. ASSUME AnswerLost(a) PROVE DeliveryInv'
    BY <2>1, <2>3, SendEnds DEF AnswerLost, storeVars
  <2>4. ASSUME TargetRefuses(a) PROVE DeliveryInv'
    BY <2>1, <2>4, SendEnds DEF TargetRefuses, storeVars
  <2> QED BY <1>1, <2>2, <2>3, <2>4
<1>2. CASE RemoveDelivered(a) \/ RemoveFails(a)
  <2>1. \E where \in Places \ {"send", "delete"} : MoveTo(a, where)
    BY <1>2 DEF RemoveDelivered, RemoveFails, EndAttempt, StartOf, Places
  <2>2. held' = [held EXCEPT ![a] = IF a \in ForwardChannels THEN held[a] ELSE 0]
    BY <1>2 DEF RemoveDelivered, RemoveFails, EndAttempt
  <2> QED BY <1>2, <2>1, <2>2, RemovalEnds
          DEF RemoveDelivered, RemoveFails, storeVars, deliveryHistory
<1>3. CASE RecordFailure(a) \/ RecordFails(a)
  <2>1. \E where \in Places \ {"send", "delete"} : MoveTo(a, where)
    BY <1>3 DEF RecordFailure, RecordFails, LeaveRecord, EndAttempt, Places, Attempting
  <2>2. held' = [held EXCEPT ![a] = IF a \in ForwardChannels THEN held[a] ELSE 0]
    BY <1>3 DEF RecordFailure, RecordFails, LeaveRecord, EndAttempt, TypeOK, AgentType
  <2>3. Stored' = Stored
    BY <1>3 DEF RecordFailure, RecordFails, storeVars, Stored
  <2> QED BY <1>3, <2>1, <2>2, <2>3, DeliveryKeptByMove
          DEF RecordFailure, RecordFails, storeVars
<1> QED BY <1>1, <1>2, <1>3 DEF Attempt

LEMMA DeliveryStep == TypeOK /\ DeliveryInv /\ [Next]_vars => DeliveryInv'
<1> SUFFICES ASSUME TypeOK, DeliveryInv, [Next]_vars PROVE DeliveryInv'
  OBVIOUS
<1>1. ASSUME UNCHANGED <<nextId, pc, held, accepted, mishaps>>,
             \/ Stored' = Stored
             \/ \E S : webhooks' = Without(S)
      PROVE  DeliveryInv'
  <2>1. Stored' \subseteq Stored
    BY <1>1 DEF Without, Stored
  <2> QED BY <1>1, <2>1, DeliveryKept
<1>2. ASSUME NEW c \in ForwardChannels, Forwarder(c) PROVE DeliveryInv'
  <2>1. c \in Agents
    BY DEF Agents
  <2>2. CASE CheckPause(c) \/ PeekNothing(c) \/ PeekFails(c) \/ Report(c)
    <3>1. /\ pc[c] \notin {"send", "delete"}
          /\ \E where \in Places \ {"send", "delete"} : MoveTo(c, where)
          /\ held' = [held EXCEPT ![c] = held[c]]
      BY <2>2 DEF CheckPause, PeekNothing, PeekFails, Report, EndAttempt, Places, TypeOK,
         AgentType
    <3> QED BY <2>1, <2>2, <3>1, DeliveryKeptByMove
            DEF CheckPause, PeekNothing, PeekFails, Report, storeVars, deliveryHistory, Stored
  <2>3. CASE PeekDue(c)
    <3>1. PICK id \in Due(c) : TakeCopy(c, id)
      BY <2>3 DEF PeekDue
    <3>2. id \in Stored
      BY DEF Due, RowsOf
    <3> QED BY <2>1, <2>3, <3>1, <3>2, DeliveryBegins DEF PeekDue, storeVars
  <2>4. CASE Wake(c)
    BY <2>1, <2>4, DeliveryKeptByMove DEF Wake, storeVars, deliveryHistory, Stored
  <2> QED BY <1>2, <2>1, <2>2, <2>3, <2>4, DeliveryAttempt DEF Forwarder
<1>3. ASSUME NEW o \in Retriers, Retrier(o) PROVE DeliveryInv'
  <2>1. o \in Agents /\ o \notin ForwardChannels
    BY ChannelAssumption DEF Agents
  <2>2. ASSUME NEW c \in ForwardChannels, NEW id \in Ids, RetryLoad(o, c, id)
        PROVE  DeliveryInv'
    <3>1. id \in Stored /\ pc[o] \notin {"send", "delete"}
      BY <2>2 DEF RetryLoad, RowsOf
    <3> QED BY <2>1, <2>2, <3>1, DeliveryBegins DEF RetryLoad, storeVars
  <2>3. CASE RetryAbandoned(o)
    <3>1. /\ MoveTo(o, "idle") /\ held' = [held EXCEPT ![o] = 0]
          /\ UNCHANGED <<webhooks, nextId, accepted>>
          /\ pc[o] \in Attempting /\ pc[o] # "report"
      BY <2>1, <2>3 DEF RetryAbandoned, EndAttempt, storeVars, TypeOK, AgentType
    <3>2. CASE pc[o] = "send"
      <4>1. mishaps' = mishaps
        BY <2>3, <3>2 DEF RetryAbandoned
      <4>2. /\ accepted' \in {accepted, Add(accepted, held[o])}
            /\ mishaps' \in {mishaps, Add(mishaps, held[o])}
            /\ accepted' = accepted /\ UNCHANGED <<webhooks, nextId>>
            /\ "idle" # "send" /\ "idle" # "delete"
        BY <3>1, <4>1
      <4> HIDE <2>3
      <4> QED BY <2>1, <3>1, <3>2, <4>2, SendEnds
    <3>3. CASE pc[o] = "delete"
      <4>1. mishaps' = Add(mishaps, held[o])
        BY <2>3, <3>3 DEF RetryAbandoned
      <4> QED BY <2>1, <3>1, <3>3, <4>1, RemovalEnds
    <3>4. CASE pc[o] = "record"
      <4>1. mishaps' = mishaps
        BY <2>3, <3>4 DEF RetryAbandoned
      <4> QED BY <2>1, <3>1, <3>4, <4>1, DeliveryKeptByMove DEF Stored
    <3> QED BY <3>1, <3>2, <3>3, <3>4 DEF Attempting
  <2> QED BY <1>3, <2>1, <2>2, <2>3, DeliveryAttempt DEF Retrier
<1>4. ASSUME NEW s \in Senders, Receiver(s) PROVE DeliveryInv'
  BY <1>1, <1>4, DeliveryInserted
     DEF Receiver, ReceiveBegin, ReceiveFails, storeVars, agentVars, deliveryHistory, Stored
<1>5. ASSUME NEW p \in Pollers, Poller(p) PROVE DeliveryInv'
  BY <1>1, <1>5 DEF Poller, PollTakes, PollAnswered, PollUnanswered, storeVars,
     agentVars, deliveryHistory, Stored
<1>6. CASE Operator
  BY <1>1, <1>6 DEF Operator, Delete, Clear, Pause, Resume, storeVars, agentVars,
     deliveryHistory, Stored
<1>7. ASSUME NEW id \in Ids, DelayElapses(id) PROVE DeliveryInv'
  BY <1>1, <1>7 DEF DelayElapses, Stored, agentVars, deliveryHistory
<1>8. CASE ClockTick \/ UNCHANGED vars
  BY <1>1, <1>8 DEF ClockTick, vars, storeVars, agentVars, deliveryHistory, Stored
<1> QED
  BY <1>2, <1>3, <1>4, <1>5, <1>6, <1>7, <1>8, DeliveryCrashed DEF Next

\* The target accepts a webhook twice only after a lost answer, a removal that
\* failed or was cut off, or two deliveries that overlapped (the code's promise
\* of at-least-once delivery, said exactly).
THEOREM NoUnexplainedDuplicate == Spec => []DuplicatesExplained
<1>1. Init => DeliveryInv
  <2> SUFFICES ASSUME Init, NEW id \in Ids PROVE Bounded(id) /\ accepted[id] = 0
    BY DEF DeliveryInv
  <2>1. \A b \in Agents : pc[b] # "send"
    BY DEF Init, StartOf
  <2>2. AgentsAt("send", id) = {}
    BY <2>1 DEF AgentsAt
  <2>3. Cardinality(AgentsAt("send", id)) = 0
    BY <2>2, FS_EmptySet
  <2>4. Chance(id) = 0 /\ accepted[id] = 0 /\ mishaps[id] = 0
    BY DEF Init, Chance, Stored
  <2> QED BY <2>3, <2>4 DEF Bounded
<1>2. TypeOK /\ DeliveryInv => DuplicatesExplained
  <2> SUFFICES ASSUME TypeOK, DeliveryInv, NEW id \in Ids
               PROVE  accepted[id] <= 1 + mishaps[id]
    BY DEF DuplicatesExplained
  <2> QED BY DeliveryNumbers DEF DeliveryInv, Bounded
<1> QED BY <1>1, <1>2, TypeCorrect, DeliveryStep, PTL DEF Spec

-----------------------------------------------------------------------------
(* Reports. *)

\* A forwarder works on rows of its own channel, with a copy that is not ahead
\* of the row; so no two forwarders work on one webhook.
OwnCopies ==
    \A c \in ForwardChannels :
        pc[c] \in Attempting /\ held[c] \in Stored =>
            /\ webhooks[held[c]].channel = c
            /\ seen[c] <= webhooks[held[c]].forward_attempts

OneForwarder ==
    \A c, d \in ForwardChannels :
        pc[c] \in Attempting /\ pc[d] \in Attempting /\ held[c] = held[d] => c = d

\* A failure that crosses the threshold is still to be expected: the row, or the
\* copy its forwarder works with, is below the threshold.
MayReport(id) ==
    \/ id \in Stored /\ webhooks[id].forward_attempts < StuckThreshold
    \/ \E c \in ForwardChannels :
           /\ pc[c] \in Attempting /\ pc[c] # "report"
           /\ held[c] = id /\ seen[c] < StuckThreshold

\* It has crossed the threshold, and its forwarder is about to say so.
Pending(id) == \E c \in ForwardChannels : AboutToReport(c, id)

One(b) == IF b THEN 1 ELSE 0

Reported(id) ==
    reports[id] + One(Pending(id)) + One(MayReport(id)) <= 1 + unrecorded[id]

ReportInv ==
    /\ OwnCopies
    /\ OneForwarder
    /\ \A id \in Ids : Reported(id)
    /\ \A id \in Ids : id >= nextId => reports[id] = 0

LEMMA ReportNumbers ==
    ASSUME TypeOK, TypeOK', NEW id \in Ids
    PROVE  /\ reports[id] \in Nat /\ unrecorded[id] \in Nat
           /\ reports'[id] \in Nat /\ unrecorded'[id] \in Nat
           /\ reports \in [Ids -> Nat] /\ unrecorded \in [Ids -> Nat]
           /\ seen \in [Agents -> Nat] /\ StuckThreshold \in Nat
           /\ \A i \in Stored : webhooks[i].forward_attempts \in Nat
           /\ \A i \in Stored' : webhooks'[i].forward_attempts \in Nat
<1>1. \A i \in Stored : webhooks[i] \in Row
  BY DEF TypeOK, TableType
<1>2. \A i \in Stored' : webhooks'[i] \in Row
  BY DEF TypeOK, TableType
<1>3. StuckThreshold \in Nat
  BY BoundAssumption
<1>4. /\ \A i \in Stored : webhooks[i].forward_attempts \in Nat
      /\ \A i \in Stored' : webhooks'[i].forward_attempts \in Nat
  BY <1>1, <1>2 DEF Row
<1>5. DeliveryType /\ DeliveryType' /\ seen \in [Agents -> Nat]
  BY DEF TypeOK, AgentType
<1> QED BY <1>3, <1>4, <1>5 DEF DeliveryType

\* No forwarder takes up a webhook, no counter falls, and nothing is reported.
LEMMA ReportKept ==
    ASSUME TypeOK, TypeOK', ReportInv, UNCHANGED <<nextId, reports>>,
           \A id \in Ids : unrecorded'[id] >= unrecorded[id],
           Stored' \subseteq Stored,
           \A id \in Stored' :
               /\ webhooks'[id].channel = webhooks[id].channel
               /\ webhooks'[id].forward_attempts >= webhooks[id].forward_attempts,
           \A c \in ForwardChannels :
               pc'[c] \in Attempting =>
                   /\ pc[c] \in Attempting /\ held'[c] = held[c] /\ seen'[c] = seen[c]
                   /\ pc'[c] = "report" <=> pc[c] = "report"
    PROVE  ReportInv'
<1>1. OneForwarder'
  BY DEF ReportInv, OneForwarder
<1>2. OwnCopies'
  <2> SUFFICES ASSUME NEW c \in ForwardChannels, pc'[c] \in Attempting, held'[c] \in Stored'
               PROVE  /\ webhooks'[held'[c]].channel = c
                      /\ seen'[c] <= webhooks'[held'[c]].forward_attempts
    BY DEF OwnCopies
  <2>1. /\ held[c] \in Stored /\ held[c] \in Stored' /\ c \in Agents
        /\ webhooks[held[c]].channel = c
        /\ seen[c] <= webhooks[held[c]].forward_attempts
    BY DEF ReportInv, OwnCopies, Agents
  <2>2. held[c] \in Ids
    <3>1. nextId \in 1..(MaxWebhooks + 1) /\ held[c] \in 1..(nextId - 1)
      BY <2>1 DEF TypeOK, TableType
    <3>2. MaxWebhooks \in Nat
      BY BoundAssumption
    <3> QED BY <3>1, <3>2 DEF Ids
  <2>3. /\ seen[c] \in Nat /\ webhooks[held[c]].forward_attempts \in Nat
        /\ webhooks'[held[c]].forward_attempts \in Nat
    BY <2>1, <2>2, ReportNumbers
  <2>4. /\ held'[c] = held[c] /\ seen'[c] = seen[c]
        /\ webhooks'[held[c]].channel = webhooks[held[c]].channel
        /\ webhooks'[held[c]].forward_attempts >= webhooks[held[c]].forward_attempts
    BY <2>1
  <2> QED BY <2>1, <2>3, <2>4
<1>3. ASSUME NEW id \in Ids PROVE Reported(id)'
  <2>1. MayReport(id)' => MayReport(id)
    BY <1>3, ReportNumbers DEF MayReport
  <2>2. Pending(id)' => Pending(id)
    BY DEF Pending, AboutToReport, CrossedStuckThreshold, Attempting
  <2>3. Reported(id)
    BY DEF ReportInv
  <2> QED BY <2>1, <2>2, <2>3, ReportNumbers DEF Reported, One
<1> QED BY <1>1, <1>2, <1>3 DEF ReportInv

\* The steps of an agent that lead neither from the record nor to the report.
LEMMA ReportKeptByMove ==
    ASSUME TypeOK, TypeOK', ReportInv, NEW a \in Agents,
           NEW where, MoveTo(a, where), where # "report",
           where \in Attempting => pc[a] \in Attempting /\ pc[a] # "report",
           NEW h, held' = [held EXCEPT ![a] = h], where \in Attempting => h = held[a],
           NEW n, seen' = [seen EXCEPT ![a] = n], where \in Attempting => n = seen[a],
           UNCHANGED <<nextId, reports>>, unrecorded' \in {unrecorded, Add(unrecorded, held[a])},
           webhooks' = webhooks \/ \E S : webhooks' = Without(S)
    PROVE  ReportInv'
<1>1. /\ pc \in [Agents -> Places] /\ held \in [Agents -> 0..(nextId - 1)]
      /\ seen \in [Agents -> Nat] /\ ForwardChannels \subseteq Agents
      /\ unrecorded \in [Ids -> Nat]
  BY DEF TypeOK, AgentType, DeliveryType, Agents
<1>2. \A id \in Ids : unrecorded'[id] >= unrecorded[id]
  <2>1. \A id \in Ids : Add(unrecorded, held[a])[id] \in {unrecorded[id], unrecorded[id] + 1}
    BY <1>1 DEF Add
  <2> QED BY <1>1, <2>1
<1>3. \A c \in ForwardChannels :
          pc'[c] \in Attempting =>
              /\ pc[c] \in Attempting /\ held'[c] = held[c] /\ seen'[c] = seen[c]
              /\ pc'[c] = "report" <=> pc[c] = "report"
  BY <1>1 DEF MoveTo
<1>4. \A id \in Stored' : webhooks'[id] = webhooks[id] /\ id \in Stored
  BY DEF Without, Stored
<1>5. \A id \in Stored' :
          /\ webhooks'[id].channel = webhooks[id].channel
          /\ webhooks'[id].forward_attempts >= webhooks[id].forward_attempts
  <2> SUFFICES ASSUME NEW id \in Stored'
               PROVE  webhooks[id].forward_attempts >= webhooks[id].forward_attempts
    BY <1>4
  <2>1. webhooks[id] \in Row
    BY <1>4 DEF TypeOK, TableType
  <2> QED BY <2>1 DEF Row
<1> QED BY <1>2, <1>3, <1>4, <1>5, ReportKept

\* A forwarder takes up a webhook of its channel.
LEMMA ReportPeeked ==
    ASSUME TypeOK, TypeOK', ReportInv, NEW c \in ForwardChannels, pc[c] = "peek",
           NEW i \in Due(c), TakeCopy(c, i),
           UNCHANGED <<webhooks, nextId, reports, unrecorded>>
    PROVE  ReportInv'
<1>1. /\ pc \in [Agents -> Places] /\ held \in [Agents -> 0..(nextId - 1)]
      /\ seen \in [Agents -> Nat] /\ ForwardChannels \subseteq Agents
  BY DEF TypeOK, AgentType, Agents
<1>2. i \in Stored /\ Stored' = Stored /\ webhooks[i].channel = c
  BY DEF Due, RowsOf, Stored
<1>3. /\ pc'[c] = "send" /\ held'[c] = i /\ seen'[c] = webhooks[i].forward_attempts
      /\ \A d \in ForwardChannels : d # c =>
             pc'[d] = pc[d] /\ held'[d] = held[d] /\ seen'[d] = seen[d]
      /\ pc[c] \notin Attempting
  BY <1>1 DEF TakeCopy, MoveTo, Attempting
<1>4. \A d \in ForwardChannels : d # c /\ pc[d] \in Attempting => held[d] # i
  BY <1>2 DEF ReportInv, OwnCopies
<1>5. OneForwarder'
  BY <1>3, <1>4 DEF ReportInv, OneForwarder
<1>6. webhooks[i].forward_attempts \in Nat
  <2>1. webhooks[i] \in Row
    BY <1>2 DEF TypeOK, TableType
  <2> QED BY <2>1 DEF Row
<1>7. OwnCopies'
  BY <1>2, <1>3, <1>6 DEF ReportInv, OwnCopies
<1>8. ASSUME NEW id \in Ids PROVE Reported(id)'
  <2>1. MayReport(id)' => MayReport(id)
    BY <1>2, <1>3 DEF MayReport
  <2>2. Pending(id)' => Pending(id)
    BY <1>3 DEF Pending, AboutToReport, CrossedStuckThreshold
  <2> QED BY <2>1, <2>2, ReportNumbers DEF ReportInv, Reported, One
<1> QED BY <1>5, <1>7, <1>8 DEF ReportInv

\* A forwarder has recorded a failed attempt, or failed to: what its copy may
\* still bring is settled now, and pending if it crosses the threshold.
LEMMA ReportRecorded ==
    ASSUME TypeOK, TypeOK', ReportInv, NEW c \in ForwardChannels,
           RecordFailure(c) \/ RecordFails(c)
    PROVE  ReportInv'
<1>0. PICK i : i = held[c]
  OBVIOUS
<1>1. /\ pc \in [Agents -> Places] /\ held \in [Agents -> 0..(nextId - 1)]
      /\ seen \in [Agents -> Nat] /\ ForwardChannels \subseteq Agents /\ c \in Agents
      /\ pc[c] = "record" /\ pc[c] \in Attempting /\ nextId' = nextId /\ nextId \in Nat
  <2>1. pc[c] = "record" /\ nextId' = nextId
    BY DEF RecordFailure, RecordFails, storeVars
  <2>2. nextId \in Nat
    BY BoundAssumption DEF TypeOK, TableType
  <2> QED BY <2>1, <2>2 DEF TypeOK, AgentType, Agents, Attempting
<1>2. i \in Ids /\ i < nextId
  BY <1>0, <1>1, AttemptFacts
<1>3. /\ pc'[c] = "report" /\ held' = held /\ seen' = seen /\ reports' = reports
      /\ \A d \in ForwardChannels : d # c => pc'[d] = pc[d]
  BY <1>1 DEF RecordFailure, RecordFails, LeaveRecord, MoveTo
<1>4. /\ Stored' = Stored
      /\ \A id \in Stored : id # i => webhooks'[id] = webhooks[id]
      /\ i \in Stored => webhooks'[i].channel = webhooks[i].channel
  BY <1>0 DEF RecordFailure, RecordFails, storeVars, Stored, WithDelivery
<1>5. \/ /\ unrecorded' = unrecorded
         /\ i \in Stored => webhooks'[i].forward_attempts = webhooks[i].forward_attempts + 1
      \/ unrecorded' = Add(unrecorded, i) /\ webhooks' = webhooks
  BY <1>0 DEF RecordFailure, RecordFails, storeVars, Stored, WithDelivery
<1>6. \A id \in Stored :
          /\ webhooks'[id].channel = webhooks[id].channel
          /\ webhooks'[id].forward_attempts >= webhooks[id].forward_attempts
  BY <1>2, <1>4, <1>5, ReportNumbers
<1>7. OneForwarder'
  BY <1>1, <1>3 DEF ReportInv, OneForwarder
<1>8. OwnCopies'
  <2> SUFFICES ASSUME NEW d \in ForwardChannels, pc'[d] \in Attempting, held'[d] \in Stored'
               PROVE  /\ webhooks'[held'[d]].channel = d
                      /\ seen'[d] <= webhooks'[held'[d]].forward_attempts
    BY DEF OwnCopies
  <2>1. /\ d \in Agents /\ held[d] \in Stored /\ held'[d] = held[d] /\ seen'[d] = seen[d]
        /\ webhooks[held[d]].channel = d
        /\ seen[d] <= webhooks[held[d]].forward_attempts
    BY <1>1, <1>3, <1>4 DEF ReportInv, OwnCopies
  <2> QED BY <1>2, <1>4, <1>6, <2>1, ReportNumbers
<1>9. ASSUME NEW id \in Ids, id # i PROVE Reported(id)'
  <2>1. MayReport(id)' => MayReport(id)
    BY <1>0, <1>3, <1>4, <1>9 DEF MayReport
  <2>2. Pending(id)' => Pending(id)
    BY <1>0, <1>3, <1>9 DEF Pending, AboutToReport, CrossedStuckThreshold
  <2>3. unrecorded'[id] = unrecorded[id]
    BY <1>5, <1>9, ReportNumbers DEF Add
  <2> QED BY <1>3, <2>1, <2>2, <2>3, ReportNumbers DEF ReportInv, Reported, One
<1>10. MayReport(i)' => MayReport(i)
  BY <1>2, <1>3, <1>4, <1>6, ReportNumbers DEF MayReport
<1>11. ~Pending(i)
  BY <1>0, <1>1 DEF ReportInv, OneForwarder, Pending, AboutToReport, Attempting
<1>12. unrecorded'[i] >= unrecorded[i]
  BY <1>2, <1>5, ReportNumbers DEF Add
<1>13. CASE seen[c] + 1 # StuckThreshold
  <2>1. ~Pending(i)'
    BY <1>0, <1>1, <1>3, <1>13 DEF ReportInv, OneForwarder, Pending, AboutToReport,
       CrossedStuckThreshold, Attempting
  <2>2. Reported(i)'
    BY <1>2, <1>3, <1>10, <1>12, <2>1, ReportNumbers DEF ReportInv, Reported, One
  <2> QED BY <1>1, <1>3, <1>7, <1>8, <1>9, <2>2 DEF ReportInv
<1>14. CASE seen[c] + 1 = StuckThreshold
  <2>1. MayReport(i)
    <3>1. seen[c] < StuckThreshold
      BY <1>1, <1>2, <1>14, ReportNumbers
    <3> QED BY <1>0, <1>1, <3>1 DEF MayReport
  <2>2. MayReport(i)' => unrecorded'[i] = unrecorded[i] + 1
    <3> SUFFICES ASSUME MayReport(i)', unrecorded' = unrecorded,
                        i \in Stored => webhooks'[i].forward_attempts
                                            = webhooks[i].forward_attempts + 1
                 PROVE  FALSE
      BY <1>2, <1>5, ReportNumbers DEF Add
    <3>1. \A d \in ForwardChannels :
              ~(pc'[d] \in Attempting /\ pc'[d] # "report" /\ held'[d] = i)
      BY <1>0, <1>1, <1>3 DEF ReportInv, OneForwarder
    <3>2. i \in Stored /\ webhooks[i].forward_attempts + 1 < StuckThreshold
      BY <1>4, <3>1 DEF MayReport
    <3>3. seen[c] <= webhooks[i].forward_attempts
      BY <1>0, <1>1, <3>2 DEF ReportInv, OwnCopies
    <3> QED BY <1>1, <1>2, <1>14, <3>2, <3>3, ReportNumbers
  <2>3. reports[i] + 1 <= 1 + unrecorded[i]
    BY <1>2, <1>11, <2>1, ReportNumbers DEF ReportInv, Reported, One
  <2>4. Reported(i)'
    BY <1>2, <1>3, <1>12, <2>2, <2>3, ReportNumbers DEF Reported, One
  <2> QED BY <1>1, <1>3, <1>7, <1>8, <1>9, <2>4 DEF ReportInv
<1> QED BY <1>13, <1>14

\* The pending report is made.
LEMMA ReportMade ==
    ASSUME TypeOK, TypeOK', ReportInv, NEW c \in ForwardChannels, Report(c)
    PROVE  ReportInv'
<1>0. PICK i : i = held[c]
  OBVIOUS
<1>1. /\ pc \in [Agents -> Places] /\ held \in [Agents -> 0..(nextId - 1)]
      /\ seen \in [Agents -> Nat] /\ ForwardChannels \subseteq Agents /\ c \in Agents
      /\ pc[c] = "report" /\ pc[c] \in Attempting
      /\ UNCHANGED <<webhooks, nextId, unrecorded>> /\ Stored' = Stored /\ nextId \in Nat
  BY BoundAssumption DEF Report, TypeOK, AgentType, TableType, Agents, Attempting, storeVars,
     Stored
<1>2. i \in Ids /\ i < nextId
  BY <1>0, <1>1, AttemptFacts
<1>3. /\ pc'[c] \notin Attempting
      /\ \A d \in ForwardChannels : d # c =>
             pc'[d] = pc[d] /\ held'[d] = held[d] /\ seen'[d] = seen[d]
  BY <1>1 DEF Report, EndAttempt, MoveTo, Attempting
<1>4. OneForwarder'
  BY <1>3 DEF ReportInv, OneForwarder
<1>5. OwnCopies'
  BY <1>1, <1>3 DEF ReportInv, OwnCopies
<1>6. \A id \in Ids : MayReport(id)' => MayReport(id)
  BY <1>1, <1>3 DEF MayReport
<1>7. \A id \in Ids : Pending(id)' => Pending(id)
  BY <1>1, <1>3 DEF Pending, AboutToReport, CrossedStuckThreshold, Attempting
<1>8. ~Pending(i)'
  BY <1>0, <1>1, <1>3 DEF ReportInv, OneForwarder, Pending, AboutToReport, Attempting
<1>9. CASE AboutToReport(c, i)
  <2>1. reports' = Add(reports, i)
    BY <1>0, <1>9 DEF Report
  <2>2. /\ reports'[i] = reports[i] + 1
        /\ \A id \in Ids : id # i => reports'[id] = reports[id]
    BY <1>2, <2>1, ReportNumbers DEF Add
  <2>3. Pending(i)
    BY <1>9 DEF Pending
  <2>4. Reported(i)'
    BY <1>1, <1>2, <1>6, <1>8, <2>2, <2>3, ReportNumbers DEF ReportInv, Reported, One
  <2>5. ASSUME NEW id \in Ids, id # i PROVE Reported(id)'
    BY <1>1, <1>6, <1>7, <2>2, <2>5, ReportNumbers DEF ReportInv, Reported, One
  <2>6. \A id \in Ids : id >= nextId => reports'[id] = 0
    BY <1>1, <1>2, <2>2 DEF ReportInv, Ids
  <2> QED BY <1>1, <1>4, <1>5, <2>4, <2>5, <2>6 DEF ReportInv
<1>10. CASE ~AboutToReport(c, i)
  <2>1. reports' = reports
    BY <1>0, <1>10 DEF Report
  <2>2. ASSUME NEW id \in Ids PROVE Reported(id)'
    BY <1>1, <1>6, <1>7, <2>1, ReportNumbers DEF ReportInv, Reported, One
  <2> QED BY <1>1, <1>4, <1>5, <2>1, <2>2 DEF ReportInv
<1> QED BY <1>9, <1>10

LEMMA ReportInserted ==
    ASSUME TypeOK, TypeOK', ReportInv, NEW s \in Senders, Insert(s)
    PROVE  ReportInv'
<1>1. /\ nextId' = nextId + 1 /\ Stored' = Stored \cup {nextId}
      /\ \A id \in Stored : id # nextId => webhooks'[id] = webhooks[id]
      /\ UNCHANGED <<pc, held, seen, reports, unrecorded>>
  BY DEF Insert, agentVars, deliveryHistory, Stored
<1>2. nextId \in Ids /\ nextId \in Nat /\ nextId \notin Stored
  BY BoundAssumption DEF Insert, TypeOK, TableType, Ids
<1>3. \A c \in ForwardChannels : held[c] # nextId
  BY <1>2 DEF TypeOK, AgentType, Agents
<1>4. OneForwarder'
  BY <1>1 DEF ReportInv, OneForwarder
<1>5. OwnCopies'
  BY <1>1, <1>2, <1>3 DEF ReportInv, OwnCopies
<1>6. ASSUME NEW id \in Ids PROVE Reported(id)'
  <2>1. CASE id = nextId
    <3>1. reports'[id] = 0
      BY <1>1, <1>2, <2>1 DEF ReportInv
    <3>2. ~Pending(id)'
      BY <1>1, <1>3, <2>1 DEF Pending, AboutToReport
    <3> QED BY <3>1, <3>2, ReportNumbers DEF Reported, One
  <2>2. CASE id # nextId
    <3>1. MayReport(id)' => MayReport(id)
      BY <1>1, <2>2 DEF MayReport
    <3>2. Pending(id)' => Pending(id)
      BY <1>1 DEF Pending, AboutToReport, CrossedStuckThreshold
    <3> QED BY <1>1, <3>1, <3>2, ReportNumbers DEF ReportInv, Reported, One
  <2> QED BY <2>1, <2>2
<1>7. \A id \in Ids : id >= nextId' => reports'[id] = 0
  BY <1>1, <1>2 DEF ReportInv, Ids
<1> QED BY <1>4, <1>5, <1>6, <1>7 DEF ReportInv

LEMMA ReportAttempt ==
    ASSUME TypeOK, TypeOK', ReportInv, NEW a \in Agents, Attempt(a)
    PROVE  ReportInv'
<1>1. CASE TargetAccepts(a) \/ AnswerLost(a) \/ TargetRefuses(a)
  <2>1. /\ held' = [held EXCEPT ![a] = held[a]] /\ seen' = [seen EXCEPT ![a] = seen[a]]
        /\ \E where \in Attempting \ {"report"} : MoveTo(a, where)
        /\ pc[a] \in Attempting /\ pc[a] # "report"
        /\ UNCHANGED <<webhooks, nextId, reports, unrecorded>>
    BY <1>1 DEF TargetAccepts, AnswerLost, TargetRefuses, TypeOK, AgentType, Attempting, storeVars
  <2> QED BY <2>1, ReportKeptByMove
<1>2. CASE RemoveDelivered(a) \/ RemoveFails(a)
  <2>1. /\ held' = [held EXCEPT ![a] = IF a \in ForwardChannels THEN held[a] ELSE 0]
        /\ seen' = [seen EXCEPT ![a] = 0]
        /\ \E where \in Places \ Attempting : MoveTo(a, where)
        /\ UNCHANGED <<nextId, reports, unrecorded>>
        /\ webhooks' = webhooks \/ \E S : webhooks' = Without(S)
    BY <1>2 DEF RemoveDelivered, RemoveFails, EndAttempt, StartOf, Places, Attempting,
       storeVars, deliveryHistory
  <2>2. "report" \in Attempting
    BY DEF Attempting
  <2> QED BY <2>1, <2>2, ReportKeptByMove
<1>3. CASE a \in Retriers /\ (RecordFailure(a) \/ RecordFails(a))
  <2>0. a \notin ForwardChannels
    BY <1>3, ChannelAssumption
  <2>1. \A c \in ForwardChannels :
            pc'[c] = pc[c] /\ held'[c] = held[c] /\ seen'[c] = seen[c]
    BY <1>3, <2>0 DEF RecordFailure, RecordFails, LeaveRecord, EndAttempt, MoveTo, TypeOK,
       AgentType, Agents
  <2>2. Stored' = Stored /\ UNCHANGED <<nextId, reports>>
    BY <1>3 DEF RecordFailure, RecordFails, storeVars, Stored
  <2>3. \A id \in Ids : unrecorded'[id] >= unrecorded[id]
    <3>1. unrecorded' \in {unrecorded, Add(unrecorded, held[a])}
      BY <1>3 DEF RecordFailure, RecordFails
    <3> QED BY <3>1, ReportNumbers DEF Add
  <2>4. held[a] \in Ids
    BY <1>3, AttemptFacts DEF RecordFailure, RecordFails, Attempting
  <2>5. ASSUME NEW id \in Stored
        PROVE  /\ webhooks'[id].channel = webhooks[id].channel
               /\ webhooks'[id].forward_attempts >= webhooks[id].forward_attempts
    <3>1. \/ webhooks'[id] = webhooks[id]
          \/ webhooks'[id] = WithDelivery(webhooks[id], webhooks[id].forward_attempts + 1, TRUE)
      BY <1>3 DEF RecordFailure, RecordFails, storeVars, Stored
    <3>2. webhooks[id].forward_attempts \in Nat
      BY <2>4, ReportNumbers
    <3> QED BY <3>1, <3>2 DEF WithDelivery
  <2> QED BY <2>1, <2>2, <2>3, <2>5, ReportKept
<1> QED BY <1>1, <1>2, <1>3, ReportRecorded DEF Attempt, Agents

LEMMA ReportStep == TypeOK /\ TypeOK' /\ ReportInv /\ [Next]_vars => ReportInv'
<1> SUFFICES ASSUME TypeOK, TypeOK', ReportInv, [Next]_vars PROVE ReportInv'
  OBVIOUS
<1>1. ASSUME UNCHANGED <<nextId, pc, held, seen, reports, unrecorded>>,
             webhooks' = webhooks \/ \E S : webhooks' = Without(S)
      PROVE  ReportInv'
  <2>1. \A id \in Stored' : webhooks'[id] = webhooks[id] /\ id \in Stored
    BY <1>1 DEF Without, Stored
  <2>2. \A id \in Stored : webhooks[id].forward_attempts >= webhooks[id].forward_attempts
    <3> SUFFICES ASSUME NEW id \in Stored
                 PROVE  webhooks[id].forward_attempts >= webhooks[id].forward_attempts
      OBVIOUS
    <3>1. webhooks[id] \in Row
      BY DEF TypeOK, TableType
    <3> QED BY <3>1 DEF Row
  <2>3. \A id \in Ids : unrecorded'[id] >= unrecorded[id]
    BY <1>1, ReportNumbers
  <2> QED BY <1>1, <2>1, <2>2, <2>3, ReportKept
<1>2. ASSUME NEW c \in ForwardChannels, Forwarder(c) PROVE ReportInv'
  <2>1. c \in Agents
    BY DEF Agents
  <2>2. CASE CheckPause(c) \/ PeekNothing(c) \/ PeekFails(c) \/ Wake(c)
    <3>1. /\ \E where \in Places \ Attempting : MoveTo(c, where)
          /\ "report" \in Attempting
          /\ \E h : held' = [held EXCEPT ![c] = h]
          /\ \E n : seen' = [seen EXCEPT ![c] = n]
          /\ UNCHANGED <<webhooks, nextId, reports, unrecorded>>
      <4>1. held = [held EXCEPT ![c] = held[c]] /\ seen = [seen EXCEPT ![c] = seen[c]]
        BY DEF TypeOK, AgentType
      <4> QED BY <2>2, <4>1 DEF CheckPause, PeekNothing, PeekFails, Wake, EndAttempt,
                 Places, Attempting, storeVars, deliveryHistory
    <3> QED BY <2>1, <3>1, ReportKeptByMove
  <2>3. CASE PeekDue(c)
    <3>1. PICK id \in Due(c) : TakeCopy(c, id)
      BY <2>3 DEF PeekDue
    <3> QED BY <2>3, <3>1, ReportPeeked DEF PeekDue, storeVars
  <2> QED BY <1>2, <2>1, <2>2, <2>3, ReportAttempt, ReportMade DEF Forwarder
<1>3. ASSUME NEW o \in Retriers, Retrier(o) PROVE ReportInv'
  <2>1. o \in Agents /\ o \notin ForwardChannels
    BY ChannelAssumption DEF Agents
  <2>2. ASSUME NEW c \in ForwardChannels, NEW id \in Ids,
               RetryLoad(o, c, id) \/ RetryAbandoned(o)
        PROVE  ReportInv'
    <3>1. \A d \in ForwardChannels :
              pc'[d] = pc[d] /\ held'[d] = held[d] /\ seen'[d] = seen[d]
      BY <2>1, <2>2 DEF RetryLoad, RetryAbandoned, TakeCopy, EndAttempt, MoveTo, TypeOK,
         AgentType, Agents
    <3>2. UNCHANGED <<webhooks, nextId, reports>> /\ Stored' = Stored
      BY <2>2 DEF RetryLoad, RetryAbandoned, storeVars, Stored
    <3>3. \A i \in Ids : unrecorded'[i] >= unrecorded[i]
      BY <2>2, ReportNumbers DEF RetryLoad, RetryAbandoned, Add
    <3>4. \A i \in Stored : webhooks[i].forward_attempts >= webhooks[i].forward_attempts
      BY ReportNumbers
    <3> QED BY <3>1, <3>2, <3>3, <3>4, ReportKept
  <2>3. ASSUME RetryAbandoned(o) PROVE ReportInv'
    <3>1. held' = [held EXCEPT ![o] = 0] /\ seen' = [seen EXCEPT ![o] = 0]
          /\ MoveTo(o, "idle") /\ "idle" \notin Attempting /\ "idle" # "report"
          /\ UNCHANGED <<webhooks, nextId, reports>>
          /\ unrecorded' \in {unrecorded, Add(unrecorded, held[o])}
      BY <2>1, <2>3 DEF RetryAbandoned, EndAttempt, storeVars, Attempting
    <3> QED BY <2>1, <3>1, ReportKeptByMove
  <2> QED BY <1>3, <2>1, <2>2, <2>3, ReportAttempt DEF Retrier
<1>4. ASSUME NEW s \in Senders, Receiver(s) PROVE ReportInv'
  BY <1>1, <1>4, ReportInserted
     DEF Receiver, ReceiveBegin, ReceiveFails, storeVars, agentVars, deliveryHistory
<1>5. ASSUME NEW p \in Pollers, Poller(p) PROVE ReportInv'
  BY <1>1, <1>5 DEF Poller, PollTakes, PollAnswered, PollUnanswered, storeVars,
     agentVars, deliveryHistory
<1>6. CASE Operator
  BY <1>1, <1>6 DEF Operator, Delete, Clear, Pause, Resume, storeVars, agentVars,
     deliveryHistory
<1>7. ASSUME NEW i \in Ids, DelayElapses(i) PROVE ReportInv'
  <2>1. /\ Stored' = Stored /\ UNCHANGED <<nextId, pc, held, seen, reports, unrecorded>>
        /\ \A id \in Stored :
               /\ webhooks'[id].channel = webhooks[id].channel
               /\ webhooks'[id].forward_attempts = webhooks[id].forward_attempts
    BY <1>7 DEF DelayElapses, Stored, WithDelivery, agentVars, deliveryHistory
  <2>2. /\ \A id \in Ids : unrecorded'[id] >= unrecorded[id]
        /\ \A id \in Stored :
               webhooks'[id].forward_attempts >= webhooks[id].forward_attempts
    BY <2>1, ReportNumbers
  <2> QED BY <2>1, <2>2, ReportKept
<1>8. CASE ClockTick \/ UNCHANGED vars
  BY <1>1, <1>8 DEF ClockTick, vars, storeVars, agentVars, deliveryHistory
<1>9. CASE Crash
  <2>1. /\ Stored' = Stored /\ UNCHANGED <<webhooks, nextId, reports>>
        /\ \A d \in ForwardChannels : pc'[d] \notin Attempting
    BY <1>9 DEF Crash, StartOf, Attempting, Agents, storeVars, Stored
  <2>2. \A id \in Ids : unrecorded'[id] = unrecorded[id] + Cardinality(AgentsAt("record", id))
    BY <1>9 DEF Crash
  <2>3. \A id \in Ids : unrecorded'[id] >= unrecorded[id]
    BY <2>2, AgentsAtType, ReportNumbers
  <2>4. \A id \in Stored : webhooks[id].forward_attempts >= webhooks[id].forward_attempts
    <3> SUFFICES ASSUME NEW id \in Stored
                 PROVE  webhooks[id].forward_attempts >= webhooks[id].forward_attempts
      OBVIOUS
    <3>1. webhooks[id] \in Row
      BY DEF TypeOK, TableType
    <3> QED BY <3>1 DEF Row
  <2> QED BY <2>1, <2>3, <2>4, ReportKept
<1> QED
  BY <1>2, <1>3, <1>4, <1>5, <1>6, <1>7, <1>8, <1>9 DEF Next

\* A webhook is reported as stuck twice only if a failure of it was never
\* recorded, however many manual retries raise the counter meanwhile.
THEOREM NoUnexplainedReport == Spec => []ReportsExplained
<1>1. Init => ReportInv
  BY BoundAssumption DEF Init, ReportInv, OwnCopies, OneForwarder, Reported, MayReport,
     Pending, AboutToReport, One, StartOf, Attempting, Stored, Agents
<1>2. TypeOK /\ ReportInv => ReportsExplained
  <2> SUFFICES ASSUME TypeOK, ReportInv, NEW id \in Ids
               PROVE  reports[id] <= 1 + unrecorded[id]
    BY DEF ReportsExplained
  <2>1. reports[id] \in Nat /\ unrecorded[id] \in Nat /\ Reported(id)
    BY DEF TypeOK, DeliveryType, ReportInv
  <2> QED BY <2>1 DEF Reported, One
<1> QED BY <1>1, <1>2, TypeCorrect, ReportStep, PTL DEF Spec

\* Without manual retries only its forwarder counts the failures of a webhook,
\* so until it has recorded one its copy is the row.
QuietInv ==
    /\ \A o \in Retriers : pc[o] = "idle"
    /\ \A c \in ForwardChannels :
           pc[c] \in Attempting /\ pc[c] # "report" /\ held[c] \in Stored =>
               seen[c] = webhooks[held[c]].forward_attempts
    /\ StuckIsReported

\* Nobody takes up a webhook, no counter of a row changes, and whoever is about
\* to report stays so.
LEMMA QuietKept ==
    ASSUME QuietInv, reports' = reports, silenced' = silenced, Stored' \subseteq Stored,
           \A id \in Stored' :
               webhooks'[id].forward_attempts = webhooks[id].forward_attempts,
           \A o \in Retriers : pc'[o] = "idle",
           \A c \in ForwardChannels :
               /\ pc'[c] \in Attempting =>
                      pc[c] \in Attempting /\ held'[c] = held[c] /\ seen'[c] = seen[c]
               /\ pc'[c] = "report" <=> pc[c] = "report"
    PROVE  QuietInv'
<1>1. \A c \in ForwardChannels : \A id :
          AboutToReport(c, id) => AboutToReport(c, id)'
  BY DEF AboutToReport, CrossedStuckThreshold, Attempting
<1> QED BY <1>1 DEF QuietInv, StuckIsReported

LEMMA QuietForwarder ==
    ASSUME TypeOK, TypeOK', ReportInv, QuietInv, NEW c \in ForwardChannels, Forwarder(c)
    PROVE  QuietInv'
<1>1. /\ pc \in [Agents -> Places] /\ held \in [Agents -> 0..(nextId - 1)]
      /\ seen \in [Agents -> Nat] /\ c \in Agents /\ reports \in [Ids -> Nat]
  BY DEF TypeOK, AgentType, DeliveryType, Agents
<1>2. \A o \in Retriers : pc'[o] = pc[o] /\ o \in Agents
  BY <1>1, ChannelAssumption DEF Forwarder, CheckPause, PeekDue, TakeCopy, PeekNothing,
     PeekFails, EndAttempt, Wake, Attempt, TargetAccepts, AnswerLost, TargetRefuses,
     RemoveDelivered, RemoveFails, RecordFailure, RecordFails, LeaveRecord, Report, MoveTo,
     Agents
<1>3. \A o \in Retriers : pc'[o] = "idle"
  BY <1>2 DEF QuietInv
<1>4. \A d \in ForwardChannels : d # c =>
          pc'[d] = pc[d] /\ held'[d] = held[d] /\ seen'[d] = seen[d]
  BY <1>1 DEF Forwarder, CheckPause, PeekDue, TakeCopy, PeekNothing,
     PeekFails, EndAttempt, Wake, Attempt, TargetAccepts, AnswerLost, TargetRefuses,
     RemoveDelivered, RemoveFails, RecordFailure, RecordFails, LeaveRecord, Report, MoveTo,
     TypeOK, AgentType, Agents
<1>5. CASE CheckPause(c) \/ PeekNothing(c) \/ PeekFails(c) \/ Wake(c)
  <2>1. /\ pc'[c] \notin Attempting /\ pc[c] # "report" /\ "report" \in Attempting
        /\ UNCHANGED <<webhooks, reports, silenced>>
    BY <1>1, <1>5 DEF CheckPause, PeekNothing, PeekFails, EndAttempt, Wake, MoveTo,
       Attempting, storeVars, deliveryHistory
  <2> QED BY <1>3, <1>4, <2>1, QuietKept DEF Stored
<1>6. CASE PeekDue(c)
  <2>1. PICK i \in Due(c) : TakeCopy(c, i)
    BY <1>6 DEF PeekDue
  <2>2. UNCHANGED <<webhooks, reports, silenced>> /\ Stored' = Stored /\ pc[c] = "peek"
    BY <1>6 DEF PeekDue, storeVars, Stored
  <2>3. pc'[c] = "send" /\ held'[c] = i /\ seen'[c] = webhooks[i].forward_attempts
    BY <1>1, <2>1 DEF TakeCopy, MoveTo
  <2>4. \A d \in ForwardChannels : \A id : AboutToReport(d, id) => AboutToReport(d, id)'
    BY <1>4, <2>2 DEF AboutToReport, CrossedStuckThreshold
  <2> QED BY <1>3, <1>4, <2>2, <2>3, <2>4 DEF QuietInv, StuckIsReported
<1>7. CASE TargetAccepts(c) \/ AnswerLost(c) \/ TargetRefuses(c)
  <2>1. /\ pc[c] \in Attempting /\ pc[c] # "report" /\ pc'[c] # "report"
        /\ UNCHANGED <<webhooks, reports, silenced, held, seen>>
    BY <1>1, <1>7 DEF TargetAccepts, AnswerLost, TargetRefuses, MoveTo, Attempting, storeVars
  <2> QED BY <1>3, <1>4, <2>1, QuietKept DEF Stored
<1>8. CASE RemoveDelivered(c) \/ RemoveFails(c)
  <2>1. /\ pc'[c] \notin Attempting /\ pc[c] # "report" /\ "report" \in Attempting
        /\ UNCHANGED <<reports, silenced>>
    BY <1>1, <1>8 DEF RemoveDelivered, RemoveFails, EndAttempt, StartOf, MoveTo, Attempting,
       deliveryHistory
  <2>2. \A id \in Stored' : id \in Stored /\ webhooks'[id] = webhooks[id]
    BY <1>8 DEF RemoveDelivered, RemoveFails, storeVars, Without, Stored
  <2> QED BY <1>3, <1>4, <2>1, <2>2, QuietKept
<1>9. CASE RecordFailure(c) \/ RecordFails(c)
  <2>0. PICK i : i = held[c]
    OBVIOUS
  <2>1. /\ pc'[c] = "report" /\ held'[c] = i /\ seen'[c] = seen[c]
        /\ pc[c] = "record" /\ pc[c] \in Attempting /\ UNCHANGED <<reports, silenced>>
    BY <1>1, <1>9, <2>0 DEF RecordFailure, RecordFails, LeaveRecord, MoveTo, Attempting
  <2>2. /\ Stored' = Stored
        /\ \A id \in Stored : id # i => webhooks'[id] = webhooks[id]
        /\ i \in Stored => webhooks'[i].forward_attempts
               \in {webhooks[i].forward_attempts, webhooks[i].forward_attempts + 1}
    BY <1>9, <2>0 DEF RecordFailure, RecordFails, storeVars, Stored, WithDelivery
  <2>3. \A d \in ForwardChannels : pc[d] \in Attempting /\ d # c => held[d] # i
    BY <2>0, <2>1 DEF ReportInv, OneForwarder
  <2>4. \A d \in ForwardChannels : \A id : AboutToReport(d, id) => AboutToReport(d, id)'
    BY <1>4, <2>1 DEF AboutToReport, CrossedStuckThreshold
  <2>5. ASSUME NEW id \in Stored, webhooks'[id].forward_attempts >= StuckThreshold
        PROVE  \/ reports'[id] > 0 \/ id \in silenced'
               \/ \E d \in ForwardChannels : AboutToReport(d, id)'
    <3>1. /\ webhooks[id].forward_attempts \in Nat /\ StuckThreshold \in Nat
      <4>1. webhooks[id] \in Row
        BY DEF TypeOK, TableType
      <4> QED BY <4>1, BoundAssumption DEF Row
    <3>2. CASE webhooks[id].forward_attempts >= StuckThreshold
      BY <2>1, <2>4, <3>2 DEF QuietInv, StuckIsReported
    <3>3. CASE ~(webhooks[id].forward_attempts >= StuckThreshold)
      <4>1. id = i /\ webhooks[id].forward_attempts + 1 = StuckThreshold
        BY <2>2, <2>5, <3>1, <3>3
      <4>2. seen[c] = webhooks[id].forward_attempts
        BY <2>0, <2>1, <4>1 DEF QuietInv
      <4>3. AboutToReport(c, id)'
        BY <2>1, <4>1, <4>2 DEF AboutToReport, CrossedStuckThreshold
      <4> QED BY <4>3
    <3> QED BY <3>2, <3>3
  <2>6. \A d \in ForwardChannels :
            pc'[d] \in Attempting /\ pc'[d] # "report" /\ held'[d] \in Stored' =>
                seen'[d] = webhooks'[held'[d]].forward_attempts
    BY <1>4, <2>1, <2>2, <2>3 DEF QuietInv
  <2> QED BY <1>3, <2>2, <2>5, <2>6 DEF QuietInv, StuckIsReported
<1>10. CASE Report(c)
  <2>0. PICK i : i = held[c]
    OBVIOUS
  <2>1. /\ pc[c] = "report" /\ pc[c] \in Attempting /\ pc'[c] \notin Attempting
        /\ UNCHANGED <<webhooks, silenced>> /\ Stored' = Stored
    BY <1>1, <1>10 DEF Report, EndAttempt, MoveTo, Attempting, storeVars, Stored
  <2>2. i \in Ids
    BY <1>1, <2>0, <2>1, AttemptFacts
  <2>3. reports' = IF AboutToReport(c, i) THEN Add(reports, i) ELSE reports
    BY <1>10, <2>0 DEF Report
  <2>4. /\ \A id \in Ids : reports[id] > 0 => reports'[id] > 0
        /\ AboutToReport(c, i) => reports'[i] > 0
    BY <1>1, <2>2, <2>3 DEF Add
  <2>5. \A d \in ForwardChannels : \A id :
            AboutToReport(d, id) => AboutToReport(d, id)' \/ (d = c /\ id = i)
    BY <1>4, <2>0 DEF AboutToReport, CrossedStuckThreshold
  <2>6. Stored \subseteq Ids
    BY <1>1, <2>1, AttemptFacts
  <2>7. StuckIsReported'
    BY <2>1, <2>4, <2>5, <2>6 DEF QuietInv, StuckIsReported
  <2> QED BY <1>3, <1>4, <2>1, <2>7 DEF QuietInv
<1> QED BY <1>5, <1>6, <1>7, <1>8, <1>9, <1>10 DEF Forwarder, Attempt

LEMMA QuietStep ==
    ASSUME MaxRetries = 0
    PROVE  TypeOK /\ TypeOK' /\ ReportInv /\ QuietInv /\ [Next]_vars => QuietInv'
<1> SUFFICES ASSUME TypeOK, TypeOK', ReportInv, QuietInv, [Next]_vars PROVE QuietInv'
  OBVIOUS
<1>1. ASSUME UNCHANGED <<pc, held, seen, reports, silenced>>,
             webhooks' = webhooks \/ \E S : webhooks' = Without(S)
      PROVE  QuietInv'
  <2>1. \A id \in Stored' : id \in Stored /\ webhooks'[id] = webhooks[id]
    BY <1>1 DEF Without, Stored
  <2> QED BY <1>1, <2>1, QuietKept DEF QuietInv
<1>2. ASSUME NEW o \in Retriers, Retrier(o) PROVE QuietInv'
  <2>1. retries = 0
    BY DEF TypeOK, FaultType
  <2>2. pc[o] = "idle"
    BY DEF QuietInv
  <2> QED BY <1>2, <2>1, <2>2 DEF Retrier, RetryLoad, RetryAbandoned, Attempt, TargetAccepts,
          AnswerLost, TargetRefuses, RemoveDelivered, RemoveFails, RecordFailure, RecordFails,
          Attempting
<1>3. ASSUME NEW s \in Senders, Receiver(s) PROVE QuietInv'
  <2>1. CASE Insert(s)
    <3>1. /\ Stored' = Stored \cup {nextId}
          /\ \A id \in Stored : id # nextId => webhooks'[id] = webhooks[id]
          /\ webhooks'[nextId].forward_attempts = 0
          /\ UNCHANGED <<pc, held, seen, reports, silenced>>
      BY <2>1 DEF Insert, agentVars, deliveryHistory, Stored
    <3>2. nextId \notin Stored /\ \A c \in ForwardChannels : held[c] # nextId
      <4>1. nextId \in Nat
        BY <2>1, BoundAssumption DEF TypeOK, TableType
      <4> QED BY <4>1 DEF TypeOK, TableType, AgentType, Agents
    <3>3. ~(0 >= StuckThreshold)
      BY BoundAssumption
    <3>4. \A c \in ForwardChannels : \A id : AboutToReport(c, id)' <=> AboutToReport(c, id)
      BY <3>1 DEF AboutToReport, CrossedStuckThreshold
    <3> QED BY <3>1, <3>2, <3>3, <3>4 DEF QuietInv, StuckIsReported
  <2> QED BY <1>1, <1>3, <2>1
          DEF Receiver, ReceiveBegin, ReceiveFails, storeVars, agentVars, deliveryHistory
<1>4. ASSUME NEW p \in Pollers, Poller(p) PROVE QuietInv'
  BY <1>1, <1>4 DEF Poller, PollTakes, PollAnswered, PollUnanswered, storeVars,
     agentVars, deliveryHistory
<1>5. CASE Operator
  BY <1>1, <1>5 DEF Operator, Delete, Clear, Pause, Resume, storeVars, agentVars,
     deliveryHistory
<1>6. ASSUME NEW i \in Ids, DelayElapses(i) PROVE QuietInv'
  <2>1. /\ Stored' = Stored /\ UNCHANGED <<pc, held, seen, reports, silenced>>
        /\ \A id \in Stored :
               webhooks'[id].forward_attempts = webhooks[id].forward_attempts
    BY <1>6 DEF DelayElapses, Stored, WithDelivery, agentVars, deliveryHistory
  <2> QED BY <2>1, QuietKept DEF QuietInv
<1>7. CASE Crash
  <2>1. /\ Stored' = Stored /\ UNCHANGED <<webhooks, reports>>
        /\ \A c \in ForwardChannels : pc'[c] \notin Attempting
        /\ \A o \in Retriers : pc'[o] = "idle"
    BY <1>7, ChannelAssumption DEF Crash, StartOf, Attempting, Agents, storeVars, Stored
  <2>2. \A id \in Stored : id \in silenced \/ (\E c \in ForwardChannels : AboutToReport(c, id))
                             => id \in silenced'
    <3>1. Stored \subseteq Ids
      BY BoundAssumption DEF TypeOK, TableType, Ids
    <3> QED BY <1>7, <3>1 DEF Crash
  <2> QED BY <2>1, <2>2 DEF QuietInv, StuckIsReported
<1>8. CASE ClockTick \/ UNCHANGED vars
  BY <1>1, <1>8 DEF ClockTick, vars, storeVars, agentVars, deliveryHistory
<1> QED
  BY <1>2, <1>3, <1>4, <1>5, <1>6, <1>7, <1>8, QuietForwarder DEF Next

\* Where nobody retries by hand, a webhook whose counter has reached the threshold
\* has been reported or is about to be, or a crash fell between the UPDATE and
\* the report; stuck_report shows what a manual retry does to this.
THEOREM StuckNeverMissed ==
    ASSUME MaxRetries = 0
    PROVE  Spec => []StuckIsReported
<1>1. Init => ReportInv /\ QuietInv
  <2>1. Init => ReportInv
    BY BoundAssumption DEF Init, ReportInv, OwnCopies, OneForwarder, Reported, MayReport,
       Pending, AboutToReport, One, StartOf, Attempting, Stored, Agents
  <2>2. Init => QuietInv
    BY ChannelAssumption DEF Init, QuietInv, StuckIsReported, StartOf, Attempting, Stored, Agents
  <2> QED BY <2>1, <2>2
<1>2. TypeOK /\ TypeOK' /\ ReportInv /\ QuietInv /\ [Next]_vars => QuietInv'
  BY QuietStep
<1>3. QuietInv => StuckIsReported
  BY DEF QuietInv
<1> QED BY <1>1, <1>2, <1>3, TypeCorrect, ReportStep, PTL DEF Spec

-----------------------------------------------------------------------------
(* Resends. *)

\* A forwarder that will read again without having slept remembers no row that
\* is still there: what it delivered last is gone.
FreshInv ==
    \A c \in ForwardChannels : pc[c] \in {"check", "peek"} => held[c] \notin Stored

LEMMA FreshByMove ==
    ASSUME TypeOK, FreshInv, NEW a \in Agents, NEW where, MoveTo(a, where),
           NEW h, held' = [held EXCEPT ![a] = h], Stored' \subseteq Stored,
           where \in {"check", "peek"} /\ a \in ForwardChannels => h \notin Stored'
    PROVE  FreshInv'
BY DEF FreshInv, MoveTo, TypeOK, AgentType, Agents

LEMMA FreshKept ==
    ASSUME FreshInv, UNCHANGED <<pc, held>>, Stored' \subseteq Stored
    PROVE  FreshInv'
BY DEF FreshInv

LEMMA FreshAttempt ==
    ASSUME TypeOK, FreshInv, NEW a \in Agents, Attempt(a)
    PROVE  FreshInv'
<1>1. CASE RemoveDelivered(a)
  <2>1. /\ MoveTo(a, StartOf(a))
        /\ held' = [held EXCEPT ![a] = IF a \in ForwardChannels THEN held[a] ELSE 0]
    BY <1>1 DEF RemoveDelivered
  <2>2. Stored' \subseteq Stored /\ held[a] \notin Stored'
    BY <1>1 DEF RemoveDelivered, Without, Stored
  <2> QED BY <2>1, <2>2, FreshByMove
<1>2. CASE Attempt(a) /\ ~RemoveDelivered(a)
  <2>1. /\ \E where \in Places \ {"check", "peek"} : MoveTo(a, where)
        /\ \E h : held' = [held EXCEPT ![a] = h]
    <3>1. held = [held EXCEPT ![a] = held[a]]
      BY DEF TypeOK, AgentType
    <3> QED BY <1>2, <3>1 DEF Attempt, TargetAccepts, AnswerLost, TargetRefuses, RemoveFails,
               RecordFailure, RecordFails, LeaveRecord, EndAttempt, Places, Attempting
  <2>2. Stored' = Stored
    BY <1>2 DEF Attempt, TargetAccepts, AnswerLost, TargetRefuses, RemoveFails,
       RecordFailure, RecordFails, storeVars, Stored
  <2> QED BY <2>1, <2>2, FreshByMove
<1> QED BY <1>1, <1>2

LEMMA FreshStep == TypeOK /\ FreshInv /\ [Next]_vars => FreshInv'
<1> SUFFICES ASSUME TypeOK, FreshInv, [Next]_vars PROVE FreshInv'
  OBVIOUS
<1>0. 0 \notin Stored /\ nextId \in Nat
  <2>1. Stored \subseteq 1..(nextId - 1) /\ nextId \in 1..(MaxWebhooks + 1)
    BY DEF TypeOK, TableType
  <2> QED BY <2>1, BoundAssumption
<1>1. ASSUME UNCHANGED <<pc, held>>, webhooks' = webhooks \/ \E S : webhooks' = Without(S)
      PROVE  FreshInv'
  <2>1. Stored' \subseteq Stored
    BY <1>1 DEF Without, Stored
  <2> QED BY <1>1, <2>1, FreshKept
<1>2. ASSUME NEW c \in ForwardChannels, Forwarder(c) PROVE FreshInv'
  <2>1. c \in Agents
    BY DEF Agents
  <2>2. CASE CheckPause(c)
    <3>1. /\ \E where : MoveTo(c, where)
          /\ held' = [held EXCEPT ![c] = held[c]]
          /\ Stored' = Stored /\ held[c] \notin Stored
      BY <2>2 DEF CheckPause, storeVars, Stored, TypeOK, AgentType, FreshInv
    <3> QED BY <2>1, <3>1, FreshByMove
  <2>3. CASE PeekDue(c)
    <3>1. PICK id \in Due(c) : TakeCopy(c, id)
      BY <2>3 DEF PeekDue
    <3>2. MoveTo(c, "send") /\ held' = [held EXCEPT ![c] = id] /\ Stored' = Stored
      BY <2>3, <3>1 DEF PeekDue, TakeCopy, storeVars, Stored
    <3>3. "send" \notin {"check", "peek"}
      OBVIOUS
    <3> QED BY <2>1, <3>2, <3>3, FreshByMove
  <2>4. CASE PeekNothing(c) \/ PeekFails(c) \/ Report(c)
    <3>1. MoveTo(c, "sleep") /\ \E h : held' = [held EXCEPT ![c] = h]
      BY <2>4 DEF PeekNothing, PeekFails, Report, EndAttempt
    <3>2. Stored' = Stored
      BY <2>4 DEF PeekNothing, PeekFails, Report, storeVars, Stored
    <3>3. "sleep" \notin {"check", "peek"}
      OBVIOUS
    <3> QED BY <2>1, <3>1, <3>2, <3>3, FreshByMove
  <2>5. CASE Wake(c)
    BY <1>0, <2>1, <2>5, FreshByMove DEF Wake, storeVars, Stored
  <2> QED BY <1>2, <2>1, <2>2, <2>3, <2>4, <2>5, FreshAttempt DEF Forwarder
<1>3. ASSUME NEW o \in Retriers, Retrier(o) PROVE FreshInv'
  <2>1. o \in Agents /\ o \notin ForwardChannels
    BY ChannelAssumption DEF Agents
  <2>2. ASSUME NEW c \in ForwardChannels, NEW id \in Ids,
               RetryLoad(o, c, id) \/ RetryAbandoned(o)
        PROVE  FreshInv'
    <3>1. /\ \E where : MoveTo(o, where)
          /\ \E h : held' = [held EXCEPT ![o] = h]
          /\ Stored' = Stored
      BY <2>2 DEF RetryLoad, RetryAbandoned, TakeCopy, EndAttempt, storeVars, Stored
    <3> QED BY <2>1, <3>1, FreshByMove
  <2>3. ASSUME RetryAbandoned(o) PROVE FreshInv'
    <3>1. /\ \E where : MoveTo(o, where)
          /\ \E h : held' = [held EXCEPT ![o] = h]
          /\ Stored' = Stored
      BY <2>3 DEF RetryAbandoned, EndAttempt, storeVars, Stored
    <3> QED BY <2>1, <3>1, FreshByMove
  <2> QED BY <1>3, <2>1, <2>2, <2>3, FreshAttempt DEF Retrier
<1>4. ASSUME NEW s \in Senders, Receiver(s) PROVE FreshInv'
  <2>1. CASE Insert(s)
    <3>1. Stored' = Stored \cup {nextId} /\ UNCHANGED <<pc, held>>
      BY <2>1 DEF Insert, agentVars, Stored
    <3>2. \A c \in ForwardChannels : held[c] # nextId
      BY <1>0 DEF TypeOK, AgentType, Agents
    <3> QED BY <3>1, <3>2 DEF FreshInv
  <2> QED BY <1>1, <1>4, <2>1 DEF Receiver, ReceiveBegin, ReceiveFails, storeVars, agentVars
<1>5. ASSUME NEW p \in Pollers, Poller(p) PROVE FreshInv'
  BY <1>1, <1>5 DEF Poller, PollTakes, PollAnswered, PollUnanswered, storeVars, agentVars
<1>6. CASE Operator
  BY <1>1, <1>6 DEF Operator, Delete, Clear, Pause, Resume, storeVars, agentVars
<1>7. ASSUME NEW id \in Ids, DelayElapses(id) PROVE FreshInv'
  BY <1>7, FreshKept DEF DelayElapses, Stored, agentVars
<1>8. CASE Crash
  BY <1>0, <1>8 DEF Crash, FreshInv, Agents, storeVars, Stored
<1>9. CASE ClockTick \/ UNCHANGED vars
  BY <1>1, <1>9 DEF ClockTick, vars, storeVars, agentVars
<1> QED
  BY <1>2, <1>3, <1>4, <1>5, <1>6, <1>7, <1>8, <1>9 DEF Next

\* The forwarder never sends the webhook it tried last without having slept: not
\* after a refusal, and not when a delivered row could not be removed.
THEOREM SleepsBeforeResend == Spec => NoImmediateResend
<1>1. Init => FreshInv
  BY DEF Init, FreshInv, Stored, Agents
<1>2. TypeOK /\ FreshInv /\ [Next]_vars =>
          [\A c \in ForwardChannels :
               pc[c] = "peek" /\ pc'[c] = "send" => held'[c] # held[c]]_vars
  <2> SUFFICES ASSUME TypeOK, FreshInv, Next, NEW c \in ForwardChannels,
                      pc[c] = "peek", pc'[c] = "send"
               PROVE  held'[c] # held[c]
    BY DEF vars
  <2>1. /\ pc \in [Agents -> Places] /\ held \in [Agents -> 0..(nextId - 1)]
        /\ ForwardChannels \subseteq Agents /\ held[c] \notin Stored
    BY DEF TypeOK, AgentType, FreshInv, Agents
  <2>2. PeekDue(c)
    <3>1. \A a \in Agents : a # c => ~\E where : MoveTo(a, where)
      BY <2>1 DEF MoveTo
    <3>2. pc' # pc
      BY <2>1
    <3>3. ASSUME NEW a \in Agents, Attempt(a) PROVE FALSE
      <4>1. a = c
        BY <3>1, <3>3 DEF Attempt, TargetAccepts, AnswerLost, TargetRefuses, RemoveDelivered,
           RemoveFails, RecordFailure, RecordFails, LeaveRecord, EndAttempt
      <4> QED BY <3>3, <4>1 DEF Attempt, TargetAccepts, AnswerLost, TargetRefuses,
              RemoveDelivered, RemoveFails, RecordFailure, RecordFails
    <3>4. ASSUME NEW d \in ForwardChannels, Forwarder(d) PROVE PeekDue(c)
      <4>1. CASE CheckPause(d) \/ Wake(d)
        BY <2>1, <4>1 DEF CheckPause, Wake, MoveTo
      <4>2. CASE PeekNothing(d) \/ PeekFails(d) \/ Report(d)
        BY <2>1, <4>2 DEF PeekNothing, PeekFails, Report, EndAttempt, MoveTo
      <4>3. CASE PeekDue(d)
        BY <2>1, <3>1, <4>3 DEF PeekDue, TakeCopy
      <4> QED BY <2>1, <3>3, <3>4, <4>1, <4>2, <4>3 DEF Forwarder
    <3>5. ASSUME NEW o \in Retriers, Retrier(o) PROVE FALSE
      <4>1. o \in Agents /\ o # c
        BY ChannelAssumption DEF Agents
      <4>2. ~RetryAbandoned(o) /\ \A d \in ForwardChannels, id \in Ids : ~RetryLoad(o, d, id)
        BY <3>1, <4>1 DEF RetryAbandoned, RetryLoad, TakeCopy, EndAttempt
      <4> QED BY <3>3, <3>5, <4>1, <4>2 DEF Retrier
    <3>6. ~Crash
      BY <2>1 DEF Crash, StartOf
    <3> QED BY <3>2, <3>4, <3>5, <3>6 DEF Next, ClockTick, Receiver, ReceiveBegin, Insert,
            ReceiveFails, Poller, PollTakes, PollAnswered, PollUnanswered, Operator, Delete,
            Clear, Pause, Resume, DelayElapses, agentVars
  <2>3. PICK id \in Due(c) : TakeCopy(c, id)
    BY <2>2 DEF PeekDue
  <2>4. held'[c] = id /\ id \in Stored
    BY <2>1, <2>3 DEF TakeCopy, Due, RowsOf
  <2> QED BY <2>1, <2>4
<1> QED BY <1>1, <1>2, TypeCorrect, FreshStep, PTL DEF Spec, NoImmediateResend
=============================================================================
