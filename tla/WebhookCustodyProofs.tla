------------------------ MODULE WebhookCustodyProofs ------------------------
(***************************************************************************)
(* The queue keeps every webhook it took, and so implements what           *)
(* WebhookCustody promises, and a poll has its webhooks for itself alone,  *)
(* whatever the constants are.                                             *)
(***************************************************************************)
EXTENDS WebhookQueueProofs

\* What makes Custody inductive: an agent is about to remove a row only after
\* the target has accepted that webhook, and the row stays there through every
\* crash, failed statement and hang-up until then.
RemovesOnlyAccepted ==
    \A a \in Agents : pc[a] = "delete" => accepted[held[a]] > 0

CustodyInv == Custody /\ RemovesOnlyAccepted

\* What a step does to the variables Custody speaks of.
LEMMA AcceptedGrows ==
    ASSUME TypeOK, NEW a \in Agents, pc[a] \in Attempting,
           accepted' = Add(accepted, held[a])
    PROVE  /\ \A id \in Ids : accepted[id] > 0 => accepted'[id] > 0
           /\ held[a] \in Ids
           /\ accepted'[held[a]] > 0
<1>1. held[a] \in Ids
  BY BoundAssumption DEF TypeOK, TableType, AgentType, Ids
<1>2. accepted \in [Ids -> Nat]
  BY DEF TypeOK, DeliveryType
<1> QED BY <1>1, <1>2 DEF Add

\* The table, the ids, the deliveries and the exits are as before, and no
\* agent arrives at "delete".
LEMMA QuietStep ==
    ASSUME CustodyInv,
           UNCHANGED <<webhooks, nextId, accepted, released, discarded>>,
           \A a \in Agents :
               pc'[a] = "delete" => pc[a] = "delete" /\ held'[a] = held[a]
    PROVE  CustodyInv'
BY DEF CustodyInv, Custody, RemovesOnlyAccepted, Stored

\* Only the table and an exit change: what left it went through the exit.
LEMMA ExitStep ==
    ASSUME CustodyInv, NEW S, webhooks' = Without(S),
           UNCHANGED <<nextId, agentVars, accepted>>,
           released \subseteq released', discarded \subseteq discarded',
           \A id \in S : id \in released' \cup discarded'
    PROVE  CustodyInv'
BY DEF CustodyInv, Custody, RemovesOnlyAccepted, Stored, Without, agentVars

\* No step drops a webhook or lets an agent remove one the target has not taken.
LEMMA CustodyStep == TypeOK /\ CustodyInv /\ [Next]_vars => CustodyInv'
<1> SUFFICES ASSUME TypeOK, CustodyInv, [Next]_vars PROVE CustodyInv'
  OBVIOUS
<1> USE DEF storeVars, receiveVars, agentVars, pauseVars, faultVars,
            deliveryHistory, exitHistory
<1>1. CASE ClockTick
  BY <1>1, QuietStep DEF ClockTick
<1>2. ASSUME NEW s \in Senders, NEW c \in Channels, ReceiveBegin(s, c)
      PROVE  CustodyInv'
  BY <1>2, QuietStep DEF ReceiveBegin
<1>3. ASSUME NEW s \in Senders, Insert(s) PROVE CustodyInv'
  <2>1. Custody'
    <3> SUFFICES ASSUME NEW id \in 1..(nextId' - 1), id \notin Stored'
                 PROVE  accepted'[id] > 0 \/ id \in released' \/ id \in discarded'
      BY DEF Custody
    <3>1. Stored' = Stored \cup {nextId} /\ nextId' = nextId + 1
      BY <1>3 DEF Insert, Stored
    <3>2. id \in 1..(nextId - 1) /\ id \notin Stored
      BY <3>1 DEF TypeOK, TableType
    <3> QED BY <1>3, <3>2 DEF Insert, CustodyInv, Custody
  <2>2. RemovesOnlyAccepted'
    BY <1>3 DEF Insert, CustodyInv, RemovesOnlyAccepted
  <2> QED BY <2>1, <2>2 DEF CustodyInv
<1>4. ASSUME NEW s \in Senders, ReceiveFails(s) PROVE CustodyInv'
  BY <1>4, QuietStep DEF ReceiveFails
<1>5. ASSUME NEW p \in Pollers, NEW c \in Channels, PollTakes(p, c)
      PROVE  CustodyInv'
  BY <1>5, ExitStep DEF PollTakes
<1>6. ASSUME NEW p \in Pollers, PollAnswered(p) PROVE CustodyInv'
  BY <1>6, QuietStep DEF PollAnswered
<1>7. ASSUME NEW p \in Pollers, PollUnanswered(p) PROVE CustodyInv'
  BY <1>7, QuietStep DEF PollUnanswered
<1>8. ASSUME NEW id \in Ids, Delete(id) PROVE CustodyInv'
  BY <1>8, ExitStep DEF Delete
<1>9. ASSUME NEW c \in Channels, Clear(c) PROVE CustodyInv'
  BY <1>9, ExitStep DEF Clear
<1>10. ASSUME NEW c \in ForwardChannels, Pause(c) \/ Resume(c)
       PROVE  CustodyInv'
  BY <1>10, QuietStep DEF Pause, Resume
<1>11. ASSUME NEW c \in ForwardChannels,
              CheckPause(c) \/ PeekNothing(c) \/ PeekFails(c) \/ Report(c) \/ Wake(c)
       PROVE  CustodyInv'
  <2>1. c \in Agents /\ pc \in [Agents -> Places] /\ held \in [Agents -> Nat]
    BY DEF Agents, TypeOK, AgentType
  <2>2. UNCHANGED <<webhooks, nextId, accepted, released, discarded>>
    BY <1>11 DEF CheckPause, PeekNothing, PeekFails, Report, Wake
  <2>3. \A a \in Agents :
            pc'[a] = "delete" => pc[a] = "delete" /\ held'[a] = held[a]
    BY <1>11, <2>1 DEF CheckPause, PeekNothing, PeekFails, Report, Wake, EndAttempt, MoveTo
  <2> QED BY <2>2, <2>3, QuietStep
<1>12. ASSUME NEW a \in Agents, NEW id, TakeCopy(a, id),
              UNCHANGED <<webhooks, nextId, accepted, released, discarded>>
       PROVE  CustodyInv'
  <2>1. pc \in [Agents -> Places] /\ held \in [Agents -> Nat]
    BY DEF TypeOK, AgentType
  <2> QED BY <1>12, <2>1, QuietStep DEF TakeCopy, MoveTo
<1>13. ASSUME NEW c \in ForwardChannels, PeekDue(c) PROVE CustodyInv'
  BY <1>12, <1>13 DEF PeekDue, Agents
<1>14. ASSUME NEW o \in Retriers, NEW c \in ForwardChannels, NEW id \in Ids,
              RetryLoad(o, c, id)
       PROVE  CustodyInv'
  BY <1>12, <1>14 DEF RetryLoad, Agents
<1>15. ASSUME NEW id \in Ids, DelayElapses(id) PROVE CustodyInv'
  <2>1. Stored' = Stored
    BY <1>15 DEF DelayElapses, Stored
  <2> QED BY <1>15, <2>1
             DEF DelayElapses, CustodyInv, Custody, RemovesOnlyAccepted
<1>16. ASSUME NEW a \in Agents,
              RetryAbandoned(a) \/ TargetRefuses(a) \/ RemoveFails(a) \/ RecordFails(a)
       PROVE  CustodyInv'
  <2>1. pc \in [Agents -> Places] /\ held \in [Agents -> Nat]
    BY DEF TypeOK, AgentType
  <2>2. UNCHANGED <<webhooks, nextId, accepted, released, discarded>>
    BY <1>16 DEF RetryAbandoned, TargetRefuses, RemoveFails, RecordFails
  <2>3. \A b \in Agents :
            pc'[b] = "delete" => pc[b] = "delete" /\ held'[b] = held[b]
    BY <1>16, <2>1 DEF RetryAbandoned, TargetRefuses, RemoveFails, RecordFails,
                       LeaveRecord, EndAttempt, MoveTo
  <2> QED BY <2>2, <2>3, QuietStep
<1>17. ASSUME NEW a \in Agents, TargetAccepts(a) \/ AnswerLost(a)
       PROVE  CustodyInv'
  <2>1. /\ pc \in [Agents -> Places]
        /\ held \in [Agents -> Nat]
        /\ pc[a] \in Attempting
        /\ accepted' = Add(accepted, held[a])
    BY <1>17 DEF TargetAccepts, AnswerLost, TypeOK, AgentType, Attempting
  <2>2. /\ \A id \in Ids : accepted[id] > 0 => accepted'[id] > 0
        /\ accepted'[held[a]] > 0
    BY <2>1, AcceptedGrows
  <2>3. Custody'
    <3>1. UNCHANGED <<webhooks, nextId, released, discarded>>
      BY <1>17 DEF TargetAccepts, AnswerLost
    <3>2. 1..(nextId - 1) \subseteq Ids
      BY BoundAssumption DEF TypeOK, TableType, Ids
    <3> QED BY <3>1, <3>2, <2>2 DEF CustodyInv, Custody, Stored
  <2>4. RemovesOnlyAccepted'
    <3> SUFFICES ASSUME NEW b \in Agents, pc'[b] = "delete"
                 PROVE  accepted'[held'[b]] > 0
      BY DEF RemovesOnlyAccepted
    <3>1. held' = held
      BY <1>17 DEF TargetAccepts, AnswerLost
    <3>2. CASE b = a
      BY <3>1, <3>2, <2>2
    <3>3. CASE b # a
      <4>1. pc[b] = "delete"
        BY <1>17, <2>1, <3>3 DEF TargetAccepts, AnswerLost, MoveTo
      <4>2. accepted[held[b]] > 0
        BY <4>1 DEF CustodyInv, RemovesOnlyAccepted
      <4>3. held[b] \in Ids
        BY <4>1, BoundAssumption
           DEF TypeOK, AgentType, TableType, Attempting, Ids
      <4> QED BY <3>1, <4>2, <4>3, <2>2
    <3> QED BY <3>2, <3>3
  <2> QED BY <2>3, <2>4 DEF CustodyInv
<1>18. ASSUME NEW a \in Agents, RemoveDelivered(a) PROVE CustodyInv'
  <2>1. accepted[held[a]] > 0
    BY <1>18 DEF RemoveDelivered, CustodyInv, RemovesOnlyAccepted
  <2>2. Custody'
    BY <1>18, <2>1 DEF RemoveDelivered, CustodyInv, Custody, Stored, Without
  <2>3. RemovesOnlyAccepted'
    <3>1. pc \in [Agents -> Places] /\ held \in [Agents -> Nat]
      BY DEF TypeOK, AgentType
    <3> QED BY <1>18, <3>1 DEF RemoveDelivered, MoveTo, StartOf, CustodyInv,
                               RemovesOnlyAccepted
  <2> QED BY <2>2, <2>3 DEF CustodyInv
<1>19. ASSUME NEW a \in Agents, RecordFailure(a) PROVE CustodyInv'
  <2>1. pc \in [Agents -> Places] /\ held \in [Agents -> Nat]
    BY DEF TypeOK, AgentType
  <2>2. Stored' = Stored
    BY <1>19 DEF RecordFailure, Stored
  <2>3. Custody'
    BY <1>19, <2>2 DEF RecordFailure, CustodyInv, Custody
  <2>4. RemovesOnlyAccepted'
    BY <1>19, <2>1 DEF RecordFailure, LeaveRecord, EndAttempt, MoveTo, CustodyInv,
                       RemovesOnlyAccepted
  <2> QED BY <2>3, <2>4 DEF CustodyInv
<1>20. CASE Crash
  BY <1>20, QuietStep DEF Crash, StartOf
<1>21. CASE UNCHANGED vars
  BY <1>21, QuietStep DEF vars
<1> QED
  BY <1>1, <1>2, <1>3, <1>4, <1>5, <1>6, <1>7, <1>8, <1>9, <1>10, <1>11,
     <1>13, <1>14, <1>15, <1>16, <1>17, <1>18, <1>19, <1>20, <1>21
     DEF Next, Receiver, Poller, Operator, Forwarder, Retrier, Attempt, Agents

\* No webhook that was inserted is dropped: it is in the table, accepted by the
\* target, taken by a poll or removed by an operator.
THEOREM CustodyHolds == Spec => []Custody
<1>1. Init => CustodyInv
  BY DEF Init, CustodyInv, Custody, RemovesOnlyAccepted, StartOf
<1>2. CustodyInv => Custody
  BY DEF CustodyInv
<1> QED BY <1>1, <1>2, TypeCorrect, CustodyStep, PTL DEF Spec
-----------------------------------------------------------------------------
(* Refinement. *)

\* Nothing the promise speaks of changes.
LEMMA Unseen ==
    ASSUME Stored' = Stored, UNCHANGED <<nextId, accepted, released, discarded>>
    PROVE  UNCHANGED Promise!vars
BY DEF Promise!vars

\* Every step of the service is a step of the promise or changes nothing in it.
LEMMA PromiseStep ==
    TypeOK /\ CustodyInv /\ [Next]_vars => [Promise!Next]_Promise!vars
<1> SUFFICES ASSUME TypeOK, CustodyInv, [Next]_vars
             PROVE  Promise!Next \/ UNCHANGED Promise!vars
  OBVIOUS
<1> USE DEF storeVars, receiveVars, pauseVars, agentVars, faultVars,
            deliveryHistory, exitHistory
<1>a. /\ nextId \in 1..(MaxWebhooks + 1)
      /\ Stored \subseteq 1..(nextId - 1)
      /\ 1..(nextId - 1) \subseteq Ids
  BY BoundAssumption DEF TypeOK, TableType, Ids
<1>1. ASSUME UNCHANGED <<webhooks, nextId, accepted, released, discarded>>
      PROVE  UNCHANGED Promise!vars
  BY <1>1, Unseen DEF Stored
<1>2. ASSUME NEW s \in Senders, Insert(s) PROVE Promise!Next
  <2>1. nextId \in Ids /\ nextId' = nextId + 1
    BY <1>2, <1>a DEF Insert, Ids
  <2>2. Stored' = Stored \cup {nextId}
    BY <1>2 DEF Insert, Stored
  <2>3. 1..(nextId' - 1) = (1..(nextId - 1)) \cup {nextId}
    BY <2>1, <1>a
  <2>4. nextId \notin 1..(nextId - 1)
    BY <1>a
  <2>5. Promise!Admit(nextId)
    BY <1>2, <2>1, <2>2, <2>3, <2>4 DEF Insert, Promise!Admit
  <2> QED BY <2>1, <2>5 DEF Promise!Next
<1>3. ASSUME NEW p \in Pollers, NEW c \in Channels, PollTakes(p, c)
      PROVE  Promise!Next
  <2>1. PICK S \in OldestOf(RowsOf(c), ReadLimit) :
            webhooks' = Without(S) /\ released' = released \cup S
    BY <1>3 DEF PollTakes
  <2>2. S \subseteq Stored /\ Stored' = Stored \ S
    BY <2>1 DEF OldestOf, RowsOf, Without, Stored
  <2>3. Promise!Release(S)
    BY <1>3, <2>1, <2>2 DEF PollTakes, Promise!Release
  <2>4. S \in SUBSET Ids
    BY <2>2, <1>a
  <2> QED BY <2>3, <2>4 DEF Promise!Next
<1>4. ASSUME NEW S, S \subseteq Stored, webhooks' = Without(S),
             discarded' = discarded \cup S,
             UNCHANGED <<nextId, accepted, released>>
      PROVE  Promise!Next
  <2>1. Stored' = Stored \ S
    BY <1>4 DEF Without, Stored
  <2>2. Promise!Discard(S)
    BY <1>4, <2>1 DEF Promise!Discard
  <2>3. S \in SUBSET Ids
    BY <1>4, <1>a
  <2> QED BY <2>2, <2>3 DEF Promise!Next
<1>5. ASSUME NEW id \in Ids, Delete(id) PROVE Promise!Next
  BY <1>4, <1>5 DEF Delete
<1>6. ASSUME NEW c \in Channels, Clear(c) PROVE Promise!Next
  <2>1. RowsOf(c) \subseteq Stored
    BY DEF RowsOf
  <2> QED BY <1>4, <1>6, <2>1 DEF Clear
<1>7. ASSUME NEW id \in Ids, DelayElapses(id) PROVE UNCHANGED Promise!vars
  <2>1. Stored' = Stored
    BY <1>7 DEF DelayElapses, Stored
  <2> QED BY <1>7, <2>1, Unseen DEF DelayElapses
<1>8. ASSUME NEW a \in Agents, TargetAccepts(a) \/ AnswerLost(a)
      PROVE  Promise!Next
  <2>1. pc[a] \in Attempting /\ accepted' = Add(accepted, held[a])
    BY <1>8 DEF TargetAccepts, AnswerLost, Attempting
  <2>2. held[a] \in Ids /\ held[a] \in 1..(nextId - 1)
    BY <2>1, <1>a DEF TypeOK, AgentType
  <2>3. {id \in Ids : accepted'[id] > 0}
            = {id \in Ids : accepted[id] > 0} \cup {held[a]}
    <3>1. accepted \in [Ids -> Nat]
      BY DEF TypeOK, DeliveryType
    <3> QED BY <2>1, <2>2, <3>1 DEF Add
  <2>4. UNCHANGED <<Stored, nextId, released, discarded>>
    BY <1>8 DEF TargetAccepts, AnswerLost, Stored
  <2>5. PICK w \in Ids : w = held[a]
    BY <2>2
  <2>6. Promise!Deliver(w)
    BY <2>2, <2>3, <2>4, <2>5 DEF Promise!Deliver
  <2> QED BY <2>6 DEF Promise!Next
<1>9. ASSUME NEW a \in Agents, RemoveDelivered(a)
      PROVE  Promise!Next \/ UNCHANGED Promise!vars
  <2>1. /\ Stored' = Stored \ {held[a]}
        /\ UNCHANGED <<nextId, accepted, released, discarded>>
    BY <1>9 DEF RemoveDelivered, Without, Stored
  <2>2. CASE held[a] \in Stored
    <3>1. held[a] \in Ids /\ accepted[held[a]] > 0
      BY <1>9, <2>2, <1>a DEF RemoveDelivered, CustodyInv, RemovesOnlyAccepted
    <3>2. Promise!Retire(held[a])
      BY <2>1, <2>2, <3>1 DEF Promise!Retire
    <3> QED BY <3>1, <3>2 DEF Promise!Next
  <2>3. CASE held[a] \notin Stored
    BY <2>1, <2>3, Unseen
  <2> QED BY <2>2, <2>3
<1>10. ASSUME NEW a \in Agents, RecordFailure(a) PROVE UNCHANGED Promise!vars
  <2>1. Stored' = Stored
    BY <1>10 DEF RecordFailure, Stored
  <2> QED BY <1>10, <2>1, Unseen DEF RecordFailure
<1>11. ASSUME NEW a \in Agents, TargetRefuses(a) \/ RemoveFails(a) \/ RecordFails(a)
       PROVE  UNCHANGED Promise!vars
  BY <1>1, <1>11 DEF TargetRefuses, RemoveFails, RecordFails
<1>12. ASSUME NEW a \in Agents, Attempt(a)
       PROVE  Promise!Next \/ UNCHANGED Promise!vars
  BY <1>8, <1>9, <1>10, <1>11, <1>12 DEF Attempt
<1>13. ASSUME NEW s \in Senders, Receiver(s)
       PROVE  Promise!Next \/ UNCHANGED Promise!vars
  BY <1>1, <1>2, <1>13 DEF Receiver, ReceiveBegin, ReceiveFails
<1>14. ASSUME NEW p \in Pollers, Poller(p)
       PROVE  Promise!Next \/ UNCHANGED Promise!vars
  BY <1>1, <1>3, <1>14 DEF Poller, PollAnswered, PollUnanswered
<1>15. CASE Operator
  BY <1>1, <1>5, <1>6, <1>15 DEF Operator, Pause, Resume
<1>16. ASSUME NEW c \in ForwardChannels, Forwarder(c)
       PROVE  Promise!Next \/ UNCHANGED Promise!vars
  BY <1>1, <1>12, <1>16 DEF Forwarder, CheckPause, PeekDue, PeekNothing,
     PeekFails, Report, Wake, Agents
<1>17. ASSUME NEW o \in Retriers, Retrier(o)
       PROVE  Promise!Next \/ UNCHANGED Promise!vars
  BY <1>1, <1>12, <1>17 DEF Retrier, RetryLoad, RetryAbandoned, Agents
<1>18. CASE ClockTick \/ Crash \/ UNCHANGED vars
  BY <1>1, <1>18 DEF ClockTick, Crash, vars
<1> QED
  BY <1>7, <1>13, <1>14, <1>15, <1>16, <1>17, <1>18 DEF Next

\* The service implements the promise: what left the queue was delivered,
\* polled or discarded, and never comes back.
THEOREM Refinement == Spec => ImplementsCustody
<1>1. Init => Promise!Init
  <2>1. ASSUME Init PROVE {id \in Ids : accepted[id] > 0} = {}
    BY <2>1 DEF Init
  <2>2. ASSUME Init PROVE 1..(nextId - 1) = {} /\ Stored = {}
    BY <2>2 DEF Init, Stored
  <2> QED BY <2>1, <2>2 DEF Init, Promise!Init
<1>2. Init => CustodyInv
  BY DEF Init, CustodyInv, Custody, RemovesOnlyAccepted, StartOf
<1> QED
  BY <1>1, <1>2, TypeCorrect, CustodyStep, PromiseStep, PTL
     DEF Spec, ImplementsCustody, Promise!Spec

-----------------------------------------------------------------------------
(* Polls.  HandedOutOnce is inductive once the types are known: an id that a *)
(* poll or an operator has taken is smaller than nextId, so no insert brings *)
(* it back.                                                                  *)

\* The rows, the responses and the exits stay as they are.
LEMMA ExitsKept ==
    ASSUME HandedOutOnce, Stored' = Stored,
           UNCHANGED <<answer, released, lost, discarded>>
    PROVE  HandedOutOnce'
BY DEF HandedOutOnce, AnswerIds

\* Rows leave for another reason than a poll.
LEMMA RowsLeave ==
    ASSUME HandedOutOnce, NEW S, S \subseteq Stored, NEW D, D \subseteq S,
           webhooks' = Without(S), discarded' = discarded \cup D,
           UNCHANGED <<answer, released, lost>>
    PROVE  HandedOutOnce'
<1>1. Stored' = Stored \ S
  BY DEF Without, Stored
<1> QED BY <1>1 DEF HandedOutOnce, AnswerIds

\* A response ends, its webhooks handed over or lost.
LEMMA ResponseEnds ==
    ASSUME TypeOK, HandedOutOnce, NEW p \in Pollers,
           answer' = [answer EXCEPT ![p] = {}],
           lost' = lost \/ lost' = lost \cup AnswerIds(p),
           UNCHANGED <<webhooks, released, discarded>>
    PROVE  HandedOutOnce'
<1>1. answer \in [Pollers -> SUBSET [id : 1..(nextId - 1), received_at : 0..MaxClock]]
  BY DEF TypeOK, RequestType
<1>2. \A q \in Pollers : AnswerIds(q)' = IF q = p THEN {} ELSE AnswerIds(q)
  BY <1>1 DEF AnswerIds
<1>3. AnswerIds(p) \subseteq released
  BY DEF HandedOutOnce
<1>4. Stored' = Stored
  BY DEF Stored
<1>5. \A q \in Pollers : q # p => AnswerIds(q) \cap AnswerIds(p) = {}
  BY DEF HandedOutOnce
<1> QED BY <1>2, <1>3, <1>4, <1>5 DEF HandedOutOnce

\* No step gives a webhook to a second response or puts one back.
LEMMA HandedOutStep ==
    TypeOK /\ HandedOutOnce /\ [Next]_vars => HandedOutOnce'
<1> SUFFICES ASSUME TypeOK, HandedOutOnce, [Next]_vars PROVE HandedOutOnce'
  OBVIOUS
<1> USE DEF storeVars, receiveVars, pauseVars, agentVars, faultVars,
            deliveryHistory, exitHistory
<1>1. ASSUME UNCHANGED <<webhooks, answer, released, lost, discarded>>
      PROVE  HandedOutOnce'
  BY <1>1, ExitsKept DEF Stored
<1>2. ASSUME NEW s \in Senders, Insert(s) PROVE HandedOutOnce'
  <2>1. Stored' = Stored \cup {nextId}
    BY <1>2 DEF Insert, Stored
  <2>2. nextId \notin released \cup discarded
    BY DEF TypeOK, TableType, ExitType
  <2> QED BY <1>2, <2>1, <2>2 DEF Insert, HandedOutOnce, AnswerIds
<1>3. ASSUME NEW p \in Pollers, NEW c \in Channels, PollTakes(p, c)
      PROVE  HandedOutOnce'
  <2>1. PICK S \in OldestOf(RowsOf(c), ReadLimit) :
            /\ webhooks' = Without(S)
            /\ released' = released \cup S
            /\ answer' = [answer EXCEPT ![p] =
                   {[id |-> i, received_at |-> webhooks[i].received_at] : i \in S}]
    BY <1>3 DEF PollTakes
  <2>2. S \subseteq Stored /\ Stored' = Stored \ S
    BY <2>1 DEF OldestOf, RowsOf, Without, Stored
  <2>3. answer \in [Pollers ->
            SUBSET [id : 1..(nextId - 1), received_at : 0..MaxClock]]
    BY DEF TypeOK, RequestType
  <2>4. AnswerIds(p)' = S
    <3>1. answer'[p] = {[id |-> i, received_at |-> webhooks[i].received_at] : i \in S}
      BY <2>1, <2>3
    <3>2. ASSUME NEW i \in S PROVE \E w \in answer'[p] : w.id = i
      <4>1. [id |-> i, received_at |-> webhooks[i].received_at] \in answer'[p]
        BY <3>1
      <4> QED BY <4>1
    <3>3. ASSUME NEW w \in answer'[p] PROVE w.id \in S
      <4>1. PICK i \in S : w = [id |-> i, received_at |-> webhooks[i].received_at]
        BY <3>1
      <4> QED BY <4>1
    <3> QED BY <3>2, <3>3 DEF AnswerIds
  <2>5. \A q \in Pollers : q # p => AnswerIds(q)' = AnswerIds(q)
    BY <2>1, <2>3 DEF AnswerIds
  <2>6. \A q \in Pollers : AnswerIds(q) \cap S = {}
    BY <2>2 DEF HandedOutOnce
  <2>7. UNCHANGED <<lost, discarded>>
    BY <1>3 DEF PollTakes
  <2>8. S \cap (released \cup discarded \cup lost) = {}
    BY <2>2 DEF HandedOutOnce
  <2>9. \A q \in Pollers : AnswerIds(q)' \subseteq released' \ (lost' \cup discarded')
    BY <2>1, <2>4, <2>5, <2>7, <2>8 DEF HandedOutOnce
  <2>10. \A q, r \in Pollers : q # r => AnswerIds(q)' \cap AnswerIds(r)' = {}
    BY <2>4, <2>5, <2>6 DEF HandedOutOnce
  <2>11. (released' \cup discarded') \cap Stored' = {} /\ lost' \subseteq released'
    BY <2>1, <2>2, <2>7 DEF HandedOutOnce
  <2> QED BY <2>9, <2>10, <2>11 DEF HandedOutOnce
<1>4. ASSUME NEW p \in Pollers, PollAnswered(p) \/ PollUnanswered(p)
      PROVE  HandedOutOnce'
  BY <1>4, ResponseEnds DEF PollAnswered, PollUnanswered
<1>5. ASSUME NEW id \in Ids, Delete(id) PROVE HandedOutOnce'
  BY <1>5, RowsLeave DEF Delete
<1>6. ASSUME NEW c \in Channels, Clear(c) PROVE HandedOutOnce'
  BY <1>6, RowsLeave DEF Clear, RowsOf
<1>7. ASSUME NEW id \in Ids, DelayElapses(id) PROVE HandedOutOnce'
  BY <1>7, ExitsKept DEF DelayElapses, Stored
<1>8. ASSUME NEW a \in Agents, RemoveDelivered(a) PROVE HandedOutOnce'
  <2>1. Stored' = Stored \ {held[a]}
    BY <1>8 DEF RemoveDelivered, Without, Stored
  <2> QED BY <1>8, <2>1 DEF RemoveDelivered, HandedOutOnce, AnswerIds
<1>9. ASSUME NEW a \in Agents, RecordFailure(a) PROVE HandedOutOnce'
  BY <1>9, ExitsKept DEF RecordFailure, Stored
<1>10. ASSUME NEW a \in Agents, Attempt(a) PROVE HandedOutOnce'
  BY <1>1, <1>8, <1>9, <1>10 DEF Attempt, TargetAccepts, AnswerLost,
     TargetRefuses, RemoveFails, RecordFails
<1>11. ASSUME NEW s \in Senders, Receiver(s) PROVE HandedOutOnce'
  BY <1>1, <1>2, <1>11 DEF Receiver, ReceiveBegin, ReceiveFails
<1>12. ASSUME NEW p \in Pollers, Poller(p) PROVE HandedOutOnce'
  BY <1>3, <1>4, <1>12 DEF Poller
<1>13. CASE Operator
  BY <1>1, <1>5, <1>6, <1>13 DEF Operator, Pause, Resume
<1>14. ASSUME NEW c \in ForwardChannels, Forwarder(c) PROVE HandedOutOnce'
  BY <1>1, <1>10, <1>14 DEF Forwarder, CheckPause, PeekDue, PeekNothing,
     PeekFails, Report, Wake, Agents
<1>15. ASSUME NEW o \in Retriers, Retrier(o) PROVE HandedOutOnce'
  BY <1>1, <1>10, <1>15 DEF Retrier, RetryLoad, RetryAbandoned, Agents
<1>16. CASE Crash
  <2>1. UNCHANGED <<webhooks, released, discarded>>
    BY <1>16 DEF Crash
  <2>2. \A p \in Pollers : AnswerIds(p)' = {}
    BY <1>16 DEF Crash, AnswerIds
  <2>3. lost' \subseteq released
    BY <1>16 DEF Crash, HandedOutOnce
  <2> QED BY <2>1, <2>2, <2>3 DEF HandedOutOnce, Stored
<1>17. CASE ClockTick \/ UNCHANGED vars
  BY <1>1, <1>17 DEF ClockTick, vars
<1> QED
  BY <1>7, <1>11, <1>12, <1>13, <1>14, <1>15, <1>16, <1>17 DEF Next

\* A webhook is in one poll response at most, never in a response and in the
\* table, and no insert brings back an id that has left.
THEOREM PolledOnce == Spec => []HandedOutOnce
<1>1. Init => HandedOutOnce
  BY DEF Init, HandedOutOnce, AnswerIds
<1> QED BY <1>1, TypeCorrect, HandedOutStep, PTL DEF Spec
=============================================================================
