------------------------- MODULE WebhookQueueProofs -------------------------
(***************************************************************************)
(* Proofs about WebhookQueue for every value of its constants.             *)
(***************************************************************************)
EXTENDS WebhookQueue, FiniteSetTheorems, TLAPS

\* Counting one more event for a webhook keeps the history a table of numbers.
LEMMA AddType ==
    ASSUME NEW h \in [Ids -> Nat], NEW id
    PROVE  Add(h, id) \in [Ids -> Nat]
<1>1. CASE id \in Ids
  BY <1>1 DEF Add
<1>2. CASE id \notin Ids
  <2>1. Add(h, id) = [i \in Ids |-> h[i]]
    BY <1>2 DEF Add
  <2> QED BY <2>1
<1> QED BY <1>1, <1>2

\* The agents at a place, which Crash and AttemptsAccounted count, are finitely many.
LEMMA AgentsAtType ==
    ASSUME NEW where, NEW id
    PROVE  /\ IsFiniteSet(AgentsAt(where, id))
           /\ Cardinality(AgentsAt(where, id)) \in Nat
<1>1. IsFiniteSet(Agents)
  BY FiniteAssumption, FS_Union DEF Agents
<1>2. AgentsAt(where, id) \subseteq Agents
  BY DEF AgentsAt
<1> QED BY <1>1, <1>2, FS_Subset, FS_CardinalityType

\* A poll response names only ids that were given out.
LEMMA AnswerIdsType ==
    ASSUME RequestType, NEW p \in Pollers
    PROVE  AnswerIds(p) \subseteq 1..(nextId - 1)
<1> SUFFICES ASSUME NEW w \in answer[p] PROVE w.id \in 1..(nextId - 1)
  BY DEF AnswerIds
<1>1. w \in [id : 1..(nextId - 1), received_at : 0..MaxClock]
  BY DEF RequestType
<1> QED BY <1>1

\* Every step of the service keeps the types (one case per action).
LEMMA TypeStep == TypeOK /\ [Next]_vars => TypeOK'
<1> SUFFICES ASSUME TypeOK, [Next]_vars PROVE TypeOK'
  OBVIOUS
<1> USE ChannelAssumption, BoundAssumption DEF TypeOK
<1>1. ASSUME ClockTick PROVE TypeOK'
  <2>1. /\ TableType'
        /\ PauseType'
        /\ AgentType'
        /\ FaultType'
        /\ DeliveryType'
        /\ ExitType'
    BY <1>1 DEF ClockTick, storeVars, Stored, pauseVars, agentVars,
        faultVars, deliveryHistory, exitHistory, TableType, PauseType,
        AgentType, FaultType, DeliveryType, ExitType
  <2>2. RequestType'
    BY <1>1 DEF ClockTick, storeVars, receiveVars, RequestType
  <2> QED BY <2>1, <2>2 DEF TypeOK
<1>2. ASSUME NEW s \in Senders, NEW c \in Channels, ReceiveBegin(s, c) PROVE
    TypeOK'
  <2>1. /\ TableType'
        /\ PauseType'
        /\ AgentType'
        /\ FaultType'
        /\ DeliveryType'
        /\ ExitType'
    BY <1>2 DEF ReceiveBegin, storeVars, Stored, pauseVars, agentVars,
        faultVars, deliveryHistory, exitHistory, TableType, PauseType,
        AgentType, FaultType, DeliveryType, ExitType
  <2>2. RequestType'
    BY <1>2 DEF ReceiveBegin, storeVars, receiveVars, RequestType
  <2> QED BY <2>1, <2>2 DEF TypeOK
<1>3. ASSUME NEW s \in Senders, Insert(s) PROVE TypeOK'
  <2>1. PauseType' /\ FaultType' /\ DeliveryType'
    BY <1>3 DEF Insert, pauseVars, faultVars, deliveryHistory, PauseType,
        FaultType, DeliveryType
  <2>2. TableType'
    BY <1>3 DEF Insert, storeVars, Stored, RequestType, Row, TableType
  <2>3. RequestType'
    BY <1>3 DEF Insert, storeVars, receiveVars, TableType, RequestType
  <2>4. AgentType'
    BY <1>3 DEF Insert, storeVars, agentVars, TableType, AgentType
  <2>5. ExitType'
    BY <1>3 DEF Insert, storeVars, exitHistory, TableType, ExitType
  <2> QED BY <2>1, <2>2, <2>3, <2>4, <2>5 DEF TypeOK
<1>4. ASSUME NEW s \in Senders, ReceiveFails(s) PROVE TypeOK'
  <2>1. /\ TableType'
        /\ PauseType'
        /\ AgentType'
        /\ FaultType'
        /\ DeliveryType'
        /\ ExitType'
    BY <1>4 DEF ReceiveFails, storeVars, Stored, pauseVars, agentVars,
        faultVars, deliveryHistory, exitHistory, TableType, PauseType,
        AgentType, FaultType, DeliveryType, ExitType
  <2>2. RequestType'
    BY <1>4 DEF ReceiveFails, storeVars, receiveVars, RequestType
  <2> QED BY <2>1, <2>2 DEF TypeOK
<1>5. ASSUME NEW p \in Pollers, NEW c \in Channels, PollTakes(p, c) PROVE
    TypeOK'
  <2>1. PauseType' /\ AgentType' /\ FaultType' /\ DeliveryType'
    BY <1>5 DEF PollTakes, pauseVars, storeVars, agentVars, faultVars,
        deliveryHistory, PauseType, AgentType, FaultType, DeliveryType
  <2>2. TableType'
    BY <1>5 DEF PollTakes, storeVars, Stored, Without, TableType
  <2>3. RequestType'
    BY <1>5 DEF PollTakes, storeVars, receiveVars, OldestOf, RowsOf,
        TableType, Row, Stored, RequestType
  <2>4. ExitType'
    BY <1>5 DEF PollTakes, storeVars, exitHistory, OldestOf, RowsOf,
        TableType, Stored, ExitType
  <2> QED BY <2>1, <2>2, <2>3, <2>4 DEF TypeOK
<1>6. ASSUME NEW p \in Pollers, PollAnswered(p) PROVE TypeOK'
  <2>1. /\ TableType'
        /\ PauseType'
        /\ AgentType'
        /\ FaultType'
        /\ DeliveryType'
        /\ ExitType'
    BY <1>6 DEF PollAnswered, storeVars, Stored, pauseVars, agentVars,
        faultVars, deliveryHistory, exitHistory, TableType, PauseType,
        AgentType, FaultType, DeliveryType, ExitType
  <2>2. RequestType'
    BY <1>6 DEF PollAnswered, storeVars, receiveVars, RequestType
  <2> QED BY <2>1, <2>2 DEF TypeOK
<1>7. ASSUME NEW p \in Pollers, PollUnanswered(p) PROVE TypeOK'
  <2>1. /\ TableType'
        /\ PauseType'
        /\ AgentType'
        /\ FaultType'
        /\ DeliveryType'
    BY <1>7 DEF PollUnanswered, storeVars, Stored, pauseVars, agentVars,
        faultVars, deliveryHistory, TableType, PauseType, AgentType,
        FaultType, DeliveryType
  <2>2. RequestType'
    BY <1>7 DEF PollUnanswered, storeVars, receiveVars, RequestType
  <2>3. ExitType'
    BY <1>7, AnswerIdsType DEF PollUnanswered, storeVars, exitHistory,
        ExitType
  <2> QED BY <2>1, <2>2, <2>3 DEF TypeOK
<1>8. ASSUME NEW id \in Ids, Delete(id) PROVE TypeOK'
  <2>1. /\ RequestType'
        /\ PauseType'
        /\ AgentType'
        /\ FaultType'
        /\ DeliveryType'
    BY <1>8 DEF Delete, storeVars, receiveVars, pauseVars, agentVars,
        faultVars, deliveryHistory, RequestType, PauseType, AgentType,
        FaultType, DeliveryType
  <2>2. TableType'
    BY <1>8 DEF Delete, storeVars, Stored, Without, TableType
  <2>3. ExitType'
    BY <1>8 DEF Delete, storeVars, exitHistory, TableType, Stored, ExitType
  <2> QED BY <2>1, <2>2, <2>3 DEF TypeOK
<1>9. ASSUME NEW c \in Channels, Clear(c) PROVE TypeOK'
  <2>1. /\ RequestType'
        /\ PauseType'
        /\ AgentType'
        /\ FaultType'
        /\ DeliveryType'
    BY <1>9 DEF Clear, storeVars, receiveVars, pauseVars, agentVars,
        faultVars, deliveryHistory, RequestType, PauseType, AgentType,
        FaultType, DeliveryType
  <2>2. TableType'
    BY <1>9 DEF Clear, storeVars, Stored, Without, TableType
  <2>3. ExitType'
    BY <1>9 DEF Clear, storeVars, exitHistory, RowsOf, TableType, Stored,
        ExitType
  <2> QED BY <2>1, <2>2, <2>3 DEF TypeOK
<1>10. ASSUME NEW c \in ForwardChannels, Pause(c) PROVE TypeOK'
  <2>1. /\ TableType'
        /\ RequestType'
        /\ AgentType'
        /\ FaultType'
        /\ DeliveryType'
        /\ ExitType'
    BY <1>10 DEF Pause, storeVars, Stored, receiveVars, agentVars,
        faultVars, deliveryHistory, exitHistory, TableType, RequestType,
        AgentType, FaultType, DeliveryType, ExitType
  <2>2. PauseType'
    BY <1>10 DEF Pause, pauseVars, PauseType
  <2> QED BY <2>1, <2>2 DEF TypeOK
<1>11. ASSUME NEW c \in ForwardChannels, Resume(c) PROVE TypeOK'
  <2>1. /\ TableType'
        /\ RequestType'
        /\ AgentType'
        /\ FaultType'
        /\ DeliveryType'
        /\ ExitType'
    BY <1>11 DEF Resume, storeVars, Stored, receiveVars, agentVars,
        faultVars, deliveryHistory, exitHistory, TableType, RequestType,
        AgentType, FaultType, DeliveryType, ExitType
  <2>2. PauseType'
    BY <1>11 DEF Resume, pauseVars, PauseType
  <2> QED BY <2>1, <2>2 DEF TypeOK
<1>12. ASSUME NEW c \in ForwardChannels, CheckPause(c) PROVE TypeOK'
  <2>1. /\ TableType'
        /\ RequestType'
        /\ PauseType'
        /\ FaultType'
        /\ DeliveryType'
        /\ ExitType'
    BY <1>12 DEF CheckPause, storeVars, Stored, receiveVars, pauseVars,
        faultVars, deliveryHistory, exitHistory, TableType, RequestType,
        PauseType, FaultType, DeliveryType, ExitType
  <2>2. AgentType'
    BY <1>12 DEF CheckPause, storeVars, agentVars, MoveTo, Agents, Places,
        Attempting, AgentType
  <2> QED BY <2>1, <2>2 DEF TypeOK
<1>13. ASSUME NEW c \in ForwardChannels, PeekDue(c) PROVE TypeOK'
  <2>1. TableType' /\ RequestType' /\ FaultType' /\ ExitType'
    BY <1>13 DEF PeekDue, storeVars, Stored, receiveVars, faultVars,
        exitHistory, TableType, RequestType, FaultType, ExitType
  <2>2. PauseType'
    BY <1>13 DEF PeekDue, pauseVars, Add, PauseType
  <2>3. AgentType'
    BY <1>13 DEF PeekDue, storeVars, agentVars, TakeCopy, MoveTo, Agents,
        Places, Attempting, Due, RowsOf, TableType, Row, Stored, AgentType
  <2>4. DeliveryType'
    BY <1>13, AddType DEF PeekDue, deliveryHistory, TakeCopy, DeliveryType
  <2> QED BY <2>1, <2>2, <2>3, <2>4 DEF TypeOK
<1>14. ASSUME NEW c \in ForwardChannels, PeekNothing(c) PROVE TypeOK'
  <2>1. /\ TableType'
        /\ RequestType'
        /\ PauseType'
        /\ FaultType'
        /\ DeliveryType'
        /\ ExitType'
    BY <1>14 DEF PeekNothing, storeVars, Stored, receiveVars, pauseVars,
        faultVars, deliveryHistory, exitHistory, TableType, RequestType,
        PauseType, FaultType, DeliveryType, ExitType
  <2>2. AgentType'
    BY <1>14 DEF PeekNothing, storeVars, agentVars, EndAttempt, MoveTo,
        Agents, Places, Attempting, TableType, AgentType
  <2> QED BY <2>1, <2>2 DEF TypeOK
<1>15. ASSUME NEW c \in ForwardChannels, PeekFails(c) PROVE TypeOK'
  <2>1. /\ TableType'
        /\ RequestType'
        /\ PauseType'
        /\ DeliveryType'
        /\ ExitType'
    BY <1>15 DEF PeekFails, storeVars, Stored, receiveVars, pauseVars,
        deliveryHistory, exitHistory, TableType, RequestType, PauseType,
        DeliveryType, ExitType
  <2>2. AgentType'
    BY <1>15 DEF PeekFails, storeVars, agentVars, EndAttempt, MoveTo,
        Agents, Places, Attempting, TableType, AgentType
  <2>3. FaultType'
    BY <1>15 DEF PeekFails, faultVars, StorageFault, FaultType
  <2> QED BY <2>1, <2>2, <2>3 DEF TypeOK
<1>16. ASSUME NEW c \in ForwardChannels, Wake(c) PROVE TypeOK'
  <2>1. /\ TableType'
        /\ RequestType'
        /\ PauseType'
        /\ FaultType'
        /\ DeliveryType'
        /\ ExitType'
    BY <1>16 DEF Wake, storeVars, Stored, receiveVars, pauseVars, faultVars,
        deliveryHistory, exitHistory, TableType, RequestType, PauseType,
        FaultType, DeliveryType, ExitType
  <2>2. AgentType'
    BY <1>16 DEF Wake, storeVars, agentVars, EndAttempt, MoveTo, Agents,
        Places, Attempting, TableType, AgentType
  <2> QED BY <2>1, <2>2 DEF TypeOK
<1>17. ASSUME NEW id \in Ids, DelayElapses(id) PROVE TypeOK'
  <2>1. /\ RequestType'
        /\ PauseType'
        /\ AgentType'
        /\ FaultType'
        /\ DeliveryType'
        /\ ExitType'
    BY <1>17 DEF DelayElapses, storeVars, receiveVars, pauseVars, agentVars,
        faultVars, deliveryHistory, exitHistory, RequestType, PauseType,
        AgentType, FaultType, DeliveryType, ExitType
  <2>2. TableType'
    BY <1>17 DEF DelayElapses, storeVars, Stored, WithDelivery, Row,
        TableType
  <2> QED BY <2>1, <2>2 DEF TypeOK
<1>18. ASSUME NEW o \in Retriers, NEW c \in ForwardChannels, NEW id \in Ids,
    RetryLoad(o, c, id) PROVE TypeOK'
  <2>1. TableType' /\ RequestType' /\ PauseType' /\ ExitType'
    BY <1>18 DEF RetryLoad, storeVars, Stored, receiveVars, pauseVars,
        exitHistory, TableType, RequestType, PauseType, ExitType
  <2>2. FaultType'
    BY <1>18 DEF RetryLoad, faultVars, FaultType
  <2>3. AgentType'
    BY <1>18 DEF RetryLoad, storeVars, agentVars, TakeCopy, MoveTo, Agents,
        Places, Attempting, Due, RowsOf, TableType, Row, Stored, AgentType
  <2>4. DeliveryType'
    BY <1>18, AddType DEF RetryLoad, deliveryHistory, TakeCopy, DeliveryType
  <2> QED BY <2>1, <2>2, <2>3, <2>4 DEF TypeOK
<1>19. ASSUME NEW o \in Retriers, RetryAbandoned(o) PROVE TypeOK'
  <2>1. TableType' /\ RequestType' /\ PauseType' /\ FaultType' /\ ExitType'
    BY <1>19 DEF RetryAbandoned, storeVars, Stored, receiveVars, pauseVars,
        faultVars, exitHistory, TableType, RequestType, PauseType,
        FaultType, ExitType
  <2>2. AgentType'
    BY <1>19 DEF RetryAbandoned, storeVars, agentVars, EndAttempt, MoveTo,
        Agents, Places, Attempting, TableType, AgentType
  <2>3. DeliveryType'
    BY <1>19, AddType DEF RetryAbandoned, deliveryHistory, DeliveryType
  <2> QED BY <2>1, <2>2, <2>3 DEF TypeOK
<1>20. ASSUME NEW a \in Agents, TargetAccepts(a) PROVE TypeOK'
  <2>1. TableType' /\ RequestType' /\ PauseType' /\ FaultType' /\ ExitType'
    BY <1>20 DEF TargetAccepts, storeVars, Stored, receiveVars, pauseVars,
        faultVars, exitHistory, TableType, RequestType, PauseType,
        FaultType, ExitType
  <2>2. AgentType'
    BY <1>20 DEF TargetAccepts, storeVars, agentVars, EndAttempt, MoveTo,
        Agents, Places, Attempting, TableType, AgentType
  <2>3. DeliveryType'
    BY <1>20, AddType DEF TargetAccepts, deliveryHistory, DeliveryType
  <2> QED BY <2>1, <2>2, <2>3 DEF TypeOK
<1>21. ASSUME NEW a \in Agents, AnswerLost(a) PROVE TypeOK'
  <2>1. TableType' /\ RequestType' /\ PauseType' /\ FaultType' /\ ExitType'
    BY <1>21 DEF AnswerLost, storeVars, Stored, receiveVars, pauseVars,
        faultVars, exitHistory, TableType, RequestType, PauseType,
        FaultType, ExitType
  <2>2. AgentType'
    BY <1>21 DEF AnswerLost, storeVars, agentVars, EndAttempt, MoveTo,
        Agents, Places, Attempting, TableType, AgentType
  <2>3. DeliveryType'
    BY <1>21, AddType DEF AnswerLost, deliveryHistory, DeliveryType
  <2> QED BY <2>1, <2>2, <2>3 DEF TypeOK
<1>22. ASSUME NEW a \in Agents, TargetRefuses(a) PROVE TypeOK'
  <2>1. TableType' /\ RequestType' /\ PauseType' /\ FaultType' /\ ExitType'
    BY <1>22 DEF TargetRefuses, storeVars, Stored, receiveVars, pauseVars,
        faultVars, exitHistory, TableType, RequestType, PauseType,
        FaultType, ExitType
  <2>2. AgentType'
    BY <1>22 DEF TargetRefuses, storeVars, agentVars, EndAttempt, MoveTo,
        Agents, Places, Attempting, TableType, AgentType
  <2>3. DeliveryType'
    BY <1>22, AddType DEF TargetRefuses, deliveryHistory, DeliveryType
  <2> QED BY <2>1, <2>2, <2>3 DEF TypeOK
<1>23. ASSUME NEW a \in Agents, RemoveDelivered(a) PROVE TypeOK'
  <2>1. /\ RequestType'
        /\ PauseType'
        /\ FaultType'
        /\ DeliveryType'
        /\ ExitType'
    BY <1>23 DEF RemoveDelivered, storeVars, receiveVars, pauseVars,
        faultVars, deliveryHistory, exitHistory, RequestType, PauseType,
        FaultType, DeliveryType, ExitType
  <2>2. TableType'
    BY <1>23 DEF RemoveDelivered, storeVars, Stored, Without, TableType
  <2>3. AgentType'
    BY <1>23 DEF RemoveDelivered, storeVars, agentVars, EndAttempt, MoveTo,
        Agents, Places, Attempting, TableType, StartOf, AgentType
  <2> QED BY <2>1, <2>2, <2>3 DEF TypeOK
<1>24. ASSUME NEW a \in Agents, RemoveFails(a) PROVE TypeOK'
  <2>1. TableType' /\ RequestType' /\ PauseType' /\ ExitType'
    BY <1>24 DEF RemoveFails, storeVars, Stored, receiveVars, pauseVars,
        exitHistory, TableType, RequestType, PauseType, ExitType
  <2>2. AgentType'
    BY <1>24 DEF RemoveFails, storeVars, agentVars, EndAttempt, MoveTo,
        Agents, Places, Attempting, TableType, AgentType
  <2>3. FaultType'
    BY <1>24 DEF RemoveFails, faultVars, StorageFault, FaultType
  <2>4. DeliveryType'
    BY <1>24, AddType DEF RemoveFails, deliveryHistory, DeliveryType
  <2> QED BY <2>1, <2>2, <2>3, <2>4 DEF TypeOK
<1>25. ASSUME NEW a \in Agents, RecordFailure(a) PROVE TypeOK'
  <2>1. RequestType' /\ PauseType' /\ FaultType' /\ ExitType'
    BY <1>25 DEF RecordFailure, storeVars, receiveVars, pauseVars,
        faultVars, exitHistory, RequestType, PauseType, FaultType, ExitType
  <2>2. TableType'
    BY <1>25 DEF RecordFailure, storeVars, Stored, WithDelivery, Row,
        TableType
  <2>3. AgentType'
    BY <1>25 DEF RecordFailure, storeVars, agentVars, LeaveRecord, EndAttempt,
        MoveTo, Agents, Places, Attempting, TableType, AgentType
  <2>4. DeliveryType'
    BY <1>25 DEF RecordFailure, deliveryHistory, DeliveryType
  <2> QED BY <2>1, <2>2, <2>3, <2>4 DEF TypeOK
<1>26. ASSUME NEW a \in Agents, RecordFails(a) PROVE TypeOK'
  <2>1. TableType' /\ RequestType' /\ PauseType' /\ ExitType'
    BY <1>26 DEF RecordFails, storeVars, Stored, receiveVars, pauseVars,
        exitHistory, TableType, RequestType, PauseType, ExitType
  <2>2. AgentType'
    BY <1>26 DEF RecordFails, storeVars, agentVars, LeaveRecord, EndAttempt,
        MoveTo, Agents, Places, Attempting, TableType, AgentType
  <2>3. FaultType'
    BY <1>26 DEF RecordFails, faultVars, StorageFault, FaultType
  <2>4. DeliveryType'
    BY <1>26, AddType DEF RecordFails, deliveryHistory, DeliveryType
  <2> QED BY <2>1, <2>2, <2>3, <2>4 DEF TypeOK
<1>27. ASSUME Crash PROVE TypeOK'
  <2>1. TableType'
    BY <1>27 DEF Crash, storeVars, Stored, TableType
  <2>2. RequestType'
    BY <1>27 DEF Crash, storeVars, receiveVars, RequestType
  <2>3. PauseType'
    BY <1>27 DEF Crash, pauseVars, PauseType
  <2>4. AgentType'
    BY <1>27 DEF Crash, storeVars, agentVars, Agents, Places, Attempting,
        StartOf, TableType, AgentType
  <2>5. FaultType'
    BY <1>27 DEF Crash, faultVars, FaultType
  <2>6. DeliveryType'
    BY <1>27, AgentsAtType DEF Crash, deliveryHistory, DeliveryType
  <2>7. ExitType'
    BY <1>27, AnswerIdsType DEF Crash, storeVars, exitHistory, ExitType
  <2> QED BY <2>1, <2>2, <2>3, <2>4, <2>5, <2>6, <2>7 DEF TypeOK
<1>28. ASSUME NEW c \in ForwardChannels, Report(c) PROVE TypeOK'
  <2>1. /\ TableType'
        /\ RequestType'
        /\ PauseType'
        /\ FaultType'
        /\ ExitType'
    BY <1>28 DEF Report, storeVars, Stored, receiveVars, pauseVars, faultVars,
        exitHistory, TableType, RequestType, PauseType, FaultType, ExitType
  <2>2. AgentType'
    BY <1>28 DEF Report, storeVars, agentVars, EndAttempt, MoveTo, Agents,
        Places, Attempting, TableType, AgentType
  <2>3. DeliveryType'
    BY <1>28, AddType DEF Report, deliveryHistory, DeliveryType
  <2> QED BY <2>1, <2>2, <2>3 DEF TypeOK
<1>29. CASE UNCHANGED vars
  BY <1>29 DEF vars, storeVars, receiveVars, pauseVars, agentVars, faultVars,
     deliveryHistory, exitHistory, TableType, RequestType, PauseType, AgentType,
     FaultType, DeliveryType, ExitType, Stored
<1> QED
  BY <1>1, <1>2, <1>3, <1>4, <1>5, <1>6, <1>7, <1>8, <1>9, <1>10, <1>11,
      <1>12, <1>13, <1>14, <1>15, <1>16, <1>17, <1>18, <1>19, <1>20, <1>21,
      <1>22, <1>23, <1>24, <1>25, <1>26, <1>27, <1>28, <1>29
     DEF Next, Receiver, Poller, Operator, Forwarder, Retrier, Attempt, Agents

\* Every variable keeps its type, and nothing names an id not yet given out.
THEOREM TypeCorrect == Spec => []TypeOK
<1>1. Init => TypeOK
  BY ChannelAssumption, BoundAssumption DEF Init, TypeOK, TableType, RequestType,
     PauseType, AgentType, FaultType, DeliveryType, ExitType, StartOf, Ids, Row,
     Agents, Places, Attempting, Stored
<1> QED BY <1>1, TypeStep, PTL DEF Spec
=============================================================================
