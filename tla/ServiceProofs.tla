---------------------------- MODULE ServiceProofs ---------------------------
(***************************************************************************)
(* What starting gives, for any number of processes, any configurations    *)
(* and files they may find, and any bounds on faults.  None of the         *)
(* properties is inductive: that a process which serves sees the schema    *)
(* rests on what every process knows at every phase (Knows), and on the    *)
(* database only ever gaining columns (Grows).                             *)
(***************************************************************************)
EXTENDS Service, TLAPS

\* What process i may rely on, from its phase alone.
Knows(i) ==
    /\ phase[i] \in {"create", "inspect", "add", "listen", "serve"} => wal
    /\ phase[i] \in {"inspect", "add", "listen", "serve"} => table \subseteq Added
    /\ phase[i] = "add" => Added \ table \subseteq missing[i]
    /\ phase[i] \in {"listen", "serve"} => table = Added
    /\ phase[i] \notin {"load", "stopped"} => Sound
    /\ sawMigrated[i] => Migrated
    /\ sawMigrated[i] /\ phase[i] = "add" => missing[i] = {}
    /\ phase[i] = "stopped" /\ stopReason[i] = "locked" => ~sawMigrated[i]

Found == \E d \in Deployments : raw = d.raw

StartupInv == StartupType /\ Found /\ \A i \in Instances : Knows(i)

\* The database keeps its mode and its columns.
Grows ==
    /\ wal => wal'
    /\ table \subseteq Added => table \subseteq table' /\ table' \subseteq Added
    /\ table' = None \/ table' \subseteq Added
    /\ wal' \in BOOLEAN
    /\ raw' = raw

\* Nothing of process i changes.
Rests(i) ==
    /\ phase'[i] = phase[i] /\ missing'[i] = missing[i]
    /\ stopReason'[i] = stopReason[i] /\ sawMigrated'[i] = sawMigrated[i]

\* The next column is one that is missing.
LEMMA NextColumnMissing ==
    ASSUME NEW i, missing[i] \subseteq Added, missing[i] # {}
    PROVE  NextColumn(i) \in missing[i]
<1> DEFINE Least(k) ==
        /\ ADDED_COLUMNS[k] \in missing[i]
        /\ \A j \in DOMAIN ADDED_COLUMNS : ADDED_COLUMNS[j] \in missing[i] => k <= j
<1>1. DOMAIN ADDED_COLUMNS = 1..4
  BY DEF ADDED_COLUMNS
<1>2. \E k \in 1..4 : ADDED_COLUMNS[k] \in missing[i]
  BY <1>1 DEF Added
<1>3. \E k \in 1..4 : Least(k)
  <2>1. CASE ADDED_COLUMNS[1] \in missing[i]
    BY <1>1, <2>1
  <2>2. CASE ADDED_COLUMNS[1] \notin missing[i] /\ ADDED_COLUMNS[2] \in missing[i]
    BY <1>1, <2>2
  <2>3. CASE /\ ADDED_COLUMNS[1] \notin missing[i] /\ ADDED_COLUMNS[2] \notin missing[i]
             /\ ADDED_COLUMNS[3] \in missing[i]
    BY <1>1, <2>3
  <2>4. CASE \A k \in 1..3 : ADDED_COLUMNS[k] \notin missing[i]
    BY <1>1, <1>2, <2>4
  <2> QED BY <2>1, <2>2, <2>3, <2>4
<1>4. PICK k \in DOMAIN ADDED_COLUMNS : Least(k)
  BY <1>1, <1>3
<1>5. NextColumn(i) = ADDED_COLUMNS[CHOOSE l \in DOMAIN ADDED_COLUMNS : Least(l)]
  BY DEF NextColumn
<1>6. Least(CHOOSE l \in DOMAIN ADDED_COLUMNS : Least(l))
  BY <1>4
<1> QED BY <1>5, <1>6

\* A process that rests keeps what it knows while the others go on.
LEMMA RestingKnows ==
    ASSUME NEW i, Knows(i), Grows, Rests(i)
    PROVE  Knows(i)'
BY StartupAssumption DEF Knows, Grows, Rests, Migrated, Sound

\* Steps that leave the database alone.
LEMMA UntouchedGrows ==
    ASSUME StartupType, UNCHANGED <<raw, databaseVars>>
    PROVE  Grows
BY DEF StartupType, Grows, databaseVars

\* From what every process knows after the step of one to the invariant.
LEMMA StepKeepsInv ==
    ASSUME StartupInv, StartupType', Grows, NEW i \in Instances, Knows(i)',
           \A j \in Instances : j # i => Rests(j)
    PROVE  StartupInv'
<1>1. \A j \in Instances : Knows(j)'
  BY RestingKnows DEF StartupInv
<1>2. Found'
  BY DEF StartupInv, Found, Grows
<1> QED BY <1>1, <1>2 DEF StartupInv

LEMMA ReadConfigKeepsInv ==
    ASSUME StartupInv, NEW i \in Instances, ReadConfig(i)
    PROVE  StartupInv'
<1> USE StartupAssumption DEF StartupInv
<1>1. StartupType'
  BY DEF StartupType, ReadConfig, MoveOn, databaseVars, Phases, Migrated
<1>2. Grows
  BY UntouchedGrows DEF ReadConfig
<1>3. \A j \in Instances : j # i => Rests(j)
  BY DEF StartupType, Rests, ReadConfig, MoveOn
<1>4. Knows(i)'
  BY DEF StartupType, ReadConfig, MoveOn, databaseVars, Knows, Migrated, Sound
<1> QED BY <1>1, <1>2, <1>3, <1>4, StepKeepsInv

LEMMA RefuseConfigKeepsInv ==
    ASSUME StartupInv, NEW i \in Instances, RefuseConfig(i)
    PROVE  StartupInv'
<1> USE StartupAssumption DEF StartupInv
<1>1. StartupType'
  BY DEF StartupType, RefuseConfig, Stop, MoveOn, databaseVars, Phases
<1>2. Grows
  BY UntouchedGrows DEF RefuseConfig
<1>3. \A j \in Instances : j # i => Rests(j)
  BY DEF StartupType, Rests, RefuseConfig, Stop, MoveOn
<1>4. Knows(i)'
  BY DEF StartupType, RefuseConfig, Stop, MoveOn, databaseVars, Knows, Migrated, Sound
<1> QED BY <1>1, <1>2, <1>3, <1>4, StepKeepsInv

LEMMA ConnectKeepsInv ==
    ASSUME StartupInv, NEW i \in Instances, Connect(i)
    PROVE  StartupInv'
<1> USE StartupAssumption DEF StartupInv
<1>1. StartupType'
  BY DEF StartupType, Connect, MoveOn, Phases
<1>2. Grows
  BY DEF StartupType, Connect, Grows
<1>3. \A j \in Instances : j # i => Rests(j)
  BY DEF StartupType, Rests, Connect, MoveOn
<1>4. Knows(i)'
  BY DEF StartupType, Connect, MoveOn, Knows, Migrated, Sound
<1> QED BY <1>1, <1>2, <1>3, <1>4, StepKeepsInv

LEMMA CreateSchemaKeepsInv ==
    ASSUME StartupInv, NEW i \in Instances, CreateSchema(i)
    PROVE  StartupInv'
<1> USE StartupAssumption DEF StartupInv
<1>1. StartupType'
  BY DEF StartupType, CreateSchema, MoveOn, Phases, OrElse
<1>2. Grows
  BY DEF StartupType, CreateSchema, Grows, OrElse
<1>3. \A j \in Instances : j # i => Rests(j)
  BY DEF StartupType, Rests, CreateSchema, MoveOn
<1>4. Knows(i)'
  BY DEF StartupType, CreateSchema, MoveOn, Knows, Migrated, Sound, OrElse
<1> QED BY <1>1, <1>2, <1>3, <1>4, StepKeepsInv

LEMMA ExistingColumnsKeepsInv ==
    ASSUME StartupInv, NEW i \in Instances, ExistingColumns(i)
    PROVE  StartupInv'
<1> USE StartupAssumption DEF StartupInv
<1>1. StartupType'
  BY DEF StartupType, ExistingColumns, MoveOn, databaseVars, Phases
<1>2. Grows
  BY UntouchedGrows DEF ExistingColumns
<1>3. \A j \in Instances : j # i => Rests(j)
  BY DEF StartupType, Rests, ExistingColumns, MoveOn
<1>4. Knows(i)'
  BY DEF StartupType, ExistingColumns, MoveOn, databaseVars, Knows, Migrated, Sound
<1> QED BY <1>1, <1>2, <1>3, <1>4, StepKeepsInv

LEMMA AddColumnKeepsInv ==
    ASSUME StartupInv, NEW i \in Instances, AddColumn(i)
    PROVE  StartupInv'
<1> USE StartupAssumption DEF StartupInv
<1>0. NextColumn(i) \in missing[i] /\ missing[i] \subseteq Added
  BY NextColumnMissing DEF AddColumn, StartupType
<1>a. table \subseteq Added
  BY DEF AddColumn, Knows
<1>1. StartupType'
  BY <1>0, <1>a DEF StartupType, AddColumn, Phases
<1>2. Grows
  BY <1>0, <1>a DEF StartupType, AddColumn, Grows
<1>3. \A j \in Instances : j # i => Rests(j)
  BY DEF StartupType, Rests, AddColumn
<1>4. Knows(i)'
  BY <1>0 DEF StartupType, AddColumn, Knows, Migrated, Sound
<1> QED BY <1>1, <1>2, <1>3, <1>4, StepKeepsInv

LEMMA ColumnAlreadyAddedKeepsInv ==
    ASSUME StartupInv, NEW i \in Instances, ColumnAlreadyAdded(i)
    PROVE  StartupInv'
<1> USE StartupAssumption DEF StartupInv
<1>1. StartupType'
  BY DEF StartupType, ColumnAlreadyAdded, databaseVars
<1>2. Grows
  BY UntouchedGrows DEF ColumnAlreadyAdded
<1>3. \A j \in Instances : j # i => Rests(j)
  BY DEF StartupType, Rests, ColumnAlreadyAdded
<1>4. Knows(i)'
  BY DEF StartupType, ColumnAlreadyAdded, databaseVars, Knows, Migrated, Sound
<1> QED BY <1>1, <1>2, <1>3, <1>4, StepKeepsInv

LEMMA SpawnForwardersKeepsInv ==
    ASSUME StartupInv, NEW i \in Instances, SpawnForwarders(i)
    PROVE  StartupInv'
<1> USE StartupAssumption DEF StartupInv
<1>1. StartupType'
  BY DEF StartupType, SpawnForwarders, MoveOn, databaseVars, Phases
<1>2. Grows
  BY UntouchedGrows DEF SpawnForwarders
<1>3. \A j \in Instances : j # i => Rests(j)
  BY DEF StartupType, Rests, SpawnForwarders, MoveOn
<1>4. Knows(i)'
  BY DEF StartupType, SpawnForwarders, MoveOn, databaseVars, Knows, Migrated, Sound
<1> QED BY <1>1, <1>2, <1>3, <1>4, StepKeepsInv

LEMMA ListenKeepsInv ==
    ASSUME StartupInv, NEW i \in Instances, Listen(i)
    PROVE  StartupInv'
<1> USE StartupAssumption DEF StartupInv
<1>1. StartupType'
  BY DEF StartupType, Listen, MoveOn, databaseVars, Phases
<1>2. Grows
  BY UntouchedGrows DEF Listen
<1>3. \A j \in Instances : j # i => Rests(j)
  BY DEF StartupType, Rests, Listen, MoveOn
<1>4. Knows(i)'
  BY DEF StartupType, Listen, MoveOn, databaseVars, Knows, Migrated, Sound
<1> QED BY <1>1, <1>2, <1>3, <1>4, StepKeepsInv

\* A step that stops the process for any reason but a lock.
LEMMA StopKeepsInv ==
    ASSUME StartupInv, NEW i \in Instances, NEW from,
           Stop(i, from, "environment"), faults' \in 0..MaxFaults,
           UNCHANGED <<raw, databaseVars, missing, sawMigrated, crashes>>
    PROVE  StartupInv'
<1> USE StartupAssumption DEF StartupInv
<1>1. StartupType'
  BY DEF StartupType, Stop, MoveOn, databaseVars, Phases
<1>2. Grows
  BY UntouchedGrows
<1>3. \A j \in Instances : j # i => Rests(j)
  BY DEF StartupType, Rests, Stop, MoveOn
<1>4. Knows(i)'
  BY DEF StartupType, Stop, MoveOn, databaseVars, Knows, Migrated, Sound
<1> QED BY <1>1, <1>2, <1>3, <1>4, StepKeepsInv

\* Only here it matters that a process which found the database migrated has
\* nothing to lock.
LEMMA LockedKeepsInv ==
    ASSUME StartupInv, NEW i \in Instances, Locked(i)
    PROVE  StartupInv'
<1> USE StartupAssumption DEF StartupInv
<1>1. StartupType'
  <2>0. faults \in 0..MaxFaults /\ faults < MaxFaults
        /\ faults' = faults + 1
    BY DEF StartupType, Locked
  <2>1. faults' \in 0..MaxFaults
    BY <2>0
  <2> QED BY <2>1 DEF StartupType, Locked, Stop, MoveOn, databaseVars, Phases
<1>2. Grows
  BY UntouchedGrows DEF Locked
<1>3. \A j \in Instances : j # i => Rests(j)
  BY DEF StartupType, Rests, Locked, Stop, MoveOn
<1>4. ~sawMigrated[i]
  <2>1. Added # None
    OBVIOUS
  <2> QED BY <2>1 DEF Locked, NeedsLock, Knows, Migrated
<1>5. Knows(i)'
  BY <1>4 DEF StartupType, Locked, Stop, MoveOn, databaseVars, Knows, Migrated, Sound
<1> QED BY <1>1, <1>2, <1>3, <1>5, StepKeepsInv

LEMMA BeginKeepsInv ==
    ASSUME StartupInv, NEW i \in Instances, Begin(i), UNCHANGED <<raw, databaseVars, stopReason>>,
           faults' \in 0..MaxFaults, crashes' \in 0..MaxCrashes
    PROVE  StartupInv'
<1> USE StartupAssumption DEF StartupInv
<1>1. StartupType'
  BY DEF StartupType, Begin, databaseVars, Phases
<1>2. Grows
  BY UntouchedGrows
<1>3. \A j \in Instances : j # i => Rests(j)
  BY DEF StartupType, Rests, Begin
<1>4. Knows(i)'
  BY DEF StartupType, Begin, databaseVars, Knows, Migrated, Sound
<1> QED BY <1>1, <1>2, <1>3, <1>4, StepKeepsInv

LEMMA InitHasInv == Init => StartupInv
<1> SUFFICES ASSUME Init PROVE StartupInv
  OBVIOUS
<1> USE StartupAssumption
<1>1. PICK d \in Deployments : raw = d.raw /\ table = d.table /\ wal = d.wal
  BY DEF Init, StartupInit
<1>2. StartupType
  BY <1>1 DEF Init, StartupInit, StartupType, Phases
<1>3. Found
  BY <1>1 DEF Found
<1>4. \A i \in Instances : Knows(i)
  BY <1>1 DEF Init, StartupInit, Knows
<1> QED BY <1>2, <1>3, <1>4 DEF StartupInv

LEMMA StartupStepKeepsInv ==
    ASSUME StartupInv, NEW i \in Instances, Starting(i) \/ Locked(i) \/ Fails(i) \/ Crash(i)
    PROVE  StartupInv'
<1>1. CASE ReadConfig(i)
  BY <1>1, ReadConfigKeepsInv
<1>2. CASE RefuseConfig(i)
  BY <1>2, RefuseConfigKeepsInv
<1>3. CASE Connect(i)
  BY <1>3, ConnectKeepsInv
<1>4. CASE CreateSchema(i)
  BY <1>4, CreateSchemaKeepsInv
<1>5. CASE ExistingColumns(i)
  BY <1>5, ExistingColumnsKeepsInv
<1>6. CASE AddColumn(i)
  BY <1>6, AddColumnKeepsInv
<1>7. CASE ColumnAlreadyAdded(i)
  BY <1>7, ColumnAlreadyAddedKeepsInv
<1>8. CASE SpawnForwarders(i)
  BY <1>8, SpawnForwardersKeepsInv
<1>9. CASE Restart(i)
  BY <1>9, BeginKeepsInv DEF Restart, StartupInv, StartupType
<1>10. CASE Locked(i)
  BY <1>10, LockedKeepsInv
<1>11. CASE Crash(i)
  <2>a. crashes \in 0..MaxCrashes /\ crashes < MaxCrashes /\ crashes' = crashes + 1
    BY <1>11 DEF Crash, StartupInv, StartupType
  <2>1. crashes' \in 0..MaxCrashes
    BY <2>a, StartupAssumption
  <2> QED BY <1>11, <2>1, BeginKeepsInv DEF Crash, StartupInv, StartupType
<1>12. CASE Listen(i)
  BY <1>12, ListenKeepsInv
<1>13. CASE CannotOpen(i) \/ CannotListen(i)
  BY <1>13, StopKeepsInv DEF CannotOpen, CannotListen, StartupInv, StartupType
<1>14. CASE Fails(i)
  <2>a. faults \in 0..MaxFaults /\ faults < MaxFaults /\ faults' = faults + 1
    BY <1>14 DEF Fails, StartupInv, StartupType
  <2>1. faults' \in 0..MaxFaults
    BY <2>a, StartupAssumption
  <2> QED BY <1>14, <2>1, StopKeepsInv DEF Fails
<1> QED BY <1>1, <1>2, <1>3, <1>4, <1>5, <1>6, <1>7, <1>8, <1>9, <1>10, <1>11,
           <1>12, <1>13, <1>14
        DEF Starting

\* Once nobody starts or dies, nothing that was known changes.
LEMMA UnchangedKeepsInv ==
    ASSUME StartupInv, UNCHANGED startupVars
    PROVE  StartupInv'
<1> USE DEF startupVars, databaseVars, processVars
<1>1. StartupType' /\ Found'
  BY DEF StartupInv, StartupType, Found
<1>2. ASSUME NEW i \in Instances PROVE Knows(i)'
  BY DEF StartupInv, Knows, Migrated, Sound
<1> QED BY <1>1, <1>2 DEF StartupInv

LEMMA CallsLeaveProcesses ==
    ASSUME NEW call, Handle(call)
    PROVE  UNCHANGED startupVars
BY DEF Handle, ReceiveWebhook, ReadWebhooks, ListWebhooks, DeleteWebhook, SignWebhook,
       TestSend, ControlQueue, ClearQueue, RetryWebhook, GetConfig, Answer

LEMMA StartupInvHolds == Spec => []StartupInv
<1>1. StartupInv /\ [Next]_vars => StartupInv'
  <2> SUFFICES ASSUME StartupInv, [Next]_vars PROVE StartupInv'
    OBVIOUS
  <2>1. CASE StartupNext /\ Deploy
    BY <2>1, StartupStepKeepsInv DEF StartupNext
  <2>2. CASE NextCall
    BY <2>2, UnchangedKeepsInv DEF NextCall
  <2>3. ASSUME NEW call \in Calls, Handle(call) PROVE StartupInv'
    BY <2>3, CallsLeaveProcesses, UnchangedKeepsInv
  <2>4. ASSUME NEW ch \in ChannelsOf(Config), Forward(ch) PROVE StartupInv'
    BY <2>4, UnchangedKeepsInv DEF Forward
  <2>5. CASE UNCHANGED vars
    BY <2>5, UnchangedKeepsInv DEF vars
  <2> QED BY <2>1, <2>2, <2>3, <2>4, <2>5 DEF Next
<1> QED BY <1>1, InitHasInv, PTL DEF Spec

-----------------------------------------------------------------------------
\* Every process that forwards or serves finds the whole schema, however many of
\* them migrate the file at the same time, fail and die half way (migrate).
THEOREM ServesWholeSchema == Spec => []ServingSeesSchema
<1>1. StartupInv => ServingSeesSchema
  BY DEF StartupInv, Knows, ServingSeesSchema, Forwarding, Migrated
<1> QED BY <1>1, StartupInvHolds, PTL

\* A lock cannot stop a process that was started on a migrated database.
THEOREM RestartsPastLocks == Spec => []RestartNeedsNoLock
<1>1. StartupInv => RestartNeedsNoLock
  BY DEF StartupInv, Knows, RestartNeedsNoLock
<1> QED BY <1>1, StartupInvHolds, PTL

\* Every forwarder of a running process has a schedule for which Backoff is
\* right, whatever the environment and the channels left to the defaults.
THEOREM SchedulesSound == Spec => []ScheduleSound
<1>1. ASSUME StartupInv, NEW i \in Instances, Forwarding(i),
             NEW ch \in ChannelsOf(Config), ch.forward # None
      PROVE  LET b == ResolveBackoff(ch.forward, Config.forward_backoff) IN
                /\ 1 <= b.base /\ b.base <= b.max
                /\ b.multiplier # NotFinite /\ 100 <= b.multiplier
                /\ b.jitter # NotFinite /\ 0 <= b.jitter /\ b.jitter <= 100
  <2> DEFINE b == ResolveBackoff(ch.forward, Config.forward_backoff)
  <2>1. CanLoad(raw) /\ ValidateForwardBackoff(Config)
    BY <1>1 DEF StartupInv, Knows, Forwarding, Sound, Config, ValidateConfig
  <2>2. /\ ch.forward.interval_seconds # 0
        /\ CheckBackoffValues(b.multiplier, b.max, b.jitter)
        /\ ch.forward.interval_seconds <= b.max
    BY <1>1, <2>1 DEF ValidateForwardBackoff
  <2>3. Config.channels = raw.channels
    BY DEF Config, Load
  <2>4. ch.forward.interval_seconds \in Nat
    <3>1. PICK d \in Deployments : raw = d.raw
      BY <1>1 DEF StartupInv, Found
    <3>2. d.raw.channels # None
      BY <2>1, <3>1 DEF CanLoad
    <3>3. ch \in ChannelsOf(d.raw)
      BY <2>3, <3>1 DEF ChannelsOf
    <3> QED BY <1>1, <3>2, <3>3, StartupAssumption
  <2>5. b.base = ch.forward.interval_seconds
    BY DEF ResolveBackoff
  <2> QED BY <2>2, <2>4, <2>5 DEF CheckBackoffValues
<1>2. StartupInv => ScheduleSound
  BY <1>1 DEF ScheduleSound
<1> QED BY <1>2, StartupInvHolds, PTL

\* The half of SoundOnesServe that is no liveness: with a configuration that does
\* not pass the checks no process serves or forwards, whatever restarts, faults
\* and crashes do.
OnlySoundServe == \A i \in Instances : Forwarding(i) => Sound

\* validate_config stands before everything else a start does (main).
THEOREM UnsoundNeverServes == Spec => []OnlySoundServe
<1>1. StartupInv => OnlySoundServe
  BY DEF StartupInv, Knows, Forwarding, OnlySoundServe
<1> QED BY <1>1, StartupInvHolds, PTL

-----------------------------------------------------------------------------
\* What is stored and what is answered have the parts the handlers rely on,
\* beside the types of the start.
THEOREM ServiceTypes == Spec => []TypeOK
<1> DEFINE Parts == /\ stored = None \/ DOMAIN stored = {"channel", "body", "headers"}
                    /\ answer = None \/ DOMAIN answer = {"call", "reply", "webhook"}
<1>1. Init => Parts
  BY DEF Init
<1>2. Parts /\ [Next]_vars => Parts'
  <2> SUFFICES ASSUME Parts, [Next]_vars PROVE Parts'
    OBVIOUS
  <2>1. CASE \/ StartupNext /\ Deploy
             \/ NextCall
             \/ UNCHANGED vars
    BY <2>1 DEF Deploy, NextCall, vars
  <2>2. ASSUME NEW call \in Calls, Handle(call) PROVE Parts'
    <3>1. DOMAIN answer' = {"call", "reply", "webhook"}
      BY <2>2 DEF Handle, ReceiveWebhook, ReadWebhooks, ListWebhooks, DeleteWebhook,
         SignWebhook, TestSend, ControlQueue, ClearQueue, RetryWebhook, GetConfig, Answer
    <3>2. \/ stored' = stored
          \/ stored' = None
          \/ DOMAIN stored' = {"channel", "body", "headers"}
      BY <2>2 DEF Handle, ReceiveWebhook, ReadWebhooks, ListWebhooks, DeleteWebhook,
         SignWebhook, TestSend, ControlQueue, ClearQueue, RetryWebhook, GetConfig, TakesIf
    <3> QED BY <3>1, <3>2
  <2>3. ASSUME NEW ch \in ChannelsOf(Config), Forward(ch) PROVE Parts'
    <3>1. stored' = stored \/ stored' = None
      BY <2>3 DEF Forward
    <3>2. DOMAIN answer' = {"call", "reply", "webhook"}
      BY <2>3 DEF Forward
    <3> QED BY <3>1, <3>2
  <2> QED BY <2>1, <2>2, <2>3 DEF Next
<1>3. StartupInv /\ Parts => TypeOK
  BY DEF StartupInv, TypeOK
<1> QED BY <1>1, <1>2, <1>3, StartupInvHolds, PTL DEF Spec
=============================================================================
