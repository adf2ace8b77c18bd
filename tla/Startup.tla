------------------------------ MODULE Startup ------------------------------
(***************************************************************************)
(* Processes that start on one database file, as in a rolling deploy: each *)
(* reads the same configuration, checks it, opens the file, creates the    *)
(* table, looks which columns are missing, adds them and serves.  Every    *)
(* statement is a step, so two migrations interleave; a statement that     *)
(* writes may give up on a lock (retry_on_locked is LockRetry), any step may*)
(* fail for another reason, and a process may die anywhere.  Whoever runs   *)
(* kwp starts it again.                                                    *)
(***************************************************************************)
EXTENDS ChannelConfig

CONSTANTS
    Instances,      \* the processes: the old and the new one of a deploy
    Deployments,    \* what they may find: configuration, file, journal mode
    MaxFaults,      \* bound: steps that give up on a lock or fail otherwise
    MaxCrashes      \* bound: processes that die

VARIABLES
    raw,            \* environment and config.yml, the same for every start
    table,          \* columns added to the table so far; None: no table yet
    wal,            \* the file is in WAL mode
    phase,          \* how far each process has come
    missing,        \* columns the process found missing and has not added
    stopReason,     \* why its last start failed, "none" if it did not
    sawMigrated,    \* it is starting, and found a migrated database
    faults,
    crashes

databaseVars == <<table, wal>>
processVars == <<phase, missing, stopReason, sawMigrated>>
startupVars == <<raw, databaseVars, processVars, faults, crashes>>

ADDED_COLUMNS ==
    <<"forward_attempts", "last_attempt_at", "last_attempt_error", "next_attempt_at">>

Added == {ADDED_COLUMNS[k] : k \in DOMAIN ADDED_COLUMNS}

\* What a process may find was left by kwp: a table with some of the columns, a
\* list of channels, and intervals and limits that are unsigned numbers.
ASSUME StartupAssumption ==
    /\ Instances # {}
    /\ MaxFaults \in Nat /\ MaxCrashes \in Nat
    /\ \A columns \in SUBSET Added : columns # None
    /\ \A d \in Deployments :
           /\ d.table = None \/ d.table \subseteq Added
           /\ d.wal \in BOOLEAN
           /\ d.raw.DEFAULT_BODY_LIMIT \notin {None, Unparsable} =>
                  d.raw.DEFAULT_BODY_LIMIT \in Nat
           /\ d.raw.channels # None =>
                  /\ DOMAIN d.raw.channels \subseteq Nat
                  /\ \A ch \in ChannelsOf(d.raw) :
                         /\ ch.forward # None => ch.forward.interval_seconds \in Nat
                         /\ ch.max_body_size # None => ch.max_body_size \in Nat

Phases ==
    {"load", "connect", "create", "inspect", "add", "listen", "serve", "stopped"}
Migrated == wal /\ table = Added
Sound == CanLoad(raw) /\ ValidateConfig(Load(raw))

\* What no check of the configuration looks at: that the database is a file the
\* process can open, and the address one it can listen on.
CanOpen == raw.DATABASE_URL # "unusable"
CanListen == raw.BIND_ADDRESS # "unusable"

\* Forwarders run before anybody can call.
Forwarding(i) == phase[i] \in {"listen", "serve"}

\* The columns are added in the order of the list.
NextColumn(i) ==
    LET k == CHOOSE k \in DOMAIN ADDED_COLUMNS :
                 /\ ADDED_COLUMNS[k] \in missing[i]
                 /\ \A j \in DOMAIN ADDED_COLUMNS :
                        ADDED_COLUMNS[j] \in missing[i] => k <= j
    IN  ADDED_COLUMNS[k]

MoveOn(i, from, to) ==
    /\ phase[i] = from
    /\ phase' = [phase EXCEPT ![i] = to]

Stop(i, from, why) ==
    /\ MoveOn(i, from, "stopped")
    /\ stopReason' = [stopReason EXCEPT ![i] = why]

-----------------------------------------------------------------------------
\* load and validate_config, before anything is opened.
ReadConfig(i) ==
    /\ MoveOn(i, "load", "connect")
    /\ Sound
    /\ sawMigrated' = [sawMigrated EXCEPT ![i] = Migrated]
    /\ UNCHANGED <<raw, databaseVars, missing, stopReason, faults, crashes>>

RefuseConfig(i) ==
    /\ Stop(i, "load", "config")
    /\ ~Sound
    /\ UNCHANGED <<raw, databaseVars, missing, sawMigrated, faults, crashes>>

\* journal_mode = WAL on the first connection.
Connect(i) ==
    /\ CanOpen
    /\ MoveOn(i, "connect", "create")
    /\ wal' = TRUE
    /\ UNCHANGED <<raw, table, missing, stopReason, sawMigrated, faults, crashes>>

CannotOpen(i) ==
    /\ ~CanOpen
    /\ Stop(i, "connect", "environment")
    /\ UNCHANGED <<raw, databaseVars, missing, sawMigrated, faults, crashes>>

\* Wrong on purpose: a table that is there already is an error.
CreateSchema_Bare(i) ==
    /\ IF table = None THEN MoveOn(i, "create", "inspect") /\ UNCHANGED stopReason
       ELSE Stop(i, "create", "table exists")
    /\ table' = OrElse(table, {})
    /\ UNCHANGED <<raw, wal, missing, sawMigrated, faults, crashes>>

\* CREATE TABLE IF NOT EXISTS; the indexes decide nothing here.
CreateSchema(i) ==
    /\ MoveOn(i, "create", "inspect")
    /\ table' = OrElse(table, {})
    /\ UNCHANGED <<raw, wal, missing, stopReason, sawMigrated, faults, crashes>>

\* Wrong on purpose: every column is added without looking.
ExistingColumns_Unread(i) ==
    /\ MoveOn(i, "inspect", "add")
    /\ missing' = [missing EXCEPT ![i] = Added]
    /\ UNCHANGED <<raw, databaseVars, stopReason, sawMigrated, faults, crashes>>

\* PRAGMA table_info.
ExistingColumns(i) ==
    /\ MoveOn(i, "inspect", "add")
    /\ missing' = [missing EXCEPT ![i] = Added \ table]
    /\ UNCHANGED <<raw, databaseVars, stopReason, sawMigrated, faults, crashes>>

AddColumn(i) ==
    /\ phase[i] = "add"
    /\ missing[i] # {}
    /\ NextColumn(i) \notin table
    /\ table' = table \cup {NextColumn(i)}
    /\ missing' = [missing EXCEPT ![i] = @ \ {NextColumn(i)}]
    /\ UNCHANGED <<raw, wal, phase, stopReason, sawMigrated, faults, crashes>>

\* Wrong on purpose: it is taken to mean that the other one adds them all.
ColumnAlreadyAdded_SkipsRest(i) ==
    /\ phase[i] = "add"
    /\ missing[i] # {}
    /\ NextColumn(i) \in table
    /\ missing' = [missing EXCEPT ![i] = {}]
    /\ UNCHANGED <<raw, databaseVars, phase, stopReason, sawMigrated, faults, crashes>>

\* Another process added it since this one looked: "duplicate column" is success.
ColumnAlreadyAdded(i) ==
    /\ phase[i] = "add"
    /\ missing[i] # {}
    /\ NextColumn(i) \in table
    /\ missing' = [missing EXCEPT ![i] = @ \ {NextColumn(i)}]
    /\ UNCHANGED <<raw, databaseVars, phase, stopReason, sawMigrated, faults, crashes>>

\* The HTTP client is built, a forwarder spawned for every channel that has a
\* target, and the recorder of the metrics installed.
SpawnForwarders(i) ==
    /\ missing[i] = {}
    /\ MoveOn(i, "add", "listen")
    /\ UNCHANGED <<raw, databaseVars, missing, stopReason, sawMigrated, faults, crashes>>

\* The listener is bound, and calls are answered.
Listen(i) ==
    /\ CanListen
    /\ MoveOn(i, "listen", "serve")
    /\ stopReason' = [stopReason EXCEPT ![i] = "none"]
    /\ sawMigrated' = [sawMigrated EXCEPT ![i] = FALSE]
    /\ UNCHANGED <<raw, databaseVars, missing, faults, crashes>>

\* The forwarders that run already go down with the process.
CannotListen(i) ==
    /\ ~CanListen
    /\ Stop(i, "listen", "environment")
    /\ UNCHANGED <<raw, databaseVars, missing, sawMigrated, faults, crashes>>

\* The statement has to wait for the write lock, or for the exclusive lock
\* that the switch to WAL takes.
NeedsLock(i) ==
    \/ phase[i] = "connect" /\ ~wal
    \/ phase[i] = "create" /\ table = None
    \/ phase[i] = "add" /\ missing[i] # {}

Locked(i) ==
    /\ NeedsLock(i)
    /\ faults < MaxFaults
    /\ faults' = faults + 1
    /\ Stop(i, phase[i], "locked")
    /\ UNCHANGED <<raw, databaseVars, missing, sawMigrated, crashes>>

\* Any of the steps may fail for a reason that passes: a file that cannot be
\* read, a full disk, the HTTP client, an address the other process still has.
Fails(i) ==
    /\ phase[i] \in {"connect", "create", "inspect", "add", "listen"}
    /\ faults < MaxFaults
    /\ faults' = faults + 1
    /\ Stop(i, phase[i], "environment")
    /\ UNCHANGED <<raw, databaseVars, missing, sawMigrated, crashes>>

\* What was seen is gone with the process.
Begin(i) ==
    /\ phase' = [phase EXCEPT ![i] = "load"]
    /\ missing' = [missing EXCEPT ![i] = {}]
    /\ sawMigrated' = [sawMigrated EXCEPT ![i] = FALSE]

Restart(i) ==
    /\ phase[i] = "stopped"
    /\ Begin(i)
    /\ UNCHANGED <<raw, databaseVars, stopReason, faults, crashes>>

Crash(i) ==
    /\ phase[i] \notin {"load", "stopped"}
    /\ crashes < MaxCrashes
    /\ crashes' = crashes + 1
    /\ Begin(i)
    /\ UNCHANGED <<raw, databaseVars, stopReason, faults>>

-----------------------------------------------------------------------------
StartupInit ==
    /\ \E d \in Deployments : raw = d.raw /\ table = d.table /\ wal = d.wal
    /\ phase = [i \in Instances |-> "load"]
    /\ missing = [i \in Instances |-> {}]
    /\ stopReason = [i \in Instances |-> "none"]
    /\ sawMigrated = [i \in Instances |-> FALSE]
    /\ faults = 0
    /\ crashes = 0

Starting(i) ==
    \/ ReadConfig(i)
    \/ RefuseConfig(i)
    \/ Connect(i)
    \/ CannotOpen(i)
    \/ CreateSchema(i)
    \/ ExistingColumns(i)
    \/ AddColumn(i)
    \/ ColumnAlreadyAdded(i)
    \/ SpawnForwarders(i)
    \/ Listen(i)
    \/ CannotListen(i)
    \/ Restart(i)

StartupNext ==
    \E i \in Instances : Starting(i) \/ Locked(i) \/ Fails(i) \/ Crash(i)

-----------------------------------------------------------------------------
(* Properties. *)

StartupType ==
    /\ table = None \/ table \subseteq Added
    /\ wal \in BOOLEAN
    /\ phase \in [Instances -> Phases]
    /\ missing \in [Instances -> SUBSET Added]
    /\ stopReason \in [Instances -> {"none", "config", "locked", "environment"}]
    /\ sawMigrated \in [Instances -> BOOLEAN]
    /\ faults \in 0..MaxFaults
    /\ crashes \in 0..MaxCrashes

\* Whoever forwards or serves finds every column its statements name, although
\* another process migrated the same file at the same time or died half way
\* (migrate).
ServingSeesSchema ==
    \A i \in Instances : Forwarding(i) => Migrated

\* A process that starts on a migrated database issues no write, so a lock held
\* by the process it replaces cannot stop it (comment in migrate).
RestartNeedsNoLock ==
    \A i \in Instances :
        phase[i] = "stopped" /\ stopReason[i] = "locked" => ~sawMigrated[i]
=============================================================================
