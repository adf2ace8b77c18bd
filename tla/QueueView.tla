----------------------------- MODULE QueueView -----------------------------
(***************************************************************************)
(* The queue page of the Web UI in front of the server: it polls the queue *)
(* of the selected channel, answers may come late and in any order, the    *)
(* operator switches channels and sends commands, and the server restarts. *)
(* Of the forwarder there is what the page can see: rows that leave or     *)
(* count a failure, and the status it keeps in memory.  Which rows are due *)
(* is left open.                                                           *)
(***************************************************************************)
EXTENDS Naturals, FiniteSets

CONSTANTS
    Channels,   \* the channels that forward
    Loads,      \* bound: numbers of the polls in flight
    MaxEvents,  \* bound: webhooks, passes of the forwarder, commands, switches,
                \* restarts and failed calls, before everything is quiet
    First,      \* the channel the page opens with; it has a webhook
    None

ASSUME FirstAssumption == First \in Channels

VARIABLES
    table,      \* the queued webhooks, all channels
    ids,        \* ids given out
    paused,     \* ChannelForwardStatus.paused of every channel
    queue_size, \* ChannelForwardStatus.queue_size
    note,       \* what the forwarder has yet to write into the status
    selected,   \* the channel the page shows
    items,      \* the rows it shows
    last,       \* lastItemsJson: the last list it adopted, None if it must adopt
    shown,      \* the status it shows
    loads,      \* its polls in flight
    command,    \* the operator's command in flight, None without one
    events

serverVars == <<table, ids, paused, queue_size, note>>
pageVars == <<selected, items, last, shown>>
vars == <<serverVars, pageVars, loads, command, events>>

RowsOf(c) == {row \in table : row.channel = c}

CountByChannel(c) == Cardinality(RowsOf(c))

Ids(rows) == {row.id : row \in rows}

WithoutId(rows, id) == {row \in rows : row.id # id}

CountFailure(id) ==
    {IF row.id = id THEN [row EXCEPT !.attempts = @ + 1] ELSE row : row \in table}

Decremented(n) == IF n = 0 THEN 0 ELSE n - 1

NewStatus == [paused |-> FALSE, queue_size |-> 0]

Happens == events < MaxEvents /\ events' = events + 1

-----------------------------------------------------------------------------
(* The server. *)

\* Wrong on purpose: without AUTOINCREMENT an id follows the highest one stored.
Receive_Reuses(c) ==
    /\ Happens
    /\ \E id \in 1..(ids + 1) :
           /\ \A row \in table : row.id < id
           /\ id = 1 \/ id - 1 \in Ids(table)
           /\ table' = table \cup {[id |-> id, channel |-> c, attempts |-> 0]}
    /\ ids' = ids + 1
    /\ UNCHANGED <<paused, queue_size, note, pageVars, loads, command>>

Receive(c) ==
    /\ Happens
    /\ table' = table \cup {[id |-> ids + 1, channel |-> c, attempts |-> 0]}
    /\ ids' = ids + 1
    /\ UNCHANGED <<paused, queue_size, note, pageVars, loads, command>>

\* The target accepts; the removal may fail.  The status is written later.
ForwardDelivers(c) ==
    /\ Happens
    /\ ~paused[c] /\ note[c] = None
    /\ \E row \in RowsOf(c) :
           \/ table' = WithoutId(table, row.id)
           \/ UNCHANGED table
    /\ note' = [note EXCEPT ![c] = [delivered |-> TRUE, count |-> 0]]
    /\ UNCHANGED <<ids, paused, queue_size, pageVars, loads, command>>

\* The record of the failure may fail in turn.
ForwardFails(c) ==
    /\ Happens
    /\ ~paused[c] /\ note[c] = None
    /\ \E row \in RowsOf(c) : table' \in {CountFailure(row.id), table}
    /\ UNCHANGED <<ids, paused, queue_size, note, pageVars, loads, command>>

\* Nothing is due: the queue is counted, and the count written later.
RefreshQueueSize(c) ==
    /\ Happens
    /\ ~paused[c] /\ note[c] = None
    /\ note' = [note EXCEPT ![c] =
                   [delivered |-> FALSE, count |-> CountByChannel(c)]]
    /\ UNCHANGED <<table, ids, paused, queue_size, pageVars, loads, command>>

\* Wrong on purpose: a fresh status with the new size replaces the old one.
UpdateStatus_Fresh(c) ==
    /\ note[c] # None
    /\ queue_size' = [queue_size EXCEPT ![c] =
                         IF note[c].delivered THEN Decremented(@) ELSE note[c].count]
    /\ paused' = [paused EXCEPT ![c] = NewStatus.paused]
    /\ note' = [note EXCEPT ![c] = None]
    /\ UNCHANGED <<table, ids, pageVars, loads, command, events>>

UpdateStatus(c) ==
    /\ note[c] # None
    /\ queue_size' = [queue_size EXCEPT ![c] =
                         IF note[c].delivered THEN Decremented(@) ELSE note[c].count]
    /\ note' = [note EXCEPT ![c] = None]
    /\ UNCHANGED <<table, ids, paused, pageVars, loads, command, events>>

-----------------------------------------------------------------------------
(* Polls: the list is read, then the status, then the page gets both. *)

NewLoad(c) == [channel |-> c, at |-> "sent", items |-> {}, status |-> NewStatus]

SendLoad(c) ==
    \E l \in Loads :
        /\ loads[l] = None /\ \A k \in Loads : k < l => loads[k] # None
        /\ loads' = [loads EXCEPT ![l] = NewLoad(c)]

ListQueue(l) ==
    /\ loads[l] # None /\ loads[l].at = "sent"
    /\ loads' = [loads EXCEPT ![l].at = "listed", ![l].items = RowsOf(loads[l].channel)]
    /\ UNCHANGED <<serverVars, pageVars, command, events>>

\* Wrong on purpose: the size is the one kept in memory.
ReadStatus_Memory(l) ==
    /\ loads[l] # None /\ loads[l].at = "listed"
    /\ loads' = [loads EXCEPT ![l].at = "answered",
           ![l].status = [paused |-> paused[loads[l].channel],
                          queue_size |-> queue_size[loads[l].channel]]]
    /\ UNCHANGED <<serverVars, pageVars, command, events>>

\* The size in memory is overwritten with the length of the list.
ReadStatus(l) ==
    /\ loads[l] # None /\ loads[l].at = "listed"
    /\ loads' = [loads EXCEPT ![l].at = "answered",
           ![l].status = [paused |-> paused[loads[l].channel],
                          queue_size |-> Cardinality(loads[l].items)]]
    /\ UNCHANGED <<serverVars, pageVars, command, events>>

\* Wrong on purpose: the failed poll is taken to be in flight for ever.
LoadFails_Stays(l) ==
    /\ Happens
    /\ loads[l] # None
    /\ loads' = [loads EXCEPT ![l].at = "failed"]
    /\ UNCHANGED <<serverVars, pageVars, command>>

LoadFails(l) ==
    /\ Happens
    /\ loads[l] # None
    /\ loads' = [loads EXCEPT ![l] = None]
    /\ UNCHANGED <<serverVars, pageVars, command>>

\* A list like the last one leaves the rows alone, whatever the page did to
\* them since; the status is adopted in any case.
AdoptAnswer(l) ==
    /\ loads[l] # None /\ loads[l].at = "answered"
    /\ items' = IF loads[l].items # last THEN loads[l].items ELSE items
    /\ last' = loads[l].items
    /\ shown' = loads[l].status
    /\ loads' = [loads EXCEPT ![l] = None]
    /\ UNCHANGED <<serverVars, selected, command, events>>

\* Every five seconds.
Poll ==
    /\ SendLoad(selected)
    /\ UNCHANGED <<serverVars, pageVars, command, events>>

\* The dialog of a clear covers the channel list until its answer is there.
SwitchChannel(c) ==
    /\ Happens
    /\ c # selected
    /\ command # None => command.kind # "clear"
    /\ selected' = c
    /\ last' = None
    /\ SendLoad(c)
    /\ UNCHANGED <<serverVars, items, shown, command>>

-----------------------------------------------------------------------------
(* Commands. *)

Send(kind, id) ==
    /\ Happens
    /\ command = None       \* bound: one at a time
    /\ command' = [kind |-> kind, channel |-> selected, id |-> id,
                   at |-> "sent", webhook |-> None]
    /\ UNCHANGED <<serverVars, pageVars, loads>>

ClickPauseResume == Send(IF shown.paused THEN "resume" ELSE "pause", 0)
ClickClear == items # {} /\ Send("clear", 0)
ClickRetry == \E id \in Ids(items) : Send("retry", id)
ClickDelete == \E id \in Ids(items) : Send("delete", id)

At(kinds, stage) == command # None /\ command.kind \in kinds /\ command.at = stage

PauseResume ==
    /\ At({"pause", "resume"}, "sent")
    /\ paused' = [paused EXCEPT ![command.channel] = command.kind = "pause"]
    /\ command' = [command EXCEPT !.at = "done"]
    /\ UNCHANGED <<table, ids, queue_size, note, pageVars, loads, events>>

\* A delete names the id alone, whichever channel it was sent for.
DeleteRows ==
    /\ At({"clear", "delete"}, "sent")
    /\ table' = IF command.kind = "clear" THEN table \ RowsOf(command.channel)
                ELSE WithoutId(table, command.id)
    /\ command' = [command EXCEPT !.at =
                       IF command.kind = "clear" THEN "noting" ELSE "done"]
    /\ UNCHANGED <<ids, paused, queue_size, note, pageVars, loads, events>>

\* Once the rows are gone: what came in meanwhile is not counted.
ClearResetsSize ==
    /\ At({"clear"}, "noting")
    /\ queue_size' = [queue_size EXCEPT ![command.channel] = NewStatus.queue_size]
    /\ command' = [command EXCEPT !.at = "done"]
    /\ UNCHANGED <<table, ids, paused, note, pageVars, loads, events>>

\* Wrong on purpose: the id alone decides, as it does for a delete.
LoadWebhookToRetry_AnyChannel ==
    /\ At({"retry"}, "sent")
    /\ LET found == {row \in table : row.id = command.id}
       IN  command' = IF found = {} THEN [command EXCEPT !.at = "refused"]
                      ELSE [command EXCEPT !.at = "target",
                                           !.webhook = CHOOSE row \in found : TRUE]
    /\ UNCHANGED <<serverVars, pageVars, loads, events>>

LoadWebhookToRetry ==
    /\ At({"retry"}, "sent")
    /\ LET found == {row \in RowsOf(command.channel) : row.id = command.id}
       IN  command' = IF found = {} THEN [command EXCEPT !.at = "refused"]
                      ELSE [command EXCEPT !.at = "target",
                                           !.webhook = CHOOSE row \in found : TRUE]
    /\ UNCHANGED <<serverVars, pageVars, loads, events>>

\* The target accepts; the removal may fail and the reply is a success.
RetryDelivers ==
    /\ At({"retry"}, "target")
    /\ table' \in {WithoutId(table, command.id), table}
    /\ command' = [command EXCEPT !.at = "noting"]
    /\ UNCHANGED <<ids, paused, queue_size, note, pageVars, loads, events>>

RetryUpdatesStatus ==
    /\ At({"retry"}, "noting")
    /\ queue_size' = [queue_size EXCEPT ![command.channel] = Decremented(@)]
    /\ command' = [command EXCEPT !.at = "done"]
    /\ UNCHANGED <<table, ids, paused, note, pageVars, loads, events>>

RetryFails ==
    /\ At({"retry"}, "target")
    /\ table' \in {CountFailure(command.id), table}
    /\ command' = [command EXCEPT !.at = "refused"]
    /\ UNCHANGED <<ids, paused, queue_size, note, pageVars, loads, events>>

\* The storage is busy, or the answer gets lost after the deed.
CommandFails ==
    /\ Happens
    /\ command # None /\ command.at \in {"sent", "done"}
    /\ command' = [command EXCEPT !.at = "failed"]
    /\ UNCHANGED <<serverVars, pageVars, loads>>

\* A command that worked takes its rows off the page and leaves last as it is.
Removed ==
    IF At({"clear"}, "done") THEN {}
    ELSE IF At({"retry", "delete"}, "done") THEN WithoutId(items, command.id)
    ELSE items

Reloads ==
    \/ At({"pause", "resume", "clear"}, "done")
    \/ At({"retry"}, "refused")
    \/ At({"retry"}, "failed")

CommandAnswered ==
    /\ command # None /\ command.at \in {"done", "refused", "failed"}
    /\ items' = Removed
    /\ IF Reloads THEN SendLoad(selected) ELSE UNCHANGED loads
    /\ command' = None
    /\ UNCHANGED <<serverVars, selected, last, shown, events>>

\* The table survives, the statuses and the calls in flight do not.
Restart ==
    /\ Happens
    /\ paused' = [c \in Channels |-> NewStatus.paused]
    /\ queue_size' = [c \in Channels |-> NewStatus.queue_size]
    /\ note' = [c \in Channels |-> None]
    /\ loads' = [l \in Loads |-> None]
    /\ command' = IF command = None THEN None ELSE [command EXCEPT !.at = "failed"]
    /\ UNCHANGED <<table, ids, pageVars>>

-----------------------------------------------------------------------------
Init ==
    /\ table = {[id |-> 1, channel |-> First, attempts |-> 0]}
    /\ ids = 1
    /\ paused = [c \in Channels |-> NewStatus.paused]
    /\ queue_size = [c \in Channels |-> NewStatus.queue_size]
    /\ note = [c \in Channels |-> None]
    /\ selected = First
    /\ items = {} /\ last = None /\ shown = NewStatus
    /\ loads = [l \in Loads |-> None]
    /\ command = None
    /\ events = 0

Forwarder(c) ==
    \/ ForwardDelivers(c)
    \/ ForwardFails(c)
    \/ RefreshQueueSize(c)
    \/ UpdateStatus(c)

Load(l) ==
    \/ ListQueue(l)
    \/ ReadStatus(l)
    \/ AdoptAnswer(l)

Command ==
    \/ PauseResume
    \/ DeleteRows
    \/ ClearResetsSize
    \/ LoadWebhookToRetry
    \/ RetryDelivers
    \/ RetryUpdatesStatus
    \/ RetryFails
    \/ CommandAnswered

Operator ==
    \/ ClickPauseResume
    \/ ClickClear
    \/ ClickRetry
    \/ ClickDelete

Next ==
    \/ \E c \in Channels : Receive(c) \/ Forwarder(c) \/ SwitchChannel(c)
    \/ \E l \in Loads : Load(l) \/ LoadFails(l)
    \/ Poll
    \/ Operator
    \/ Command
    \/ CommandFails
    \/ Restart

Spec == Init /\ [][Next]_vars

\* The page stays open and its timer ticks, a call ends, and the server answers.
Fairness ==
    /\ WF_vars(Poll)
    /\ \A l \in Loads : WF_vars(Load(l))
    /\ WF_vars(Command)

FairSpec == Spec /\ Fairness

-----------------------------------------------------------------------------
(* Properties. *)

Rows == [id : Nat \ {0}, channel : Channels, attempts : Nat]
Statuses == [paused : BOOLEAN, queue_size : Nat]

TypeOK ==
    /\ \A row \in table \cup items : row \in Rows /\ row.id <= ids
    /\ ids \in Nat
    /\ paused \in [Channels -> BOOLEAN]
    /\ queue_size \in [Channels -> Nat]
    /\ \A c \in Channels : note[c] # None => note[c] \in [delivered : BOOLEAN, count : Nat]
    /\ selected \in Channels
    /\ last # None => \A row \in last : row \in Rows
    /\ shown \in Statuses
    /\ \A l \in Loads : loads[l] # None =>
           /\ loads[l].channel \in Channels
           /\ loads[l].at \in {"sent", "listed", "answered"}
           /\ loads[l].status \in Statuses
    /\ command # None =>
           /\ command.kind \in {"pause", "resume", "clear", "retry", "delete"}
           /\ command.at \in {"sent", "target", "noting", "done", "refused", "failed"}

\* A manual retry never sends a webhook to another channel's target, although
\* the page shows the rows of the former channel under the name of the new one
\* until its answer arrives (load_webhook_to_retry).
RetryStaysInChannel ==
    At({"retry"}, "target") => command.webhook.channel = command.channel

\* The id of a row on the page, however old the row is, means the webhook it was
\* read from or none: a delete, which names the id alone, cannot hit a webhook
\* of another channel (webhooks.id is AUTOINCREMENT, delete_by_id).
ShownIdsHold ==
    \A row \in items, stored \in table :
        row.id = stored.id => row.channel = stored.channel

\* Only the operator's own command or a restart changes whether a channel is
\* paused: no status the forwarder writes, however late, undoes it.
PauseHolds ==
    [][\A c \in Channels : paused'[c] # paused[c] =>
           \/ At({"pause", "resume"}, "sent") /\ command.channel = c
           \/ Restart]_vars

\* When nothing happens any more, the page has received the queue of the channel
\* it shows, not that of the former channel or an older one, and shows no row
\* that is not in it.
ListCatchesUp == <>[](last = RowsOf(selected) /\ items \subseteq last)

\* The status it shows is the channel's: a pause that a restart undid is no
\* longer shown, and the size is that of the queue and not the drifting count.
StatusCatchesUp ==
    <>[](shown = [paused |-> paused[selected], queue_size |-> CountByChannel(selected)])

=============================================================================
