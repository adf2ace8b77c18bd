-------------------------- MODULE QueueViewProofs --------------------------
(***************************************************************************)
(* The queue page and the server behind it: everything keeps its type, a   *)
(* manual retry stays in its channel, an id that is shown keeps its        *)
(* meaning, and a pause holds.                                             *)
(***************************************************************************)
EXTENDS QueueView, FiniteSetTheorems, TLAPS

\* The invariant.  TypeOK alone is not inductive: what is adopted from an
\* answer was in flight before, what is counted must be finite, and a command
\* acts on the channel and the row it carries.
KnownRows == {row \in Rows : row.id <= ids}

LoadRecords ==
    [channel : Channels, at : {"sent", "listed", "answered"},
     items : SUBSET KnownRows, status : Statuses]

Commands ==
    [kind : {"pause", "resume", "clear", "retry", "delete"}, channel : Channels,
     id : Nat, webhook : Rows \cup {None},
     at : {"sent", "target", "noting", "done", "refused", "failed"}]

Notes == [delivered : BOOLEAN, count : Nat]

ServerInv ==
    /\ ids \in Nat
    /\ table \in SUBSET KnownRows /\ IsFiniteSet(table)
    /\ paused \in [Channels -> BOOLEAN]
    /\ queue_size \in [Channels -> Nat]
    /\ note \in [Channels -> Notes \cup {None}]

PageInv ==
    /\ selected \in Channels
    /\ items \in SUBSET KnownRows
    /\ last # None => last \in SUBSET KnownRows
    /\ shown \in Statuses

LoadInv ==
    /\ loads \in [Loads -> LoadRecords \cup {None}]
    /\ \A l \in Loads : loads[l] # None => IsFiniteSet(loads[l].items)

CommandInv == command \in Commands \cup {None} /\ RetryStaysInChannel

ViewInv == ServerInv /\ PageInv /\ LoadInv /\ CommandInv

-----------------------------------------------------------------------------
\* Marking a failure keeps the rows known and finitely many.
LEMMA FailureCounted ==
    ASSUME ServerInv, NEW id
    PROVE  CountFailure(id) \in SUBSET KnownRows /\ IsFiniteSet(CountFailure(id))
<1> DEFINE marked == [row \in table |->
                         IF row.id = id THEN [row EXCEPT !.attempts = @ + 1] ELSE row]
<1>1. CountFailure(id) = {marked[row] : row \in table}
  BY DEF CountFailure
<1>2. marked \in Surjection(table, CountFailure(id))
  BY <1>1, Zenon DEF Surjection
<1>3. IsFiniteSet(CountFailure(id))
  BY <1>2, FS_Surjection DEF ServerInv
<1>4. ASSUME NEW row \in table PROVE marked[row] \in KnownRows
  <2>1. row \in Rows /\ row.id <= ids
    BY DEF ServerInv, KnownRows
  <2> QED
    BY <2>1 DEF KnownRows, Rows
<1> QED
  BY <1>1, <1>3, <1>4

\* The rows of a channel are known, finitely many, and have a natural count.
LEMMA ChannelRows ==
    ASSUME ServerInv, NEW c
    PROVE  /\ RowsOf(c) \in SUBSET table
           /\ RowsOf(c) \in SUBSET KnownRows
           /\ IsFiniteSet(RowsOf(c))
           /\ CountByChannel(c) \in Nat
BY FS_Subset, FS_CardinalityType DEF ServerInv, RowsOf, CountByChannel

\* Whatever the ids given out, no known row is forgotten.
LEMMA KnownStayKnown ==
    ASSUME ids \in Nat, ids' \in Nat, ids <= ids'
    PROVE  KnownRows \in SUBSET KnownRows'
BY DEF KnownRows, Rows

\* The server's part: what is deleted, counted or written late keeps its type, and
\* ids are only given out.
LEMMA ServerStep == ViewInv /\ [Next]_vars => ServerInv' /\ ids <= ids'
<1> SUFFICES ASSUME ViewInv, [Next]_vars PROVE ServerInv' /\ ids <= ids'
  OBVIOUS
<1>0. ServerInv
  BY DEF ViewInv
<1>1. ASSUME NEW c \in Channels, Receive(c) PROVE ServerInv' /\ ids <= ids'
  <2>1. ids' \in Nat /\ ids <= ids'
    BY <1>0, <1>1 DEF ServerInv, Receive
  <2>2. [id |-> ids + 1, channel |-> c, attempts |-> 0] \in KnownRows'
    BY <1>0, <1>1 DEF ServerInv, Receive, KnownRows, Rows
  <2>3. table' \in SUBSET KnownRows'
    BY <1>0, <1>1, <2>1, <2>2, KnownStayKnown DEF ServerInv, Receive
  <2>4. IsFiniteSet(table')
    BY <1>0, <1>1, FS_AddElement DEF ServerInv, Receive
  <2> QED
    BY <1>0, <1>1, <2>1, <2>3, <2>4 DEF ServerInv, Receive
<1>2. ASSUME NEW c \in Channels, ForwardDelivers(c) PROVE ServerInv' /\ ids <= ids'
  <2>1. table' \in SUBSET table /\ ids' = ids
    BY <1>2 DEF ForwardDelivers, WithoutId
  <2>2. note' \in [Channels -> Notes \cup {None}]
    BY <1>0, <1>2 DEF ServerInv, ForwardDelivers, Notes
  <2> QED
    BY <1>0, <1>2, <2>1, <2>2, FS_Subset DEF ServerInv, ForwardDelivers, KnownRows
<1>3. ASSUME NEW c \in Channels, ForwardFails(c) PROVE ServerInv' /\ ids <= ids'
  <2>1. table' \in SUBSET KnownRows /\ IsFiniteSet(table')
    BY <1>0, <1>3, FailureCounted DEF ServerInv, ForwardFails
  <2> QED
    BY <1>0, <1>3, <2>1 DEF ServerInv, ForwardFails, KnownRows
<1>4. ASSUME NEW c \in Channels, RefreshQueueSize(c) PROVE ServerInv' /\ ids <= ids'
  <2>1. [delivered |-> FALSE, count |-> CountByChannel(c)] \in Notes
    BY <1>0, ChannelRows DEF Notes
  <2> QED
    BY <1>0, <1>4, <2>1 DEF ServerInv, RefreshQueueSize, KnownRows
<1>5. ASSUME NEW c \in Channels, UpdateStatus(c) PROVE ServerInv' /\ ids <= ids'
  <2>1. note[c] \in Notes
    BY <1>0, <1>5 DEF ServerInv, UpdateStatus
  <2>2. queue_size' \in [Channels -> Nat]
    BY <1>0, <1>5, <2>1 DEF ServerInv, UpdateStatus, Notes, Decremented
  <2> QED
    BY <1>0, <1>5, <2>2 DEF ServerInv, UpdateStatus, KnownRows
<1>6. CASE PauseResume
  <2>1. paused' \in [Channels -> BOOLEAN]
    <3> DEFINE on == command.kind = "pause"
    <3>1. on \in BOOLEAN /\ paused' = [paused EXCEPT ![command.channel] = on]
      BY <1>6 DEF PauseResume
    <3> HIDE DEF on
    <3> QED
      BY <1>0, <3>1 DEF ServerInv
  <2> QED
    BY <1>0, <1>6, <2>1 DEF ServerInv, PauseResume, KnownRows
<1>7. CASE DeleteRows
  <2>1. table' \in SUBSET table
    BY <1>7 DEF DeleteRows, WithoutId
  <2> QED
    BY <1>0, <1>7, <2>1, FS_Subset DEF ServerInv, DeleteRows, KnownRows
<1>8. CASE RetryDelivers
  <2>1. table' \in SUBSET table
    BY <1>8 DEF RetryDelivers, WithoutId
  <2> QED
    BY <1>0, <1>8, <2>1, FS_Subset DEF ServerInv, RetryDelivers, KnownRows
<1>9. CASE RetryUpdatesStatus
  <2>1. queue_size' \in [Channels -> Nat]
    <3>1. command.channel \in Channels
      BY <1>9 DEF RetryUpdatesStatus, At, ViewInv, CommandInv, Commands
    <3>2. queue_size[command.channel] \in Nat
      BY <1>0, <3>1 DEF ServerInv
    <3>3. Decremented(queue_size[command.channel]) \in Nat
      BY <3>2 DEF Decremented
    <3> QED
      BY <1>0, <1>9, <3>1, <3>3 DEF ServerInv, RetryUpdatesStatus
  <2> QED
    BY <1>0, <1>9, <2>1 DEF ServerInv, RetryUpdatesStatus, KnownRows
<1>10. CASE RetryFails
  <2>1. table' \in SUBSET KnownRows /\ IsFiniteSet(table')
    BY <1>0, <1>10, FailureCounted DEF ServerInv, RetryFails
  <2> QED
    BY <1>0, <1>10, <2>1 DEF ServerInv, RetryFails, KnownRows
<1>11. CASE Restart
  BY <1>0, <1>11 DEF ServerInv, Restart, NewStatus, KnownRows
<1>12. CASE UNCHANGED serverVars
  BY <1>0, <1>12 DEF ServerInv, serverVars, KnownRows
<1>13. CASE \E c \in Channels : SwitchChannel(c)
  BY <1>12, <1>13 DEF SwitchChannel
<1>14. CASE \E l \in Loads : Load(l) \/ LoadFails(l)
  BY <1>12, <1>14 DEF Load, ListQueue, ReadStatus, AdoptAnswer, LoadFails
<1>15. CASE Poll \/ Operator
  BY <1>12, <1>15 DEF Poll, Operator, ClickPauseResume, ClickClear, ClickRetry,
                      ClickDelete, Send
<1>16. CASE LoadWebhookToRetry \/ CommandAnswered \/ CommandFails
  BY <1>12, <1>16 DEF LoadWebhookToRetry, CommandAnswered, CommandFails
<1>17. CASE UNCHANGED vars
  BY <1>12, <1>17 DEF vars
<1>18. CASE ClearResetsSize
  <2>1. queue_size' \in [Channels -> Nat]
    BY <1>0, <1>18 DEF ServerInv, ClearResetsSize, NewStatus
  <2> QED
    BY <1>0, <1>18, <2>1 DEF ServerInv, ClearResetsSize, KnownRows
<1> QED
  BY <1>1, <1>2, <1>3, <1>4, <1>5, <1>6, <1>7, <1>8, <1>9, <1>10, <1>11, <1>13,
     <1>14, <1>15, <1>16, <1>17, <1>18 DEF Next, Forwarder, Command

-----------------------------------------------------------------------------
\* A poll sent off asks for a channel and carries nothing yet.
LEMMA SentLoad ==
    ASSUME LoadInv, ids' \in Nat, ids \in Nat, ids <= ids',
           NEW c \in Channels, SendLoad(c)
    PROVE  LoadInv'
<1>1. PICK l \in Loads : loads' = [loads EXCEPT ![l] = NewLoad(c)]
  BY DEF SendLoad
<1>2. NewLoad(c) \in LoadRecords' /\ IsFiniteSet(NewLoad(c).items)
  BY FS_EmptySet DEF NewLoad, NewStatus, LoadRecords, Statuses
<1>3. LoadRecords \in SUBSET LoadRecords'
  BY KnownStayKnown DEF LoadRecords
<1> QED
  BY <1>1, <1>2, <1>3 DEF LoadInv

\* The polls in flight: whatever a call carries it got from the server.
LEMMA LoadStep == ViewInv /\ [Next]_vars => LoadInv'
<1> SUFFICES ASSUME ViewInv, [Next]_vars PROVE LoadInv'
  OBVIOUS
<1>0. ServerInv /\ LoadInv /\ ids \in Nat /\ ids' \in Nat /\ ids <= ids'
  BY ServerStep DEF ViewInv, ServerInv
<1>1. LoadRecords \in SUBSET LoadRecords'
  BY <1>0, KnownStayKnown DEF LoadRecords
<1>2. ASSUME NEW l \in Loads, ListQueue(l) PROVE LoadInv'
  <2>1. loads[l] \in LoadRecords
    BY <1>0, <1>2 DEF ListQueue, LoadInv
  <2>2. PICK rows : rows = RowsOf(loads[l].channel)
    OBVIOUS
  <2>3. rows \in SUBSET KnownRows /\ IsFiniteSet(rows)
    BY <1>0, <2>2, ChannelRows
  <2>4. PICK load : load = [loads[l] EXCEPT !.at = "listed", !.items = rows]
    OBVIOUS
  <2>5. load \in LoadRecords /\ load.items = rows
    BY <2>1, <2>3, <2>4 DEF LoadRecords
  <2>6. loads' = [loads EXCEPT ![l] = load]
    BY <1>0, <1>2, <2>1, <2>2, <2>4 DEF ListQueue, LoadInv, LoadRecords
  <2> QED
    BY <1>0, <1>1, <2>3, <2>5, <2>6 DEF LoadInv
<1>3. ASSUME NEW l \in Loads, ReadStatus(l) PROVE LoadInv'
  <2>1. loads[l] \in LoadRecords /\ IsFiniteSet(loads[l].items)
    BY <1>0, <1>3 DEF ReadStatus, LoadInv
  <2>2. PICK status : status = [paused |-> paused[loads[l].channel],
                                queue_size |-> Cardinality(loads[l].items)]
    OBVIOUS
  <2>3. status \in Statuses
    BY <1>0, <2>1, <2>2, FS_CardinalityType DEF Statuses, ServerInv, LoadRecords
  <2>4. PICK load : load = [loads[l] EXCEPT !.at = "answered", !.status = status]
    OBVIOUS
  <2>5. load \in LoadRecords /\ load.items = loads[l].items
    BY <2>1, <2>3, <2>4 DEF LoadRecords
  <2>6. loads' = [loads EXCEPT ![l] = load]
    BY <1>0, <1>3, <2>1, <2>2, <2>4 DEF ReadStatus, LoadInv, LoadRecords
  <2> QED
    BY <1>0, <1>1, <2>1, <2>5, <2>6 DEF LoadInv
<1>4. ASSUME NEW l \in Loads, AdoptAnswer(l) \/ LoadFails(l) PROVE LoadInv'
  BY <1>0, <1>1, <1>4 DEF AdoptAnswer, LoadFails, LoadInv
<1>5. CASE Poll
  BY <1>0, <1>5, SentLoad DEF Poll, ViewInv, PageInv
<1>6. ASSUME NEW c \in Channels, SwitchChannel(c) PROVE LoadInv'
  BY <1>0, <1>6, SentLoad DEF SwitchChannel
<1>7. CASE Restart
  BY <1>7 DEF Restart, LoadInv
<1>8. CASE UNCHANGED loads
  BY <1>0, <1>1, <1>8 DEF LoadInv
<1>9. CASE CommandAnswered
  BY <1>0, <1>8, <1>9, SentLoad DEF CommandAnswered, ViewInv, PageInv
<1>10. CASE \E c \in Channels : Receive(c) \/ Forwarder(c)
  BY <1>8, <1>10 DEF Receive, Forwarder, ForwardDelivers, ForwardFails,
                     RefreshQueueSize, UpdateStatus
<1>11. CASE Operator \/ CommandFails
  BY <1>8, <1>11 DEF Operator, ClickPauseResume, ClickClear, ClickRetry,
                     ClickDelete, Send, CommandFails
<1>12. CASE PauseResume \/ DeleteRows \/ ClearResetsSize \/ LoadWebhookToRetry
  BY <1>8, <1>12 DEF PauseResume, DeleteRows, ClearResetsSize, LoadWebhookToRetry
<1>13. CASE RetryDelivers \/ RetryUpdatesStatus \/ RetryFails
  BY <1>8, <1>13 DEF RetryDelivers, RetryUpdatesStatus, RetryFails
<1>14. CASE UNCHANGED vars
  BY <1>8, <1>14 DEF vars
<1> QED
  BY <1>2, <1>3, <1>4, <1>5, <1>6, <1>7, <1>9, <1>10, <1>11, <1>12, <1>13, <1>14
     DEF Next, Load, Command

-----------------------------------------------------------------------------
\* The page: it shows known rows, those of an answer or fewer.
LEMMA PageStep == ViewInv /\ [Next]_vars => PageInv'
<1> SUFFICES ASSUME ViewInv, [Next]_vars PROVE PageInv'
  OBVIOUS
<1>0. PageInv /\ LoadInv /\ KnownRows \in SUBSET KnownRows'
  BY ServerStep, KnownStayKnown DEF ViewInv, ServerInv
<1>1. ASSUME NEW l \in Loads, AdoptAnswer(l) PROVE PageInv'
  <2>1. loads[l].items \in SUBSET KnownRows /\ loads[l].status \in Statuses
    BY <1>0, <1>1 DEF AdoptAnswer, LoadInv, LoadRecords
  <2> QED
    BY <1>0, <1>1, <2>1 DEF AdoptAnswer, PageInv
<1>2. ASSUME NEW c \in Channels, SwitchChannel(c) PROVE PageInv'
  BY <1>0, <1>2 DEF SwitchChannel, PageInv
<1>3. CASE CommandAnswered
  <2>1. Removed \in SUBSET items
    BY DEF Removed, WithoutId
  <2> QED
    BY <1>0, <1>3, <2>1 DEF CommandAnswered, PageInv
<1>4. CASE UNCHANGED pageVars
  BY <1>0, <1>4 DEF PageInv, pageVars
<1>5. CASE \E c \in Channels : Receive(c) \/ Forwarder(c)
  BY <1>4, <1>5 DEF Receive, Forwarder, ForwardDelivers, ForwardFails,
                    RefreshQueueSize, UpdateStatus
<1>6. CASE \E l \in Loads : ListQueue(l) \/ ReadStatus(l) \/ LoadFails(l)
  BY <1>4, <1>6 DEF ListQueue, ReadStatus, LoadFails
<1>7. CASE Poll \/ Operator \/ CommandFails \/ Restart
  BY <1>4, <1>7 DEF Poll, Operator, ClickPauseResume, ClickClear, ClickRetry,
                    ClickDelete, Send, CommandFails, Restart
<1>8. CASE PauseResume \/ DeleteRows \/ ClearResetsSize \/ LoadWebhookToRetry
  BY <1>4, <1>8 DEF PauseResume, DeleteRows, ClearResetsSize, LoadWebhookToRetry
<1>9. CASE RetryDelivers \/ RetryUpdatesStatus \/ RetryFails
  BY <1>4, <1>9 DEF RetryDelivers, RetryUpdatesStatus, RetryFails
<1>10. CASE UNCHANGED vars
  BY <1>4, <1>10 DEF vars
<1> QED
  BY <1>1, <1>2, <1>3, <1>5, <1>6, <1>7, <1>8, <1>9, <1>10 DEF Next, Load, Command

-----------------------------------------------------------------------------
\* A command that moves on keeps what it was sent with.
LEMMA MovedOn ==
    ASSUME CommandInv, command # None,
           NEW stage \in {"noting", "done", "refused", "failed"},
           command' = [command EXCEPT !.at = stage]
    PROVE  CommandInv'
<1>1. command \in Commands
  BY DEF CommandInv
<1>2. command' \in Commands /\ command'.at = stage
  BY <1>1 DEF Commands
<1> QED
  BY <1>2 DEF CommandInv, RetryStaysInChannel, At

\* A command is sent for the channel the page shows.
LEMMA SentCommand ==
    ASSUME PageInv, NEW kind \in {"pause", "resume", "clear", "retry", "delete"},
           NEW id \in Nat, Send(kind, id)
    PROVE  CommandInv'
<1>1. command' \in Commands /\ command'.at = "sent"
  BY DEF Send, PageInv, Commands
<1> QED
  BY <1>1 DEF CommandInv, RetryStaysInChannel, At

\* The command in flight: at the target it carries a row of its own channel.
LEMMA CommandStep == ViewInv /\ [Next]_vars => CommandInv'
<1> SUFFICES ASSUME ViewInv, [Next]_vars PROVE CommandInv'
  OBVIOUS
<1>0. ServerInv /\ PageInv /\ CommandInv
  BY DEF ViewInv
<1>1. CASE Operator
  <2>1. CASE ClickPauseResume
    BY <1>0, <2>1, SentCommand DEF ClickPauseResume
  <2>2. CASE ClickClear
    BY <1>0, <2>2, SentCommand DEF ClickClear
  <2>3. CASE ClickRetry \/ ClickDelete
    <3>1. Ids(items) \in SUBSET Nat
      BY <1>0 DEF PageInv, Ids, KnownRows, Rows
    <3> QED
      BY <1>0, <2>3, <3>1, SentCommand DEF ClickRetry, ClickDelete
  <2> QED
    BY <1>1, <2>1, <2>2, <2>3 DEF Operator
<1>2. CASE LoadWebhookToRetry
  <2>1. PICK found : found = {row \in RowsOf(command.channel) : row.id = command.id}
    OBVIOUS
  <2>2. command # None /\ command \in Commands
    BY <1>0, <1>2 DEF LoadWebhookToRetry, At, CommandInv
  <2>3. CASE found = {}
    BY <1>0, <1>2, <2>1, <2>2, <2>3, MovedOn DEF LoadWebhookToRetry
  <2>4. CASE found # {}
    <3>1. PICK row \in found : command' = [command EXCEPT !.at = "target", !.webhook = row]
      BY <1>2, <2>1, <2>4 DEF LoadWebhookToRetry
    <3>2. row \in Rows /\ row.channel = command.channel
      BY <1>0, <2>1 DEF ServerInv, RowsOf, KnownRows
    <3>3. command' \in Commands
      BY <2>2, <3>1, <3>2 DEF Commands
    <3>4. command'.webhook = row /\ command'.channel = command.channel
      BY <2>2, <3>1 DEF Commands
    <3> QED
      BY <3>2, <3>3, <3>4 DEF CommandInv, RetryStaysInChannel
  <2> QED
    BY <2>3, <2>4
<1>3. CASE PauseResume \/ DeleteRows \/ ClearResetsSize
  BY <1>0, <1>3, MovedOn DEF PauseResume, DeleteRows, ClearResetsSize, At
<1>4. CASE RetryDelivers \/ RetryUpdatesStatus \/ RetryFails
  BY <1>0, <1>4, MovedOn DEF RetryDelivers, RetryUpdatesStatus, RetryFails, At
<1>5. CASE CommandFails
  BY <1>0, <1>5, MovedOn DEF CommandFails
<1>6. CASE CommandAnswered
  BY <1>6 DEF CommandAnswered, CommandInv, RetryStaysInChannel, At
<1>7. CASE Restart
  <2>1. CASE command = None
    BY <1>7, <2>1 DEF Restart, CommandInv, RetryStaysInChannel, At
  <2>2. CASE command # None
    BY <1>0, <1>7, <2>2, MovedOn DEF Restart
  <2> QED
    BY <2>1, <2>2
<1>8. CASE UNCHANGED command
  BY <1>0, <1>8 DEF CommandInv, RetryStaysInChannel, At
<1>9. CASE \E c \in Channels : Receive(c) \/ Forwarder(c) \/ SwitchChannel(c)
  BY <1>8, <1>9 DEF Receive, Forwarder, ForwardDelivers, ForwardFails,
                    RefreshQueueSize, UpdateStatus, SwitchChannel
<1>10. CASE (\E l \in Loads : Load(l) \/ LoadFails(l)) \/ Poll
  BY <1>8, <1>10 DEF Load, ListQueue, ReadStatus, AdoptAnswer, LoadFails, Poll
<1>11. CASE UNCHANGED vars
  BY <1>8, <1>11 DEF vars
<1> QED
  BY <1>1, <1>2, <1>3, <1>4, <1>5, <1>6, <1>7, <1>9, <1>10, <1>11 DEF Next, Command

-----------------------------------------------------------------------------
\* The page opens on a channel with one webhook, and everything else is empty.
LEMMA InitialView == Init => ViewInv
<1> SUFFICES ASSUME Init PROVE ViewInv
  OBVIOUS
<1>1. ServerInv
  <2>1. IsFiniteSet(table)
    BY FS_Singleton DEF Init
  <2>2. table \in SUBSET KnownRows
    BY FirstAssumption DEF Init, KnownRows, Rows
  <2> QED
    BY <2>1, <2>2 DEF Init, ServerInv, NewStatus
<1>2. PageInv
  BY FirstAssumption DEF Init, PageInv, NewStatus, Statuses
<1>3. LoadInv /\ CommandInv
  BY DEF Init, LoadInv, CommandInv, RetryStaysInChannel, At
<1> QED
  BY <1>1, <1>2, <1>3 DEF ViewInv

\* The invariant holds of the page and its server, for any number of channels
\* and polls and with answers in any order.
LEMMA ViewInvHolds == Spec => []ViewInv
<1>1. ViewInv /\ [Next]_vars => ViewInv'
  BY ServerStep, PageStep, LoadStep, CommandStep DEF ViewInv
<1> QED
  BY InitialView, <1>1, PTL DEF Spec

\* Everything keeps its type: no row is shown whose id was not given out, and
\* the drifting queue_size stays a natural number however often it is
\* decremented (ChannelForwardStatus, on_delivered).
THEOREM ViewTypes == Spec => []TypeOK
<1>1. ViewInv => TypeOK
  <2> SUFFICES ASSUME ViewInv PROVE TypeOK
    OBVIOUS
  <2>1. /\ \A row \in table \cup items : row \in Rows /\ row.id <= ids
        /\ last # None => \A row \in last : row \in Rows
    BY DEF ViewInv, ServerInv, PageInv, KnownRows
  <2>2. \A c \in Channels : note[c] # None => note[c] \in Notes
    BY DEF ViewInv, ServerInv
  <2>3. \A l \in Loads : loads[l] # None =>
            /\ loads[l].channel \in Channels
            /\ loads[l].at \in {"sent", "listed", "answered"}
            /\ loads[l].status \in Statuses
    BY DEF ViewInv, LoadInv, LoadRecords
  <2>4. command # None =>
            /\ command.kind \in {"pause", "resume", "clear", "retry", "delete"}
            /\ command.at \in {"sent", "target", "noting", "done", "refused", "failed"}
    BY DEF ViewInv, CommandInv, Commands
  <2> QED
    BY <2>1, <2>2, <2>3, <2>4 DEF TypeOK, ViewInv, ServerInv, PageInv, Notes
<1> QED
  BY ViewInvHolds, <1>1, PTL

\* However the page mixes up rows and channels, the webhook a manual retry
\* takes to the target is one of the channel it was sent for
\* (load_webhook_to_retry).
THEOREM RetriesStayInChannel == Spec => []RetryStaysInChannel
<1>1. ViewInv => RetryStaysInChannel
  BY DEF ViewInv, CommandInv
<1> QED
  BY ViewInvHolds, <1>1, PTL

-----------------------------------------------------------------------------
\* What the page may still come to show, together with what is stored.  Ids say
\* the same in all of it; that an old answer arrives late is why ShownIdsHold
\* is not inductive.
OnTheWay == UNION {loads[l].items : l \in {k \in Loads : loads[k] # None}}

Copies == table \cup items \cup OnTheWay

Alike(a, b) == a.id = b.id => a.channel = b.channel

IdsInv == \A a, b \in Copies : Alike(a, b)

\* Every copy of the next state is one of this state or one with more attempts.
NothingNew ==
    \A a \in Copies' : \E b \in Copies : a.id = b.id /\ a.channel = b.channel

\* An answer in flight holds copies.
LEMMA LoadIsOnTheWay ==
    ASSUME NEW l \in Loads, loads[l] # None
    PROVE  loads[l].items \in SUBSET Copies
BY DEF Copies, OnTheWay

\* A poll sent off brings no copies yet.
LEMMA SendingBringsNothing ==
    ASSUME LoadInv, NEW c, SendLoad(c)
    PROVE  OnTheWay' \in SUBSET OnTheWay
<1>1. PICK l \in Loads : loads' = [loads EXCEPT ![l] = NewLoad(c)]
  BY DEF SendLoad
<1>2. NewLoad(c).items = {}
  BY DEF NewLoad
<1> QED
  BY <1>1, <1>2 DEF OnTheWay, LoadInv

\* Marking a failure renames nothing.
LEMMA FailureRenamesNothing ==
    ASSUME ServerInv, NEW id
    PROVE  \A a \in CountFailure(id) :
               \E b \in table : a.id = b.id /\ a.channel = b.channel
<1> SUFFICES ASSUME NEW b \in table
             PROVE  LET a == IF b.id = id THEN [b EXCEPT !.attempts = @ + 1] ELSE b
                    IN  a.id = b.id /\ a.channel = b.channel
  BY DEF CountFailure
<1> QED
  BY DEF ServerInv, KnownRows, Rows

\* No step but the arrival of a webhook puts another row anywhere.
LEMMA CopiesStep ==
    ASSUME ViewInv, [Next]_vars, ~\E c \in Channels : Receive(c)
    PROVE  NothingNew
<1>0. ServerInv /\ LoadInv
  BY DEF ViewInv
<1>1. ASSUME table' \in SUBSET table, items' = items, loads' = loads
      PROVE  NothingNew
  BY <1>1 DEF NothingNew, Copies, OnTheWay
<1>2. ASSUME NEW id, table' = CountFailure(id), items' = items, loads' = loads
      PROVE  NothingNew
  BY <1>0, <1>2, FailureRenamesNothing DEF NothingNew, Copies, OnTheWay
<1>3. ASSUME table' = table, items' \in SUBSET Copies, OnTheWay' \in SUBSET Copies
      PROVE  NothingNew
  BY <1>3 DEF NothingNew, Copies
<1>4. ASSUME NEW c \in Channels, Forwarder(c) PROVE NothingNew
  <2>1. CASE ForwardFails(c)
    BY <1>1, <1>2, <2>1 DEF ForwardFails, pageVars
  <2>2. CASE ForwardDelivers(c)
    BY <1>1, <2>2 DEF ForwardDelivers, pageVars, WithoutId
  <2>3. CASE RefreshQueueSize(c) \/ UpdateStatus(c)
    BY <1>1, <2>3 DEF RefreshQueueSize, UpdateStatus, pageVars
  <2> QED
    BY <1>4, <2>1, <2>2, <2>3 DEF Forwarder
<1>5. ASSUME NEW l \in Loads, Load(l) \/ LoadFails(l) PROVE NothingNew
  <2>1. table' = table /\ loads[l] # None
    BY <1>5 DEF Load, ListQueue, ReadStatus, AdoptAnswer, LoadFails, serverVars
  <2>2. items' \in SUBSET Copies
    BY <1>5, <2>1, LoadIsOnTheWay
       DEF Load, ListQueue, ReadStatus, AdoptAnswer, LoadFails, pageVars, Copies
  <2>3. ASSUME NEW k \in Loads, loads'[k] # None
        PROVE  loads'[k].items \in SUBSET Copies
    <3>1. CASE k # l
      BY <1>0, <1>5, <2>3, <3>1, LoadIsOnTheWay
         DEF Load, ListQueue, ReadStatus, AdoptAnswer, LoadFails, LoadInv
    <3>2. CASE k = l /\ ListQueue(l)
      <4>1. loads'[l].items = RowsOf(loads[l].channel)
        BY <1>0, <2>1, <3>2 DEF ListQueue, LoadInv, LoadRecords
      <4> QED
        BY <3>2, <4>1 DEF RowsOf, Copies
    <3>3. CASE k = l /\ ReadStatus(l)
      <4>1. loads'[l].items = loads[l].items
        BY <1>0, <2>1, <3>3 DEF ReadStatus, LoadInv, LoadRecords
      <4> QED
        BY <2>1, <3>3, <4>1, LoadIsOnTheWay
    <3>4. CASE k = l /\ (AdoptAnswer(l) \/ LoadFails(l))
      BY <1>0, <2>3, <3>4 DEF AdoptAnswer, LoadFails, LoadInv
    <3> QED
      BY <1>5, <3>1, <3>2, <3>3, <3>4 DEF Load
  <2>4. OnTheWay' \in SUBSET Copies
    BY <2>3 DEF OnTheWay
  <2> QED
    BY <1>3, <2>1, <2>2, <2>4
<1>6. CASE Poll \/ \E c \in Channels : SwitchChannel(c)
  <2>1. PICK c : SendLoad(c)
    BY <1>6 DEF Poll, SwitchChannel
  <2> QED
    BY <1>0, <1>3, <1>6, <2>1, SendingBringsNothing
       DEF Poll, SwitchChannel, serverVars, pageVars, Copies
<1>7. CASE CommandAnswered
  <2>1. OnTheWay' \in SUBSET OnTheWay
    BY <1>0, <1>7, SendingBringsNothing DEF CommandAnswered, OnTheWay
  <2>2. Removed \in SUBSET items
    BY DEF Removed, WithoutId
  <2> QED
    BY <1>3, <1>7, <2>1, <2>2 DEF CommandAnswered, serverVars, Copies
<1>8. CASE Restart
  <2>1. OnTheWay' = {}
    BY <1>8 DEF Restart, OnTheWay
  <2> QED
    BY <1>3, <1>8, <2>1 DEF Restart, pageVars, Copies
<1>9. CASE Operator \/ CommandFails
  BY <1>1, <1>9 DEF Operator, ClickPauseResume, ClickClear, ClickRetry,
                    ClickDelete, Send, CommandFails, serverVars, pageVars
<1>10. CASE PauseResume \/ ClearResetsSize \/ LoadWebhookToRetry \/ RetryUpdatesStatus
  BY <1>1, <1>10 DEF PauseResume, ClearResetsSize, LoadWebhookToRetry,
                     RetryUpdatesStatus, serverVars, pageVars
<1>11. CASE DeleteRows \/ RetryDelivers
  BY <1>1, <1>11 DEF DeleteRows, RetryDelivers, WithoutId, pageVars
<1>12. CASE RetryFails
  BY <1>1, <1>2, <1>12 DEF RetryFails, pageVars
<1>13. CASE UNCHANGED vars
  BY <1>1, <1>13 DEF vars, serverVars, pageVars
<1> QED
  BY <1>4, <1>5, <1>6, <1>7, <1>8, <1>9, <1>10, <1>11, <1>12, <1>13 DEF Next, Command

\* A new webhook has an id that no copy has.
LEMMA IdsStep == ViewInv /\ IdsInv /\ [Next]_vars => IdsInv'
<1> SUFFICES ASSUME ViewInv, IdsInv, [Next]_vars PROVE IdsInv'
  OBVIOUS
<1>1. ASSUME NEW c \in Channels, Receive(c) PROVE IdsInv'
  <2>1. PICK new : /\ table' = table \cup {new} /\ new.id = ids + 1
                   /\ items' = items /\ loads' = loads
    BY <1>1 DEF Receive, pageVars
  <2>2. Copies' = Copies \cup {new}
    BY <2>1 DEF Copies, OnTheWay
  <2>3. Copies \in SUBSET KnownRows
    BY DEF ViewInv, ServerInv, PageInv, LoadInv, LoadRecords, Copies, OnTheWay
  <2>4. \A a \in Copies : a.id # new.id
    BY <2>1, <2>3 DEF KnownRows, Rows, ViewInv, ServerInv
  <2> QED
    BY <2>2, <2>4 DEF IdsInv, Alike
<1>2. CASE ~\E c \in Channels : Receive(c)
  BY <1>2, CopiesStep DEF IdsInv, NothingNew, Alike
<1> QED
  BY <1>1, <1>2

\* An id on the page means the webhook it was read with or none, although rows
\* are deleted, answers arrive late and the server restarts: ids are never
\* given out twice (init.rs: AUTOINCREMENT; delete_by_id).
THEOREM ShownIdsKeepMeaning == Spec => []ShownIdsHold
<1>1. Init => IdsInv
  BY DEF Init, IdsInv, Copies, OnTheWay, Alike
<1>2. IdsInv => ShownIdsHold
  BY DEF IdsInv, ShownIdsHold, Copies, Alike
<1> QED
  BY ViewInvHolds, IdsStep, <1>1, <1>2, PTL DEF Spec

-----------------------------------------------------------------------------
\* A channel stays paused, or running, until the operator's own command or a
\* restart; the status updates the forwarder and a retry write late do not
\* touch it (update_status, pause_queue_route, resume_queue_route).
THEOREM PausesHold == Spec => PauseHolds
<1> DEFINE Held == \A c \in Channels : paused'[c] # paused[c] =>
                       \/ At({"pause", "resume"}, "sent") /\ command.channel = c
                       \/ Restart
<1>1. ViewInv /\ [Next]_vars => Held
  <2> SUFFICES ASSUME ViewInv, [Next]_vars PROVE Held
    OBVIOUS
  <2>1. CASE PauseResume
    BY <2>1 DEF PauseResume, ViewInv, ServerInv
  <2>2. CASE Restart
    BY <2>2
  <2>3. CASE UNCHANGED paused
    BY <2>3
  <2>4. CASE \E c \in Channels : Receive(c) \/ Forwarder(c) \/ SwitchChannel(c)
    BY <2>3, <2>4 DEF Receive, Forwarder, ForwardDelivers, ForwardFails,
                      RefreshQueueSize, UpdateStatus, SwitchChannel, serverVars
  <2>5. CASE (\E l \in Loads : Load(l) \/ LoadFails(l)) \/ Poll
    BY <2>3, <2>5 DEF Load, ListQueue, ReadStatus, AdoptAnswer, LoadFails, Poll,
                      serverVars
  <2>6. CASE Operator \/ CommandFails \/ CommandAnswered
    BY <2>3, <2>6 DEF Operator, ClickPauseResume, ClickClear, ClickRetry,
                      ClickDelete, Send, CommandFails, CommandAnswered, serverVars
  <2>7. CASE DeleteRows \/ ClearResetsSize \/ LoadWebhookToRetry
    BY <2>3, <2>7 DEF DeleteRows, ClearResetsSize, LoadWebhookToRetry, serverVars
  <2>8. CASE RetryDelivers \/ RetryUpdatesStatus \/ RetryFails
    BY <2>3, <2>8 DEF RetryDelivers, RetryUpdatesStatus, RetryFails
  <2>9. CASE UNCHANGED vars
    BY <2>3, <2>9 DEF vars, serverVars
  <2> QED
    BY <2>1, <2>2, <2>4, <2>5, <2>6, <2>7, <2>8, <2>9 DEF Next, Command
<1> QED
  BY ViewInvHolds, <1>1, PTL DEF Spec, PauseHolds
=============================================================================
