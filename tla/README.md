# Kaiman webhooks receiver: a TLA+ model

kwp is one process. It accepts webhooks over HTTP, stores them in a SQLite
table, and lets them leave in one of two ways: a client polls them (read and
delete), or a background forwarder per channel sends them to a target and
retries with a backoff. A Web UI lets an operator pause, resume, clear, retry
and delete. The hard part is that the forwarder, the polls and the operator all
work on the same rows and none of them takes a row out of the others' reach.

The modules model the start of the process and its checks, every route's
answer, the webhook from its insertion to its exit, the time behaviour of the
retry schedule, what a locked database does to a sender, and the queue page of
the Web UI in front of a moving queue. Paths below are relative to the
repository.

## 1. Inventory

| Part | State | Operations | What makes it correct |
|---|---|---|---|
| SQLite store `src/lib/outbound/sqlite/webhook.rs` | table `webhooks`: id (AUTOINCREMENT), channel, headers, payload, received_at, forward_attempts, last_*, next_attempt_at | insert, read_and_delete_by_channel, peek_oldest_due, delete_by_id, record_forward_failure, clear, count, list, get_by_id | each statement is atomic; a row is handed out once; a late update never brings a row back |
| Lock retry `sqlite/retry.rs` | attempt number, time started | retry_on_locked | commits at most once, ends within attempts and budget |
| Schema `sqlite/init.rs` | the table's columns | create, add missing columns | concurrent starts both succeed |
| Service `src/lib/domain/webhook/service.rs`, `ports.rs`, `model.rs` | read limit | stamps received_at, delegates | the promise of the ports |
| Backoff `domain/webhook/backoff.rs` | none | classify_status, next_delay, ... | between zero and max-seconds, grows, a refused payload waits longest unless the target names a time |
| Forwarder `src/bin/kwp/background/forward.rs` | a copy of one row; shared status map | run, forward_next, on_delivered, record_failure | drains, survives errors, does not resend at once, reports what is stuck |
| Process start `src/bin/kwp/main.rs` | none but what it hands on | load, validate_config, connect, migrate, spawn forwarders, serve | what the checks look at is right once anything forwards or serves; two starts on one file do not stop each other |
| Queue routes `route/queue.rs` | shared status map (paused, sizes, last results) | get, pause, resume, clear, retry | pause takes effect, a retry agrees with the forwarder |
| Receive route `route/receive_webhook.rs` | none | admission gates, then insert | 200 only for a stored webhook |
| Signing and templates `domain/crypto.rs`, `route/sign_webhook.rs`, `route/test_send.rs` | none | verify, sign, render, extract | what one route signs another accepts; whoever sends to the target signs alike |
| Poll, list, delete routes | rows read and deleted, not yet answered | read and delete, list, delete | no row in two responses |
| Config `domain/config/model.rs`, `outbound/config/env.rs` | constant after start | load, validate | wrong values stop the start |
| Middleware (client IP, request id, Sentry), metrics, logger, static files | none that decides anything | per request | client IP cannot be chosen by the client |
| Web UI `frontend/` | items, status, timers | polls /queue every 5 s, sends operator requests | what is shown belongs to the selected channel |

Interaction: all parts share the table through single SQL statements; the
forwarder and the queue routes also share an in-memory map of statuses behind a
lock; the target and the pollers are reached over HTTP. Hard behaviours:
interleavings between the awaits of the forwarder, a manual retry, a poll and
an operator; answers that are lost; the process dying between two statements;
statements that fail on a lock; retries in time that starve other webhooks; two
processes that migrate one file; a page whose polls overlap its own commands.

## 2. Modules

| Module | Models | Kind |
|---|---|---|
| `WebhookCustody` | what kwp promises about a stored webhook | abstract specification |
| `WebhookQueue` | table, forwarders, manual retries, polls, operator, crash | state machine |
| `Backoff` | `backoff.rs` and the checks of its parameters | operators |
| `ForwardSchedule` | one forwarder in time, over `Backoff` | state machine |
| `LockRetry` | one statement under `retry_on_locked` | state machine |
| `Redelivery` | sender and receive route, composed with `LockRetry` | state machine |
| `ChannelConfig` | environment and config.yml, loading, startup checks, the questions handlers ask | operators |
| `Startup` | processes that start on one database file and migrate it, over `ChannelConfig` | state machine |
| `RequestHandlers` | client address, tokens, admission, signatures, the request to the target, over `ChannelConfig` | operators |
| `Service` | started processes and their answers: composes `Startup` and `RequestHandlers` | state machine |
| `QueueView` | the queue page in front of the server | state machine |
| `MCWebhookQueue`, `MCForwardSchedule`, `MCService` | instances for TLC | |
| `WebhookQueueProofs`, `WebhookCustodyProofs`, `WebhookDeliveryProofs` | proofs about `WebhookQueue` | theorems |
| `ForwardScheduleProofs` | proofs about `Backoff` and `ForwardSchedule` | theorems |
| `RedeliveryProofs` | proofs about `LockRetry` and `Redelivery` | theorems |
| `ServiceProofs` | what `Service` inherits from `Startup`, and the resolved schedules | theorems |
| `AnswerProofs` | what `Service` answers and sends on | theorems |
| `QueueViewProofs` | proofs about `QueueView` | theorems |

### WebhookQueue

`webhooks` is a function from the ids present to rows. A row keeps its channel,
`received_at`, `forward_attempts` and whether it is *parked*, that is
`next_attempt_at` lies in the future; headers, payload and error text decide
nothing here. Every SQL statement is one action, every await between two of
them a place where other actions may happen:

| Code | Actions |
|---|---|
| `receive_webhook` | `ReceiveBegin` (stamp), `Insert`, `ReceiveFails` (503, 500, sender gone) |
| `read_webhooks_route` | `PollTakes` (one DELETE ... RETURNING), `PollAnswered`, `PollUnanswered` |
| `delete_webhook_route`, `clear`, `pause`, `resume` | `Delete`, `Clear`, `Pause`, `Resume` |
| `Forwarder::run`, `forward_next` | `CheckPause`, `PeekDue`, `PeekNothing`, `PeekFails`, `Wake` |
| the request to the target | `TargetAccepts`, `AnswerLost` (accepted, yet counted as a failure), `TargetRefuses` |
| `on_delivered`, `forget_delivered` | `RemoveDelivered`, `RemoveFails` |
| `record_failure` (both), the awaited UPDATE | `RecordFailure`, `RecordFails` |
| `record_failure` of the forwarder, what follows it: the stuck report and the return to the loop | `Report` |
| `retry_webhook_route` | `RetryLoad`, then the same attempt, `RetryAbandoned` when the browser hangs up |
| time passes `next_attempt_at` | `DelayElapses` |
| restart, panic, kill | `Crash`: memory is lost, the table stays |

`delete_by_id` looks at the id alone, so `Delete(id)` takes any stored id. The
forwarder and the manual retry are both *agents*: `pc`, `held` (the row's id)
and `seen` (the `forward_attempts` of the copy). A manual retry consults
neither `paused` nor `parked`, as in the code. The history variables
(`accepted`, `failures`, `unrecorded`, `mishaps`, `reports`, `silenced`, `released`,
`lost`, `discarded`, `sincePause`) record what an outsider saw; no guard reads
them except `failures`, which bounds how often a target refuses. `held` of a
forwarder keeps its id until it has slept, which only `NoImmediateResend` reads.

Left out: fields of the status map that no decision reads; rows that cannot be
decoded (no statement writes one); requests that cannot be built (by
`OnlyUncheckedSurfaces` of `Service` only a template that parses and does not
render is left: the forwarder then ends each pass at the same row without
parking it; requests that are built and cannot be sent, for the reasons of
`CanSend`, are refusals here); loss of the last commits at a power failure (`synchronous = NORMAL`,
documented in `init.rs`); a second instance on the same file.

### Backoff and ForwardSchedule

Durations are milliseconds, what is stored is whole seconds. The power
`interval * multiplier^e` is the constant `Growth`, of which only is assumed what
`check_backoff_values` gives: it starts at the interval and never shrinks.
`ForwardSchedule` counts down the seconds until each webhook is due and the
seconds the forwarder still sleeps. `Hopeless` webhooks are refused for ever;
the others fail at most `MaxFlaky` times. What Retry-After the target sends is a
constant for each kind: `HopelessAsks` with a refusal, `FlakyAsks` with a failure
that passes.

### LockRetry and Redelivery

A call goes through `acquire` (pool), `execute`, `failed` and `answer`; `elapsed`
is the clock that `started` is compared with. Other connections are not
modelled one by one: a wait may take any time up to its timeout, and an
execution may meet any lock error, at once or after `busy_timeout`. `commits`
counts how often the row was really written. Some errors (a failed fsync) leave
open whether it was, and a statement whose caller has gone may still be
committed by the connection's thread. `Redelivery` adds the route's answer and a
sender with one event, which delivers again after a 503 and after a lost
connection, gives up on 500, and stops waiting after its own `patience`. That
senders behave so is what `retry.rs` and `route/mod.rs` say of them.

### WebhookCustody

Admit, Deliver, Retire (only what was delivered), Release (a poll), Discard (an
operator). `WebhookQueue` implements it under `queued <- Stored`,
`admitted <- 1..(nextId - 1)`, `delivered <- {id : accepted[id] > 0}`; the
property is `ImplementsCustody`.

### ChannelConfig, Startup, RequestHandlers, Service

A raw configuration is what the environment and `config.yml` say, with `None`
for what is absent. `Load` is `env.rs`, `ValidateConfig` is the list of checks in
`main.rs`. A template is a record that says whether it parses, whether it
renders, whether HTTP allows its text in a header and in which form it puts a
signature; a signature is the record of its key and body, so two signatures
agree exactly when key, body and form do. `BadNames` are header names a file may
hold and HTTP does not allow. `CanSend` says whether the target's URL and the
channel's own header make a request: `reqwest` keeps such an error in the builder
and `send` returns it as if the target could not be reached.

| Code | Actions and operators |
|---|---|
| `load`, `validate_config` | `ReadConfig`, `RefuseConfig` |
| connection with `journal_mode = WAL` | `Connect`, `CannotOpen` (a `DATABASE_URL` that is no file it can open) |
| `migrate`: create, table_info, add | `CreateSchema`, `ExistingColumns`, `AddColumn`, `ColumnAlreadyAdded` |
| a statement that gives up on a lock | `Locked` |
| HTTP client, forwarders, metrics recorder | `SpawnForwarders` |
| listener | `Listen`, `CannotListen` (a `BIND_ADDRESS` it cannot have) |
| a `?` of `run` for a reason that passes: unreadable file, full disk, address still in use | `Fails` |
| the process ends, dies, is started again | `Stop`, `Crash`, `Restart` |
| the router: `API_ENABLED`, body limit | `Routed` in front of every handler |
| one route each | `ReceiveWebhook`, `ReadWebhooks`, `ListWebhooks`, `DeleteWebhook`, `SignWebhook`, `TestSend`, `ControlQueue` (get, pause, resume), `ClearQueue`, `RetryWebhook`, `GetConfig` |
| the forwarder's request | `Forward` |

In `Startup` every SQL statement is a step, and forwarders run from
`SpawnForwarders` on, before anybody can call (`Forwarding`): a bind that fails
takes them down again. In `Service` a handler is one step, because the question
is what it answers; what handlers do to each other is in `WebhookQueue`. The handlers' gates are operators that return a reply, in the
order of the code's early returns: a reply has its status, a reason (for the
properties to tell replies with one status apart) and what it carries.

### QueueView

`table`, `paused`, `queue_size` and `note` are the server, the rest is the page
`frontend/src/components/QueueView.svelte`. A load reads the list
(`ListQueue`), then the status (`ReadStatus`, whose size is the length of that
list), then is adopted (`AdoptAnswer`); several may be in flight and end in any
order, and so may one of the former channel after `SwitchChannel`. `last` is
`lastItemsJson`. A command goes through `sent`, for a retry `target`, for a retry
and a clear `noting` (`RetryUpdatesStatus`, `ClearResetsSize`), and `done`,
`refused` or `failed`; `CommandAnswered` is what the page does with each. The
record of a failure may fail in turn and leave the row as it was. Of the forwarder there is what the page can see; `note` is the
status update it has computed and not yet written. `Restart` keeps the table and
loses the rest of the server.

The number in `ChannelForwardStatus.queue_size` drifts: two agents decrement it,
a clear sets it to zero after the rows are gone, whatever came in meanwhile, and
it is refreshed from a count taken before an await. `GET /queue` overwrites
it with the length of the list, so nobody sees the drift (`StatusCatchesUp`
fails when `ReadStatus` takes the number in memory).

## 3. Runs

| Run | Question | Bounds and why they suffice |
|---|---|---|
| `delivery` | counters, duplicates and reports when a forwarder, two manual retries, an operator, a storage fault and a crash meet on **one** webhook | the properties are per webhook; two retries plus the forwarder are three overlapping agents; three failures pass the threshold of 2; a poll takes the row as a delete does and is left to `custody`; the retries are symmetric |
| `custody` | is anything dropped, handed out twice, brought back; refinement | two webhooks, two channels, two polls with a read limit of 1, so polls compete and ids of a polled row are followed by new ones |
| `drain` | pause, stuck report, no immediate resend, and that the queue empties | two webhooks so that draining goes on to a second; one storage fault hits each statement in turn, and one crash each step, the one between the record and the report included |
| `schedule` | is anybody starved in time | two refused among four webhooks, interval 1, a send of up to 1 s, a sleep that overruns by up to 1 s; Retry-After absent, 0, equal to the interval and above max-seconds, on a refusal absent or above it |
| `redelivery` | does a lock collision cost or duplicate an event, and how long may a call take | the defaults of `SqliteTuning` in units of 25 ms, waits in steps of 250 ms; a sender that waits 5 s and one that waits 10 s; three deliveries, one lost connection |
| `service` | what a start admits, what every route answers | two processes, one step that fails (on a lock or otherwise), one crash, every state a half-migrated file can be in that distinguishes a step; two channels, one of them varied in one respect at a time around a good configuration (84 variants of the channel, 100 of the whole environment); calls that meet and miss each gate |
| `queue_view` | does the page catch up, do its commands do what it shows | two channels, two polls in flight, one command at a time, three events (webhooks, passes, commands, switches, restarts, failures): each property relates two events at most, a third disturbs them |
| `stuck_report`, `poll_order`, `poll_lost`, `held_up`, `hidden_row` | statements of docs and comments that the code does not meet | the smallest instance that shows it |

What they show:

- `Custody`, `HandedOutOnce`, `ImplementsCustody`: neither a failed attempt, a
  failed statement nor a crash loses a row, and a record that comes too late
  for a polled or cleared row changes nothing.
- `DuplicatesExplained`: the target sees a webhook more than once only after a
  lost answer, an interrupted or failed removal, or two overlapping deliveries.
- `AttemptsAccounted`: the counter is incremented in SQL and not written from
  a copy, so concurrent failures are all counted.
- `StuckIsReported`: without manual retries a webhook at the threshold has been
  reported or is about to be. One case is excepted, and the run reaches it: the
  process dies between the UPDATE that raised the counter and the report
  (`silenced`). The test is an equality, so no later failure makes up for it.
- `NoneHeldUp` has two premises that no check of the code enforces. The target
  sends no short Retry-After with a refusal: `next_delay` grants it before it
  looks at the kind of the failure, and no ceiling helps then. And
  `MaxSeconds >= |Hopeless| * (Interval + SleepDrift + SendSeconds)`: the run
  is exactly at this bound (6 = 2 * 3), and TLC finds a starved webhook at 5.
  With the default of 3600 s and an interval of 30 s, some 120 refused webhooks
  are enough. A short Retry-After on a failure that passes does no harm: there
  are finitely many of those, and the run offers all kinds.
- `held_up` drops the first premise: one refused webhook whose answer says
  Retry-After 1 at an interval of 1 goes before a younger one for ever, although
  `MaxSeconds` is 6. Dropping the second gives the same loop: `MaxSeconds = 1`
  and no header, which `validate_forward_backoff` admits.

- `LatencyBound`: the budget decides only whether another attempt starts, so a
  call takes up to 9 s and not 4 s; a sender that waits 10 s has its answer.
- `StoredOnce`, `ContentionOnlyDelays`: with lock errors only delays, and no
  duplicate without a lost connection. A sender with a timeout below the slowest
  call (the one that waits 5 s) has neither guarantee.

- `ServingSeesSchema`, `RestartNeedsNoLock`: two migrations of one file
  interleave, die half way and still end with every column before anything is
  forwarded or served; a start on a migrated file writes nothing and so waits for
  no lock.
- `SoundOnesServe`: with a sound configuration, a database that can be opened and
  an address that can be had, every process ends up serving, past a lock, another
  failure that passes and a crash; with an unsound configuration none ever
  forwards or serves. With an unusable database or address a process starts and
  stops again and again, which the run contains and nothing is promised of.
- `OnlyUncheckedSurfaces`: what a start admits and a webhook finds out is one of
  four things: a template that parses and does not render, a secret or sign header
  that is no header name, a template whose text no header may carry, a target
  that is no URL. The comment on `validate_config` (`main.rs:78-79`) claims more,
  that misconfiguration "must stop the process here rather than surface as a
  failed webhook hours later": these four do surface there, and all are in the
  run. A secret header that is no name answers 401 to every sender.
- `ScheduleSound` is what `Backoff` assumes of its constants, so the two models
  fit together.
- `StoredMeansAdmitted`, `UntrustedHeadersIgnored`, `StrangerSeesNoChannel`,
  `LayerLimitAgrees`: the gates before an insert, and before a name is looked at.
  `StrangerSeesNoChannel` is about the nine routes that ask for a token; the
  receive route asks for none and answers 404 for an unknown name and otherwise
  for a known one, as `docs/API.md` says. `SignedIsAccepted`, `AgentsSignAlike`,
  `SignedOnce`: code that signs in four places fits together.
  `SecretsStayServerSide`: what the config route shows does not depend on the
  secrets.
- `ListCatchesUp`, `StatusCatchesUp`: once nothing happens, the page has received
  the list and the status of the channel it shows. `RetryStaysInChannel`: rows of
  the former channel are shown for a moment, and a retry of one is refused.
  `PauseHolds`: no late status update undoes a pause. `ShownIdsHold`: a delete names
  the id alone, and the id of a stale row never means another webhook, because the
  table never gives an id out twice.
- `hidden_row`: having received the list is not showing it. The page takes rows
  away locally and keeps the list it compares answers with, so a row that is
  still queued may stay hidden.

The five disagreements between docs or comments and the code are listed under
"findings" in `PROJECT.json`. A sixth, the comment on `validate_config`, has no run
of its own: `OnlyUncheckedSurfaces` says what the code does instead. Two observations are not findings: a webhook whose
attempt was under way may be delivered after a clear, which is what `discarded`
and `accepted` of `WebhookQueue` allow together; and nothing checks that channel
names and tokens are unique.

The runs check for deadlock, except `redelivery`, which is over when the sender
has its answer. `drain` is the run with fairness on the queue:
weak fairness of each forwarder's next step (tokio polls a task that can run,
its timers fire, and `timeout-seconds` ends every request), and of
`DelayElapses` (the wall clock goes on). Senders, polls and operators promise
nothing, failures and faults are bounded in the model, and `EventuallyLeaves`
excuses a channel that is paused again and again. `schedule` assumes weak
fairness of the forwarder and its sleep only, and nobody has to send.
`service` assumes that a process that started goes on and that one that stopped
is started again (`restart: unless-stopped` in the compose file, the Deployment
of the chart); no client has to call. `queue_view` assumes that the page's timer
ticks, that a call ends and that the server answers; the forwarder and the
operator promise nothing.

Bounds in the guards: `MaxWebhooks`, `MaxClock`, `MaxFailures`,
`MaxStorageFaults`, `MaxRetries`, `MaxCrashes` (WebhookQueue); `MaxWebhooks`,
`MaxFlaky`, `AttemptCap`, `SendSeconds`, `SleepDrift` (ForwardSchedule); `TimerSlack`,
`WaitStep` (LockRetry); `MaxDeliveries`, `MaxLost` (Redelivery); `MaxFaults`,
`MaxCrashes` (Startup); `MaxEvents`, `Loads`, one command at a time (QueueView). In
`Service` clients wait until every process serves and for each other's answer,
and no process starts or dies once a webhook is stored or an answer is pending.

Operators marked "Wrong on purpose" are plausible mistakes in the code, one per
checked property: replacing the definition that follows by one of them makes
its run fail.

## 4. Proofs

For every value of the constants that satisfies the stated assumptions (finite
sets of forwarding channels and retries; natural bounds; what
`check_backoff_values` admits):

- `TypeCorrect`: `Spec => []TypeOK`. `TypeOK` is inductive as it stands,
  because it says that copies, responses and exits name only ids below
  `nextId`. One step per action, one conjunct group per variable touched.
- `CustodyHolds`: `Spec => []Custody`. Not inductive alone: a removal is safe
  only because whoever stands at `delete` holds a webhook that was accepted.
  The invariant is `Custody /\ RemovesOnlyAccepted`.
- `PolledOnce`: `Spec => []HandedOutOnce`, inductive with `TypeOK`: an exit
  holds ids below `nextId`, so no insert brings one back.
- `Refinement`: `Spec => ImplementsCustody`, every action maps to one action of
  the promise or to a stutter, with the two invariants above.
- `DelayCapped`, `DelaysGrow`, `RejectedWaitsLongest`: `next_delay` lies between
  zero and max-seconds also with full jitter and a large Retry-After; delays
  grow; a payload refused without a Retry-After waits at least as long as any
  other failure, with or without one.
- `RetryAfterOverrides`: with a Retry-After the delay is that, capped, whatever the
  kind of the failure; so the ordering just stated has to exclude it.
- `ScheduleTypes`: no webhook is ever parked for longer than max-seconds.
- `CallsEndInTime`: `Spec => []LatencyBound`, by `TimeLeft`: a call that still has
  to acquire or to execute has spent less than one that has answered.
- `EventStoredOnce`, `ContentionNeverDrops`: by `CommitsSeen`. While the route may
  still try again or ask for redelivery, every row so far belongs to a delivery
  whose end the sender did not see; a patient sender never times out, which
  follows from `LatencyBound`.

- `PauseTakesEffect`: by `PauseInv`: one attempt at most since the pause, and none
  for a forwarder that stands before its peek while the channel is paused.
- `NoFailureUncounted`: by `AttemptsInv`, an equation for every stored webhook: its
  failures are its counter, plus those known to be unrecorded, plus the agents
  on the way to record one (`AgentsAt`, a cardinality each move changes by one at
  most).
- `NoUnexplainedDuplicate`: by `DeliveryInv`: what was accepted, plus the agents
  that may still send, plus one if the webhook is stored and nobody holds it, is
  at most one more than the mishaps. The sum is what makes it inductive.
- `NoUnexplainedReport`: by `ReportInv`: a forwarder works on rows of its own channel
  with a copy that is not ahead of the row, no two forwarders on one webhook,
  and the reports made, plus the one about to be made (`Pending`), plus the one
  still to be expected are at most one more than the failures that were not
  recorded. A report that a crash cuts off only lowers the sum.
- `StuckNeverMissed`: `MaxRetries = 0` implies `StuckIsReported`, by `QuietInv` (until
  the forwarder has recorded the failure its copy is the row, so the step that
  brings the counter to the threshold leaves a forwarder about to report; from
  there it reports, or a crash puts the webhook into `silenced`). For any number
  of crashes. With manual retries it is false: finding `stuck_report`.
- `SleepsBeforeResend`: by `FreshInv`: a forwarder that reads again without having
  slept remembers no row that is still there.
- `ServesWholeSchema`, `RestartsPastLocks`: for any number
  of processes, faults and crashes, from `StartupAssumption`. `StartupInv` says for
  each process what it may rely on from its phase alone (`Knows`: what it has not
  seen is in its list of missing columns), and every step of another process
  only adds to the database (`Grows`).
- `SchedulesSound`: what serves has passed the checks, and the checks are made on
  resolved values.
- `ChecksCoverTheRest`, `OneSignatureSent`, `AgentsAgree`, `LayerNeverStricter`: for every configuration and every
  call that satisfies `StartupAssumption` and `CallsAssumption` (HTTP names arrive
  in lower case, sizes are natural numbers).

- `UnsoundNeverServes`: the checks stand before every other step of a start, so each
  phase behind them implies that the configuration is sound (part of `StartupInv`).
- `ServiceTypes`: with `StartupInv`, which is what types the processes.
- `AddressIsThePeers`, `StrangersLearnNoName`, `OnlyAdmittedIsStored`,
  `SignatureComesBack`: by `AnsweredCall`. An answer stays while nobody calls, so what
  it says must be tied to where it came from: every answer is the reply of its
  handler to a call of `Calls`, given by a configuration that passed the checks.
  Each property then is one of the handler's gates and their order. For
  `StrangersLearnNoName` no channel has the token, so every handler behind one
  ends at `Authorize` and no name is ever compared; for
  `SignatureComesBack` the channel that signs and the one that receives are the
  same by name, and what the header carries extracts to the MAC.
- `SecretsNeverShown`: by the same invariant; `OtherSecrets` and `SamePublicChannel` say
  that a channel with other secrets has the same public part.
- `ViewTypes`, `RetriesStayInChannel`: by `ViewInv`, one conjunct per party. A list is
  typed while it is in flight, not only once it is shown; it is finite, for its
  length becomes the size; a command at the target carries a row of the channel it
  was sent for.
- `ShownIdsKeepMeaning`: by `IdsInv`. That shown and stored rows agree is not
  inductive, since an old answer may still arrive: the ids must say the same in
  all copies, those of the table, the page and every answer in flight. Each step
  but `Receive` only copies or drops rows (`NothingNew`), and `Receive` takes an id
  above all of them.
- `PausesHold`: an action property, from the types of `ViewInv`, one case per action.

The proofs about answers assume of the constants (`CallsAssumption`,
`ChannelsAssumption`) that calls and channels are records with the fields the code
reads and that `None` stands for absence only: no secret, forward, header text or
signature equals it. Bounds such as `MaxEvents` and the number of `Loads`, calls or
processes are arbitrary in every proof.

Every invariant and action property of the runs is proved. Only model-checked are
the liveness properties (`EventuallyLeaves`, `NoneHeldUp`, `RetriesNeverStop`,
`SoundOnesServe`, `ListCatchesUp`, `StatusCatchesUp`), which are outside the prover's
reach. Of `SoundOnesServe` the safety half is proved (`UnsoundNeverServes`). The
recursion behind the backoff, a power, is the constant `Growth` of which only
monotonicity is assumed, and induction over it is not attempted.

## 5. Plan and limits

Done: the modules of section 2. Left, in this order:

1. A second instance in `WebhookQueue`, that is two forwarders of one channel in a
   rolling deploy, and two channels of one name, which give the same.
2. The panic of `&body[..MAX_BODY]` (`forward.rs:435`) as a crash that comes back
   with the same answer of the target; the release profile aborts on a panic, so
   one such answer stops all channels.

A second forwarder of one channel makes `OneForwarder` false, on which the proof
about reports rests: both may report the same failure count. The property has
to say so before the model is widened.

Not modelled: packaging and deployment (no program); the logger, the metrics, the
request id and the Sentry scope with the headers it hides (no decision of the
program reads what they write); static files, version and metrics routes
(constant answers);
the other pages of the Web UI (they load once per click or show the
configuration); parsing of YAML, addresses, header values and templates, which
libraries do; `reset_forward_attempts`, which no route calls.
