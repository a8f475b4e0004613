# Kraclaw specifications

TLA+ specifications of Kraclaw: what is modelled, what TLC checks on small instances and what
TLAPS proves for all of them. Line numbers without a file refer to
`internal/orchestrator/orchestrator.go`.

## 1. The system

Kraclaw runs one AI agent per chat group in a Kubernetes sandbox. Messages from channels are
stored in MySQL. The orchestrator's message loop either pipes them to the group's running agent
over a NATS JetStream stream, or starts an agent. Replies come back over the same stream. A gRPC
server gives a terminal client access to groups, tasks, conversations and events; agents reach
their model provider through a credential proxy.

| Part | State | Operations | Interacts with |
|---|---|---|---|
| Admission gate | in-flight slots, `groups.is_active` | claim, count, admit, mark, release | spawns of all groups |
| Sandbox lifecycle | slots, tracked sandboxes, active flag, queue | poll, spawn and its cleanups, watch, deactivate, sandbox event, restart | Kubernetes, MySQL, NATS |
| Sandbox watcher | watch session, bounded channel | list, watch, deliver, drop, reopen | Kubernetes, event handlers |
| Message cursors | last, agent and confirmed timestamps | fetch, pipe, spawn, confirm, roll back, save, load | messages table, streams |
| Cursor persistence | `router_state` rows, `prev*`, dirty flag | `saveState`, flusher | every goroutine that moves a cursor |
| IPC delivery | durable consumer, channel, cleanups | consume, push, ack, nak, close | watchers, API readers, agents |
| IPC streams | stream, consumers, `streamCreated` cache | ensure, delete, reconcile | spawns, watchers, agents |
| Work queue | stream, consumer, two caches | enqueue, dequeue, ack, put back | scheduler, deactivation |
| Scheduler | `scheduled_tasks`, semaphore | poll, claim, execute, compensate, record | API, agents, queue |
| Group models | groups and sessions tables, their copies | register, `/model`, refresh, start, `set_model` | API, agents |
| Sign-in and proxy | device flow, credentials table | poll, exchange, store, look up, forward | authorization server, agents |
| Streams and shutdown | subscribers, buffers, `main` | subscribe, publish, leave, stop | clients, channels |
| Process and schema | resources, service errors, migrations | open, serve, monitor, close, seed, migrate | all of the above |
| Rate limiter | token bucket | read clock, refill, take | inbound messages |
| Terminal client | screens, flows, lists, streams | keys, results of commands | gRPC server |

What makes it hard: every spawn, watcher and handler is a goroutine; a group's state is spread
over a mutex-protected map, a sync.Map, a database flag, a stream and a cluster resource, and no
step changes two of them at once; every call may fail; a process or an agent may die between any
two steps; and results arrive after those who asked for them have gone on.

## 2. Modules

| Module | Models | An action is |
|---|---|---|
| `Admission` | the gate for any number of groups, as an abstract protocol | a phase change of a slot holder |
| `SandboxLifecycle` | message loop, `processGroupMessages`/`spawnAgent`, `watchGroupOutput`, `handleSandboxEvent`, crash and start | one access to shared state with the local code around it |
| `SandboxWatch` | `WatchSandboxes` and the loops that read it | a change in the cluster, an event taken, sent, dropped or handled |
| `MessageCursors` | the three cursors of one group with the messages themselves | one access to shared state, seen from the cursors |
| `StatePersistence` | `saveState` row by row, the flusher | snapshot, comparison, write, remember |
| `IPCDelivery` | `NATSBroker.consume` and `IPCClient.startReadInput` on one durable consumer | a step of the reading goroutine, of JetStream, or of the reader |
| `IPCStreams` | creation and deletion of one group's stream and the cache of it | one NATS call or one cache access |
| `GroupQueue` | `NATSQueue` of one group, its producers and the drain of `deactivate` | one NATS call or one cache access |
| `Scheduler` | `poll`, `runTask`, `executeScheduledTask`, the writers of the rows | one database or queue call |
| `GroupModels` | `RegisterGroup`, `/model`, `refreshGroups`, agent start, session updates | one read or write of a table or copy |
| `SignIn` | `StartChatGPTDeviceAuth`, the poll loop, `UpsertChatGPTCredential`, the proxy's lookup and forward | one call, or one decision of the poll loop |
| `Gateway` | `StreamInbound`, `StreamEvents`, TUI channel, event hub, the shutdown of `cmd/kraclaw` | a critical section, or one channel operation |
| `Startup` | `main` of `cmd/kraclaw`: resources, services, monitors | a resource opened or closed, a service's end, a branch of `main` |
| `Migrations` | `runMigrations` with `seedLegacyMigrations` | one statement |
| `RateLimit` | `tokenBucket` under `onInboundMessage` | reading the clock; the section under the lock |
| `TerminalClient` | the Messages tab of `cmd/kraclaw-tui`: creation, sign-in, conversation | a key, or a result that arrives |
| `Dashboard` | its other tabs: lists, filter, event feed | a key, a tick, or a result that arrives |

Proof modules, and what they are about: `AdmissionProofs`; `SandboxLifecycleProofs` (with the
refinement); `OrchestratorProofs` (`IPCStreams`, `SandboxWatch`, `StatePersistence`); `NATSProofs`
(`GroupQueue`, `IPCDelivery`); `MessageCursorsProofs`; `StoreProofs` (`Scheduler`, `GroupModels`,
`Migrations`); `ServerProofs` (`Gateway`, `RateLimit`, `SignIn`); `ClientProofs` (`TerminalClient`,
`Dashboard`).

How they compose. `SandboxLifecycle` implements `Admission`: the refinement mapping reads the
phase of a group off the program counter of the goroutine that holds its slot, and
`AdmissionProtocol` is the abstract specification as a property. `MessageCursors` refines the
three facts (`unseen`, `backlog`, `unconfirmed`) to which `SandboxLifecycle` reduces the cursors;
its `SaveState` is one step, and `StatePersistence` looks inside it. `IPCStreams`, `GroupQueue`
and `SandboxWatch` look inside the stream calls, the queue calls and the events that are single
steps in `SandboxLifecycle`, and `IPCDelivery` inside what happens between a stream and a reader.
`SignIn` has both the writer and the reader of the credentials table, `Scheduler` and
`GroupModels` all writers of their rows, and `Gateway` the publishers, the readers and `main`.

`MCFaults`, `MCRows`, `MCGateway`, `MCMessageCursors` and `MCTerminalClient` put several modules
that share no state into one run. A variable `part`, chosen at the start, says whose behaviours
these are; the others stay where they began, so that the state spaces add up instead of being
multiplied. A property of one part is thereby checked in all behaviours of that part.
`MCSandboxLifecycle` adds symmetry sets, `MCIPCStreams` too, and shares its bounds out.

Variables have the names of the fields they stand for where there is one (`inflight`,
`activeSandboxes`, `lastTimestamp`, `cleanups`, `closed`, ...); the local state of a goroutine
is a record with a `pc`. `Fails`, or a branch that says so, is a call that returns an error, and a
bound (`MaxFaults`, `MaxTroubles`, ...) limits how many do. History variables, which the code does
not have:

| Module | History |
|---|---|
| `SandboxLifecycle` | `slipped` |
| `MessageCursors` | `sent`, `interrupted` |
| `StatePersistence` | `unsaved`, `overlapped` |
| `IPCDelivery` | `received`, `lost` |
| `IPCStreams` | `late`, `crossed` |
| `Scheduler` | `claims`, `deleted`, `orphans`, `stray` |
| `SandboxWatch` | `handled` |
| `GroupQueue` | `taken`, `spent`, `excess`, `gone` |
| `GroupModels` | `raced` |
| `SignIn` | `stored` |
| `Gateway` | `got`, `since`, `missed` |
| `Migrations` | `ran`, `torn` |
| `TerminalClient`, `Dashboard` | `stray`, `oauth.own`, `creation.from`; `twice` |

Definitions introduced as "A form that ..." or "Variant: ..." are deliberately wrong versions of
the definition that follows them; the properties are tested against them.

External, and modelled from how the code uses it: MySQL statements are atomic; JetStream delivers
in order (in `GroupQueue` in any order, which a redelivery allows), redelivers what is not
acknowledged, and drops consumers and messages with their stream; Kubernetes reports the end of a
sandbox to a watch that is open, late or not at all; pods end at any time; goose takes its lock, runs what is not registered
and registers it; the authorization server answers pending, slow down, denied or expired, or approved, and may refuse
the exchange of a code it gave; gRPC's
graceful stop waits for handlers, its hard stop cancels them; Bubble Tea handles one message at a
time and runs commands beside the loop.

## 3. Runs

| Run | Instance | Checks |
|---|---|---|
| `lifecycle_orders` | 1 group, 2 spawns, 2 watchers, 3 sandboxes, a scheduled task, a crash (and then 2 sandboxes) | `SlotExclusion`, `ActiveAttended` in all orders, those of the start included |
| `lifecycle_gate` | 2 groups, limit 1, a fault | `AdmissionProtocol`, the refinement |
| `lifecycle_faults` | lifecycle: 1 group with trigger, a scheduled task, a fault or panic, a crash | `SlotsReleased`, `DeadAgentNoticed` |
| | watch: 2 sandboxes, 4 changes, a channel of 1 | `DeletionsKept`, `DeletionsHandled` |
| | queue: 2 prompts, one malformed, a producer, 2 drains, a loss or crash | `PromptsKept`, `SpentOnce`, `QueueHeals` |
| | persistence: a saver and the flusher, 3 updates, a failure, a restart | `PersistedWhenQuiet`, `ConfirmPersisted` |
| `cursors` | cursors: 3 messages, the last 2 triggers, 2 spawns, a death, a failed save, a crash | `CursorCoversSent`, `ConfirmedHanded` |
| | admission: 5 groups, limit 2 | `OvershootBounded`: active and admitted groups never exceed twice the limit |
| `delivery` | 2 subscriptions of one stream, 2 messages, of which the first may not parse, a channel of 1, a fault | `AckedReached`, `CloseEnds`, `EventuallyDelivered` |
| `streams` | 2 overlapping spawns and one more thing, or 1 spawn and two: a failing call, an agent that quits, a reconciler pass, a call of a sender | `ReconcilerSparesSpawns`, `CacheHonest` |
| `rows` | tasks: 2 tasks on 1 semaphore slot, 2 user writes, 2 faults, a restart | `OnceClaimedOnce`, `NoStrayPrompt`, `DueTasksRun` |
| | models: 2 providers, 2 commands or registrations, a refresh, a spawn, up to 2 messages unread, session updates | `ModelFits`, `AgentCurrent`, `CacheConverges` |
| `client` | Messages tab: 2 creation flows, 2 conversations, a sign-in | `PickerOfThisFlow`, `ConversationHeard`, `CrashExplained`, `EscapeWorks` |
| | other tabs: lists of up to 2 rows, 2 feeds | `CursorsInRange`, `FeedPanicExplained` |
| `gateway` | streams: one of each kind, a buffer of 1, 2 messages | `StreamsInOrder`, `ShutdownCompletes` |
| | bucket: 2 concurrent messages, 1 per second, 2.5 seconds | `RateBound` |
| | process: start, two services that may fail, both ways down | `FailureEndsProcess` |
| | migrations: 2 processes, 3 versions, 2 stops | `MigratedOnce`, `SchemaComplete` |
| | sign-in: 2 groups, 2 sign-ins, a request, a deadline of 2 back-offs | `RequestsKeepTheirOwn`, `HonestAnswer` |
| `cursors_rollback`, `streams_legacy`, `scheduler_created` | smallest that shows it | violated, section 6 |

What the newer properties say:

* Watch and queue. `DeletionsKept`: what a watch session delivers is in the cluster's order, and no
  deletion it took is missing, although other events are dropped when the channel is full.
  `PromptsKept`: a prompt the queue accepted is in the stream, in somebody's hands, has started a
  sandbox, or was lost in one of the ways the code reports. `SpentOnce`: a prompt
  starts one sandbox, and another only for a cause that is counted. `QueueHeals`: a stream lost under a cached consumer does not block the
  queue.
* Models. `ModelFits`: the row's model is one its provider has. `AgentCurrent`: the running agent
  uses the row's model once it has read its messages. `CacheConverges`: the orchestrator's copy ends up equal to the table.
* Streams. `CacheHonest`: the broker's cache names a stream that is gone only in the window of the
  delete, or after a store that crossed it; the next create or delete ends that, so a spawn that
  fails over a stale entry leaves none to the next one.
* Sign-in. `HonestAnswer`: what the client is told (success, denied or expired, timeout) is so when
  it is told. `RequestsKeepTheirOwn`: a request carries a credential of its group or of the platform,
  to the upstream that credential is for, even if the row was replaced after the lookup.
* Process. `StreamsInOrder`: a subscriber sees what was published since it subscribed, in order and
  once, except what was dropped while its own buffer was full. `ShutdownCompletes`: clients that
  never leave do not keep the process from stopping. `FailureEndsProcess`: a service's error ends
  the process, whenever it occurs.
* Client. `PickerOfThisFlow`: the rows a user chooses from belong to the flow on the screen.
  `ConversationHeard`: an attached stream is being read. `EscapeWorks`: Esc leads back to the group
  list whatever the server does.

Bounds. Two goroutines of a kind are the smallest number that race; two sandboxes of one group
are needed for an event of the old to meet the new, a third for the new one to be replaced too;
two groups and a limit of one make the gate bind. Five groups with a limit of two reach the
overshoot bound of four, with a group left over. Three messages allow one to be read, one to be
piped and one to arrive meanwhile. One fault and one crash, at every possible step, cover each
single failure; combinations of two are covered only where the table says so. A channel or buffer
of one is full after one message, so the second meets the full case; the drop of `seen` after 1000
names is modelled with `MaxSeen = 1`. Two flows, conversations or feeds are what a late result of
one needs to meet the other. In `streams` the retry counts are 2 instead of 3, 4 and 5 (the first
attempt and the last are the ones that differ), and two spawns are the overlap of the hazards; the
properties there are proved for any number of both. Two processes and three versions let one die in the middle of the
seeding while the other waits for the lock. Unbounded counters (messages, sandboxes, updates, the
clock) are capped in guards by constants whose comments say "bound".

A type invariant shows little by itself, so none is among the runs' properties. Those of
`Admission` and `SandboxLifecycle` are proved; the others hold on the instances above. Safety
properties that are proved and left to the proof alone: `StaleCountsScarce`, `CloseReachesAll`,
`DeletedStaysDeleted`, `ClosedOnce`, `RowsReadable` (section 4).

Deadlock is not checked: in every run the bounds, an exit of the process or a panic of the client
let the system come to rest. What must not get stuck is stated as a liveness property.

Fairness. Weak fairness of what the Go scheduler runs (a goroutine with a step to take takes it),
of tickers and timers (liveness, flusher, scheduler poll, message loop, `grpcStopTimeout`), of
JetStream answering a pull and expiring AckWait, and of a reader taking what is in its channel.
By property:

* `SlotsReleased`, `DeadAgentNoticed`: message loop, spawns, watchers, event handler, the steps of
  the start, the opening of the watch, the periodic `CleanupOrphans` (252), and Kubernetes removing
  what it was told to remove. That a watch ends is a fault, and never assumed. `DeletionsHandled`: the watch goroutine, the
  handler and the reopening of the watch. `QueueHeals`: the drains and JetStream offering what it
  holds. `ConfirmPersisted`: `saveState` and the flusher's ticker.
* `CloseEnds`, `EventuallyDelivered`: goroutines, the iterator's stop, readers, delivery, AckWait.
  `AgentsComeUp` (in `streams_legacy`): the same of spawns, watchers, agents and the event handler.
* `DueTasksRun`: the poll, the clock and the runs; strong fairness in this one place, `Acquire` of
  the semaphore, which serves waiters in order. `CacheConverges`: the refresh and the handling of
  commands that have begun, not that commands are given.
* `ShutdownCompletes`: `main`'s shutdown steps and the handlers, but not
  that a client takes its messages. `FailureEndsProcess`: `main` and the two monitors, and a server
  that returns once it is told to.
* `EscapeWorks`: the user keeps pressing Esc; nothing is assumed of the server.

Messages, deaths, faults, deletions and logins are never assumed to happen.

## 4. Proofs

TLAPS checks the following for every value of the constants that satisfies the named assumptions
(`AdmissionAssumption`, `LifecycleAssumption`, ...). They say that there are finitely many groups
and goroutines where something is counted, that limits are at least 1 where the code enforces it
(`config.go` rejects `MAX_CONCURRENT <= 0`), that bounds are natural numbers and that model values
are distinct from what they stand beside. `MigrateAssumption` says the latter of the table that
does not exist, `ModelsAssumption` that a configuration has a provider and a model and nothing
else, `ClientAssumption` and `DashAssumption` that groups and folders come in a list. TLC evaluates
all of them in the runs. Every invariant below was an invariant of a TLC run before it was proved.

The sandboxes:

* `AdmissionProofs!OvershootTheorem` and `StaleCountsTheorem`. The bound is not inductive: at the
  bound a goroutine that read a small count long ago could still pass. The invariant adds
  `StaleCountsScarce`: when the load exceeds the limit by more than u, there is a level t below
  the current active count such that at most t - u goroutines still carry a count of at most t.
  Passing the gate with a stale count s needs s plus the slots held by others to be below the
  limit, and those slots include all other stale counts, so each admission uses one of them up.
  There is a lemma per kind of step: quiet ones (`QuietActions`), a group becoming inactive
  (`InactiveStep`), a restart and, where the argument is, `AdmitStep`.
* `SandboxLifecycleProofs!TypeTheorem` and `SlotExclusionTheorem`: types, and one owner per
  in-flight slot, for any number of groups, spawns, watchers, sandboxes, faults and crashes.
  Types need `Placed` (a goroutine that is not idle has a group) to be inductive; exclusion needs
  both, because a release takes the slot of the group the goroutine has in hand.
* `SandboxLifecycleProofs!AttendedTheorem`: no active group is forgotten. `Attended` is not kept by
  itself: the event of an old sandbox attends to a group, and is then dropped as stale.
  `AttendInv` distinguishes two cases. While a goroutine is under way with the group (`Engaged`), or
  the message loop is about to start one, one of them keeps it (`Kept`): the spawn that marked it and
  then its watcher, neither of which lets go before the group is inactive; what the others do to the
  tracked sandbox does not matter. Without any, nothing is tracked, so no event is stale, and a
  sandbox that lives or whose event waits, the event handler, or a start that has still to look at the
  group is what is left (`Left`). A crash leads from the first case to the second. A spawn that marks
  its group has a sandbox (`Prepared`), so that its cleanup does not end without `MarkInactive`.
* `SandboxLifecycleProofs!RefinementTheorem`: `Spec => AdmissionProtocol`, every step of the
  lifecycle is a step of the protocol or none. The mapping picks the holder of a slot with CHOOSE;
  `SlotExclusion` makes it unique, so `HolderDecides` says which phase it is and `Unaffected` that
  other groups keep theirs. Then one lemma per way a goroutine can move: it claims, stays, gives up
  or releases; `GateAgrees` shows that the two gates count alike. `BoundTheorem` takes the
  overshoot bound from the protocol to the lifecycle.

The orchestrator beside its spawns:

* `OrchestratorProofs!SparesTheorem`: the reconciler deletes no stream that is in use. `SeenInv`
  says that what a pass has looked at is still so: no slot after the first look, not active after
  the second, no sandbox after the third. That a spawn cannot undo one of them rests on where
  spawns, watchers and the reconciler can be, and return to, with the slot in their hands
  (`PlacesInv`), and on the slot having one holder (`HoldInv`).
* `OrchestratorProofs!CacheTheorem`: `CacheInv` adds to `CacheHonest` that a stream which is gone
  while somebody is between the create and the store has been recorded as `crossed`. One lemma says
  what every step that leaves broker and cache alone keeps (`CacheKept`), another is about the steps
  of `ensureStream` and `DeleteStreams` (`CacheBroker`), whoever takes them.
* `OrchestratorProofs!DeletionsTheorem`: `WatchInv` has the deletions of a session in order and up
  to its position, and an event that is held back only while the session is open.
* `OrchestratorProofs!PersistedTheorem`: `SaveInv` says of a row that is behind its cursor that a
  save which will still write it has the cursor in its snapshot or has yet to take it (`Covered`),
  and of `prev*` that it is what the row holds, but for the save that has just written it.

Messages and prompts:

* `MessageCursorsProofs!CoversTheorem` and `ConfirmedTheorem`: no cursor, in memory or in the table,
  passes over a message that nobody was given. `HandInv` says it of all four cursors at once, and
  of what the message loop and a spawn hold between their steps: a batch that closes the gap
  between what was handed out and its own last message (`Closes`), so that a cursor moved to the end of it is
  safe although other goroutines have moved the cursor meanwhile. `SafeGrows` is the reason why it
  is kept: what is handed out stays handed out. The theorems have the conditions of the properties
  (section 5), and `Orderly` is the part of them that never changes.
* `NATSProofs!PromptsTheorem` and `SpentTheorem`: the queue of a group. `QueueInv` counts: the
  sandboxes started for a prompt, its copies that can still be fetched and the callers that have it
  in their hands are together at most one more than what was offered or put back beside a sandbox
  that had been created (`Counted`).
  Moving a copy between these keeps the sum, and an acknowledgement removes the right copy
  because a caller's number is its own and names the message it was given (`AckInv`, `SeqInv`).
* `NATSProofs!AckedTheorem` and `CloseTheorem`: an acknowledged message has reached a reader
  or a channel, or went with the channel of a process that died, and Close stops every subscription. `DeliveryInv` adds what a goroutine about to
  acknowledge knows (its message has been pushed) and one about to push (it has a message);
  `Moves` reduces a step to the change of one subscription.

Tables:

* `StoreProofs!OnceTheorem`, `DeletedTheorem` and `NoStrayTheorem`: a once task is claimed at
  most once per write of its row, a deleted one stays deleted, and a failed run leaves no prompt.
  `SchedulerInv` says of a run about to claim that nobody has claimed since the row was written, of
  a run that has claimed that it will write only "completed", and of a run without a row that it
  was there when the row was deleted. `PromptInv` adds that a task has one prompt that is stored
  and not enqueued while its run is between the two calls, and none otherwise.
* `StoreProofs!FitsTheorem` and `CurrentTheorem`: the model of a group. `FitInv` says of a
  command between its check and its write that the model fits the provider of the row as it is now;
  `AgentInv` that, without overlap, the last message an agent will read names the row's model, or, when
  none waits, the agent runs it, unless the command that wrote it has still to tell the agent.
* `StoreProofs!MigratedTheorem` and `SchemaTheorem`: `RunInv` says that what is registered has been
  run, `OnceInv` that what has been run is registered, will be seeded, or is about to be registered
  by the process that has the lock (`Accounted`).

The server:

* `ServerProofs!RateTheorem`: `RateInv` relates the tokens left, the messages accepted and
  `lastRefillAt`, so that time credited when the clock appears to go back was debited before.
* `ServerProofs!ClosedOnceTheorem`: `ClosingInv` says that who closes a channel takes it off the
  subscribers in the same critical section.
* `ServerProofs!StreamsTheorem`: what a subscriber was given and what waits in its buffer are the
  messages since it subscribed, in order, less the missed ones, whatever other streams do.
* `ServerProofs!RowsReadableTheorem` and `RequestsTheorem`: `SignInInv` says where every token in a
  row and in a request comes from. `HonestTheorem`, an action property: how far a sign-in has come
  agrees with what the user decided and what is stored (`Agrees`), so each answer is true when it
  is given.

The terminal client:

* `ClientProofs!PickerTheorem`, `HeardTheorem` and `CrashTheorem`: one invariant, `ClientInv`. A
  stream that is attached has been opened and is read (`HeardInv`, which also needs that a stream
  that was opened has a group); and as long as no result was applied to another screen than its
  own, each screen has what it uses (`ScreenInv`): a conversation a group, a creation a name, a
  sign-in the stream it will read on from. One lemma per key or result.
* `ClientProofs!CursorsTheorem` and `FeedTheorem`: `DashInv`. Only a turn of the filter that finds
  no tasks leaves the cursor alone, and then it is at the top. As long as no second stream was
  opened, there is one that is not spare, and it alone is read, once (`OneFeed`).

Left to TLC: liveness, since the prover has no fairness or ENABLED. Every safety property of the
passing runs is proved. What a recursively defined operator computes for every input is out of the
prover's reach as well; none is used in a module with theorems.

## 5. What the exceptions in the properties say

Some properties hold only with an exception, and each is a statement about the code:

* `ActiveAttended` and `DeadAgentNoticed` hold without failing calls; a `MarkInactive` that fails
  in `deactivate` (1298-1306) leaves the group active with nobody watching, as the log line says.
  Both except a sandbox that ends in a start, after `reconcileActiveSet` has looked at its group
  (1854) and before the list of the first watch (`watcher.go:30`), or while a failed watch is being
  opened again (`slipped`): the watch reports what comes after its list, not what it finds. The
  exception ends when `CleanupOrphans` deletes that sandbox under an open watch. A sandbox that is
  deleted inside the gap itself is never reported. Without the exception TLC finds both violated.
* `CursorCoversSent` needs timestamps in order of arrival (queries use `timestamp >`) and a batch
  limit that is not reached; and a crash costs the batches of the spawns under way, because the
  advanced cursor is saved before they are sent (903).
* `PersistedWhenQuiet` excepts overlapping saves: `saveState` compares and assigns `prev*` outside
  the lock (413-448), so an older snapshot can be written last while the newer one is remembered.
* `AckedReached` and `EventuallyDelivered` name what a crash costs: a message is acknowledged when it
  is in the channel (`nats_broker.go:384-385`), and goes with the channel if the process dies before
  it is read (`lost`). What a leaving reader abandons in its channel counts as having reached it.
* `CacheHonest` excepts an `ensureStream` whose stream is deleted between its create and its store
  (`nats_broker.go:91-107`): the entry then stays until the next delete (`crossed`).
* `ReconcilerSparesSpawns` excepts spawns that started after the pass looked at the slot (`late`).
* `HonestAnswer` takes denied and expired together, as the code does: `pollTerminalCode`
  (`device_flow.go:258-271`) reads both as access denied, in the poll and in the exchange (429-431).
* `OnceClaimedOnce` counts per write of the row: `taskService.UpdateTask` writes back a whole row
  it read earlier and can re-arm a task claimed meanwhile.
* `SpentOnce` counts what starts a second sandbox (`excess`): a redelivery after a lost
  acknowledgement, an `Enqueue` that published and gave an error, and a launch that fails or panics
  after its sandbox was created, whose prompt is put back (1441-1449, 1458). `PromptsKept` excepts what is lost with the
  stream, with a crash after the acknowledgement, or when it cannot be put back (`gone`).
* `ModelFits` and `AgentCurrent` except the overlaps recorded in `raced`: a registration between a
  command's check and its write (`commands.go:229`); a command during the start of an agent or
  another command, or one that failed half way. `AgentCurrent` also excepts an agent that was started
  from a copy behind the row, one that finds an older `set_model` which an earlier agent left unread
  (the durable consumer of `nats_broker.go:109-127` hands it on), and one whose stream or active flag
  was taken away. `CacheConverges` has no exception.
* `MigratedOnce` excepts a crash or error between a migration and its registration (`torn`);
  `SchemaComplete` has no exception.
* `StreamsInOrder` excepts what was dropped while the stream's buffer was full (`missed`).
* `CrashExplained`: results that carry no flow number are applied to whatever screen is shown
  (`stray`), which can index a picker or use a group that is not there. `FeedPanicExplained`: two
  ticks can open two feeds (`twice`), and the failure of one clears the other. `ConversationHeard`
  is about streams that are attached: the late error of an old stream detaches the new one (858).

## 6. Where code and documents differ

Shown by a run:

* `cursors_rollback`: the rollback promised at 1314-1315 is skipped when the sandbox event handler
  marks the group inactive before `deactivate` looks (1291).
* `streams_legacy`: with fast start disabled nobody creates the agent's durable consumer
  (1020; `internal/sandbox/controller.go:401-402`; `helm/values.yaml:153-155`).
* `scheduler_created`: a task created through the API has no next run and is never due
  (`internal/server/api_services.go:479`; the repository's `README.md:117`).

Met while modelling, without a run of their own:

* `MAX_CONCURRENT` is documented as "Max concurrent sandbox Jobs" (`README.md:191`); the gate
  lets up to twice as many through, which the code logs after the fact (1086).
* "Message stays queued; retried on next poll." (893): `lastTimestamp` has moved past the message.
* "ensure ordered delivery" (`README.md:113`): a poll may pipe a newer batch before the spawn has
  sent the initial one, since the group is active first (1081, 1112).
* "exactly-once delivery semantics" (`README.md:114`): `consume` acknowledges after the push, so
  a failed acknowledgement delivers twice.
* `recoverPendingMessages` "checks each group for unprocessed messages on startup" (1880) by the
  agent cursor, which a crash may have left ahead of what was sent.
* `orchestrator_test.go:2695` expects the event of an old sandbox to leave the group active; the
  check (1213) and the clearing (1255-1263) are not under one lock.
* Two overlapping spawns of one group can delete each other's stream again and again (1064), and the
  failing one untracks the other's sandbox and marks its group inactive (1051-1078): that agents of
  overlapping spawns come up is not a property of this code.
* An `IPCShutdown` left behind by a gone agent is taken by the next agent's watcher for its own, which
  deletes the stream (1722-1729).
* A message acknowledged into a channel is lost with the process (`nats_broker.go:384-385`), which
  at-least-once delivery would exclude.
* The confirmed cursor may pass the agent cursor: a poll that pipes the newest batch without
  context (726-728) sets the agent cursor to the end of that batch (753), which may be older than
  where a spawn has put it. Messages are then sent twice, none is lost, so `ConfirmedHanded` says
  that what is confirmed was handed over rather than that it is behind the agent cursor. It holds
  with the first two messages as the triggers as well (12 million states, not among the runs).
* The server's own watch of sandbox events (`internal/server/server.go:268`) is not opened again
  when it ends; clients then see no more of them.
* When a dynamic provider answers with an empty list, `ListProviders` shows the static one
  (`internal/server/api_services.go:400`), while `validateModel` (349) then accepts no model.
* `stripInternalTags` (`internal/router/router.go:94`) searches for both tags from the beginning,
  so it does not come to an end when the first closing tag precedes the first opening
  one.

## 7. Next

A second fault in `lifecycle_faults` is what a larger instance would add to the liveness properties.
`ActiveAttended` with failing calls would need the exceptions of section 5 as history variables.

## 8. Not modelled

* Pure functions of one message or one value: formatting and routing, the sender allowlist,
  parsing of tokens, assembling of pod specifications, rewriting of HTTP requests, encryption.
  They hold no state, and the models use their results.
* Telegram and Discord: adapters to client libraries that `cmd/kraclaw` does not register.
* `RefreshTokens` and the writes of API keys in the credential store: no caller outside tests.
  `Peek`, `Len` and `NATSBroker.ReadInput` likewise.
* gRPC interceptors, configuration and metrics: they check or log one call, are read once, or are
  written and never read by the program. `task_run_logs` is written and never read.
* The server's own watch of sandbox events (`watchSandboxEvents`), which feeds the event hub.
* Rendering and text input of the terminal client; generated protobuf code.
* The branch of `runTask` for an invalid schedule value: every writer validates the value.
* The rounding of float64 in the token bucket.
