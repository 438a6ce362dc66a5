# Verification of codex_workspace_bot

TLA+ specifications of the parts of the bot that coordinate goroutines, database rows and the chat
platform, TLC configurations that check small instances of them, and TLAPS proofs for instances of
every size. `PROJECT.json` is the machine-readable index: the source lines every definition models, the
runs, the mutants that show each property can fail, the hazards and the findings.

    tlc -workers 2 -config Scheduler_ticks.cfg MCScheduler
    tlapm SchedulerProofs.tla

## 1. Inventory

The bot connects Feishu conversations with a Codex App Server. One process holds:

| Part | State | Operations | Talks to |
|---|---|---|---|
| Router (`internal/router`) | none of its own | Handle: persist, deduplicate, commands, Accept | message store, worker manager |
| Worker manager and channel workers (`internal/worker`) | registry, one FIFO, barrier and control list per conversation, active batch | Accept, SubmitControl, Cancel, Shutdown, Close; per worker: nextBatch, process, processControl, idle recycle | Codex runtime, Feishu output, message and run rows |
| Companion delivery (`worker`, `output/companion.go`) | DeliverySlot, TerminalArbiter, segment rows | split, send segments, cancel and wait | Feishu, message store |
| Scheduler (`internal/schedule/scheduler.go`, `store.go`) | `scheduled_tasks`, `scheduled_task_runs` | create and update tasks; Tick: list, claim, skip, refuse, dispatch | worker manager, script goroutines |
| Run execution and outbox (`run_state.go`, `dispatch.go`, `delivery*.go`, `reconcile.go`) | run rows, `scheduled_task_deliveries`, script slots | mark, complete, deliver, fallback, reconcile | Feishu, shell |
| Schedule tool calls (`tool_calls.go`, `scheduleaction`) | tool-call ledger | replay, create, list, update in one transaction | scheduler store |
| Feishu actions (`feishuaction`, `storage/feishu_actions.go`) | action ledger | replay, claim, start, request, complete | Feishu |
| Codex runtime (`internal/codexapp`) | App Server process, attempts, goals, pending stops | start, replace, turn, interrupt, goal pause, server requests | App Server |
| Catalog upgrade (`storage/catalog.go`) | upgrade columns of `chat_groups` | prepare, advance, complete | App Server |
| Attachments (`internal/attachment`) | attachment rows, files | materialize, clean up | Feishu, disk |
| FleetQ (`internal/fleetq*`, optional) | JetStream consumers, result rows | receive, execute, publish, deliver | other nodes |
| Adapters (Feishu, observability, configuration, proxies) | connections, files | I/O | outside |

Hard behaviours, and what correctness means there (`hazards` in `PROJECT.json` has each at its line):

* **Two locks.** Ingress looks a worker up under the manager's lock and uses it under the worker's. Turns
  of a conversation must not overlap, messages must not overtake each other, and nothing may be both
  discarded and run.
* **Cutting through.** `/cancel` and `/new` detach the queue, cancel a turn that may end late, and run an
  effect that no turn may cross, against timeouts, the idle timer and shutdown.
* **Stale observations.** A tick works on a list read earlier, while tools edit tasks and operators revoke
  routes. A slot must be recorded once, dealt with eventually, and never leave a run without an owner.
* **Death between two statements.** Rows must be reconciled to the truth, and no turn, script or message
  may be repeated.
* **Lost answers.** A send that timed out may be visible. The outbox, the segments of a companion answer, the
  tool calls and the replies to commands must not send again.
* **A peer that owes nothing.** App Server may die, ignore an interrupt, answer after the caller gave up, or continue
  a goal nobody waits for. Callers must return, successes must be real, and nothing may run on unasked.
* **Two stores that must agree.** A thread pointer and the threads of App Server, attachment rows and files, a
  ledger row and the task it created: they change in separate steps with a crash in between.

## 2. Modules

| Module | Models | Checked by | Proved in |
|---|---|---|---|
| `RunLedger` | abstract: the life of a run row | as a property of the next two | refined in the proofs of both |
| `Scheduler` | tasks, ticks, claims, dispatch, restart | `MCScheduler` | `SchedulerProofs` |
| `RunOutbox` | execution of claimed runs, delivery of results, restart | `MCRunOutbox` | `RunOutboxProofs` |
| `ChannelWorker` | workers of one conversation, work mode | `MCChannelWorker` | `ChannelWorkerProofs` |
| `ThreadCatalog` | the thread of a conversation, catalog upgrade, `/new` | `MCThreadCatalog` | `ThreadCatalogProofs` |
| `CodexRuntime` | App Server process, attempts, goals, tool requests | `MCCodexRuntime` | `CodexRuntimeProofs` |
| `CallLedger` | abstract: an effect happens once per call, a success that is told happened | as a property of `ToolCalls` | refined in `ToolCallsProofs` |
| `ToolCalls` | Feishu actions and schedule tools | `MCToolCalls` | `ToolCallsProofs` |
| `CompanionText` | splitting a final answer into segments | through the next | assumed of it in the next: `SplittingAssumption` |
| `CompanionDelivery` | one batch in companion mode | `MCCompanionDelivery` | `CompanionDeliveryProofs` |
| `Attachments` | attachment rows, files, cleaner | through the next | with `Ingress` |
| `Ingress` | router, commands and their answers; extends `Attachments` | `MCIngress` | `IngressProofs` |

**RunLedger** is what readers of `scheduled_task_runs` rely on: claimed, queued, running, terminal, in
this order, early ends allowed, terminal rows immutable, `unknown` only through reconciliation. `Scheduler`
and `RunOutbox` both implement it (`LedgerSpec`), so the two views of a run agree on its row.

**Scheduler.** One transaction of the store is one action, because each locks the task row and re-checks the
observation (`Current`). `sched` is the scheduler goroutine: where it is in `Tick` and `Dispatch`, the one
`now` of the tick, the observations left, the run in its hands, the prompts counted. `live` are the runs
that a worker or a script goroutine owns, `lost` those whose owner returned on a database error. An error that
`Run` returns becomes `stopped`, `ServerStops` is the `stop()` of `main`, `Restart` the start-up with its
reconciliation. The unique index on `(task_id, scheduled_for)` is not in the model: `SlotsUnique` shows that
the code does not need it. `next = 0` is `next_run_at IS NULL`, and `NextSlot(c, t) = 0` the zero time of a
cron expression that never matches.

**RunOutbox.** `pc[r]` is the goroutine of run `r`: the scheduler's dispatch, the channel worker or the
script goroutine, and then `Deliver`, which runs in whichever of them finished the run. One statement or
one send is one action. The restart is two statements and can be cut in between. `Send` chooses what the
platform says and, when it says nothing, whether the message became visible; a card that was accepted without an
identifier is visible and called rejected (`doubt`). `DropQueued` is the timeout of an ordinary batch with the prompt
behind it (section 4). The histories `started`, `shown`, `abandoned` and `doubt` are what the properties speak of.

**ChannelWorker.** `w[i]` is one instance of `channelWorker` with its goroutine; instances replace each other
after timeouts and idle recycling, and `registered` is the manager's entry. A critical section or a database
call is one action: `submitControl` / `interrupt` / `persist` are the three parts of `submitControl`,
`CreateCard` to `clearActive` the parts of `process` and `processScheduled` in their order. The context of
the batch is `ctx`, the arbiter is `cancelled`, `active` is an open `activeDone`, `cancelFn` a non-nil
`activeCancel`. `row[m]` is the message row, or the run row of a scheduled prompt. The presentation pump and
the cards show as possible failures of `CreateCard` and `Settle` only.

**ThreadCatalog.** `group` is the row of `chat_groups` with its thread pointer and upgrade columns, `thread` what App
Server keeps of each thread: whether it lives, the catalog it was started with, and whether its goal is set. `w`
is the worker in `Process` or `processGoal`, `new` a `NewSession` run by a control; the two can overlap, as
`ChannelWorker` shows. Each statement and each App Server call is one action, and any may fail, lose its
answer or be the last thing the process did. `Deploy` is a release with a newer catalog, so that an upgrade may
be met in every state by code that aims at another version.

**CodexRuntime.** `gen` is the current generation of the App Server process and its recovery, `at[a]` an attempt with
the goroutine that called it, `call[c]` one `handleServerRequest`, `stopper` a `BeginStop` of a goal (by a control, or
by the caller on its way out), `early` a goal status that came before anybody was registered. App Server itself
(`turn`, `goal`, `interrupted`) is external: it emits the events of a turn in order, may continue a goal in a new
turn, may ignore an interrupt and may exit. The reader dispatches in order, so emission and dispatch are one
action; an attempt that is not bound keeps events (`pending`, at most `MaxPending`) and replays them. Pauses, interrupts
and the grace of five seconds are separate steps that race with terminal events. Goals of a conversation share its thread,
one attempt after the other; the notification that ends a goal does not name it, so that an attempt may take the end of
an older goal for that of its own. The history `misled` says which attempt did.

**CallLedger, ToolCalls.** A delivery is one run of the tool handler. The same call may be delivered again, later or
at the same time, with the same or with other arguments. A Feishu action crosses its ledger row in three
statements around the external request (and a document is two requests); a schedule tool does everything in one
transaction on two tables. `Statement` is one database call: made, made with the answer lost, or not made.
`LedgerSpec` maps what happened and what was told to `CallLedger`.

**CompanionText, CompanionDelivery.** A text is a sequence of tokens (a rune, a rune that ends a sentence, a blank
line, a marker, the fence of a code block); `SplitCompanion` cuts it as `output/companion.go` does: at markers, else at
paragraphs or sentences, with a hard limit and the merge of short segments. `CompanionDelivery` is `processCompanion` with the `TerminalArbiter` (`reason`) and the
`DeliverySlot` (`slot`), which it shares with a control and with `Shutdown`. A send is two steps: the platform shows the
segment or not, and the answer is taken or replaced by the end of the context. `visible` is what the user can see.
`DoneOpen` says whether the batch's `activeDone` is open, which `Manager.Cancel` waits for: a batch without output never
closes it.

**Attachments, Ingress.** `Ingress` is `router.Handle` from the event to the row: a repeated event stops at the unique
key, ordinary messages go to the worker, commands run their effect and are answered by a card, then by text if the
card is refused. The channel worker is reduced to one batch at a time and a control that cuts it; a control may be refused
(a closed or full manager, a stopping worker) or lost when the idle timer stops the worker first, and is `dropped` then. The rows of the
attachments are staged in the transaction that inserts the message; the turn prepares them (`prep`), the cleaner
removes expired ones, and start-up gives up what an earlier process left. `disk` is the file system.

The components meet in shared states that two modules describe from both sides: a run row (`Scheduler`, `RunOutbox`,
tied by `RunLedger`), the control (`ChannelWorker` decides when it runs, `ThreadCatalog` and `CompanionDelivery` what it
cuts), a task row (`Scheduler` schedules it, `ToolCalls` edits it), and a message row (`Ingress` writes it,
`ChannelWorker` and `CompanionDelivery` finish it).

## 3. Runs

| Run | Checks | Instance |
|---|---|---|
| `Scheduler_ticks` | `SlotsUnique`, `NoOrphanRun`, `LedgerSpec`, `RunsSettle`, `DueSlotsHandled` | 2 prompts with a budget of 1, 1 script, quota 2, 3 runs, clock 1 to 3, slots at even instants, no grace, 2 versions, 1 route change, 1 fault |
| `RunOutbox_rows` | `OneVisibleResult`, `OutboxIsTruthful`, `NeverReplayed`, `LedgerSpec`, `RunsSettle` | 1 prompt, 1 script run, 2 crashes, 1 failed call, 1 route change |
| `ChannelWorker_batches` | `OneTurnAtATime`, `BatchesKeepOrder` | 3 messages of 2 senders (1 prompt), 2 instances, queue of 2, 1 timeout, 1 recycle, 1 fault |
| `ChannelWorker_controls` | `ControlsCutCleanly`, `NoLostWakeup`, `MessagesSettle`, `ControlsTakeEffect` | 1 message, 1 goal, 1 control, queue of 1, 2 disturbances out of timeout, recycle and fault |
| `ChannelWorker_shutdown` | `OnePlace`, `ShutdownEnds` | 2 messages, 1 shutdown, 1 timeout |
| `ThreadCatalog_upgrade` | `NoObsoleteTurn`, `NoThreadLeak`, `UndisturbedTurnsStart` | 5 threads, 4 turns (some goals), 2 `/new`, 2 faults, 1 release |
| `CodexRuntime_turns` | `ResultsAreOwn`, `NothingRunsOn`, `CallersReturn`, `HandlersEnd` | 2 turns of one thread, 1 tool call, 1 item per turn, 1 kept event, 1 disturbance |
| `CodexRuntime_goals` | `SuccessIsReal`, `NoOrphanGoal`, `CallersReturn` | 2 goals of one thread, 1 continuation each, 3 disturbances, once the second goal has come 1 |
| `ToolCalls_mixed` | `TablesAreTrue`, `UpdatesSerialize`, `LedgerSpec`, `DeliveriesEnd` | 3 deliveries of 3 calls with two requests each (document/send, update/list, update/create), quota 2, 1 disturbance |
| `CompanionDelivery_segments` | `AnswerShownOnce`, `RowTellsTheTruth`, `StopsAreQuiet`, `BatchEnds` | 271 texts: all of up to 3 tokens and some of up to 6; 3 runes per segment, under 2 is short, at most 2 segments without a marker; 2 interferences, 1 failure |
| `Ingress_events` | `OncePerEvent`, `RowsCanBeTrusted`, `FilesAreThere`, `IngressSettles` | 2 events (any kind, then a `/cancel`, or two with a file each), 3 deliveries, 1 fault, 1 crash |
| `ChannelWorker_idle_overlap` | `NoTurnDuringControl`, expected to fail (section 4) | 2 messages, 1 control, 1 recycle |

What they say, by component:

* Scheduler: a slot is recorded once, under any order of edits; an active run has an owner who will finish it, or is in the
  hands of the scheduler; due slots are dealt with and runs end, across a stop and a restart.
* Run outbox: one visible result per run although answers get lost, and a row that says sent, rejected or unknown is right,
  both except for a card that was accepted without an identifier; no turn or script is repeated; nothing stays active or
  in flight.
* Channel worker: turns of a conversation never overlap, keep the order of arrival and merge only what may share a turn; a
  control cuts cleanly (`OnePlace`, `BarrierHolds`, `ControlRunsAlone`); no wake-up is lost; everything accepted is
  answered, and shutdown ends.
* Threads: no ordinary turn runs on an obsolete thread, no thread is left behind, and a turn nobody disturbs
  starts whatever an earlier interruption left in the row.
* Runtime: a reported success is real and its items are the turn's own (`SuccessIsReal`, `OwnItems`); when a caller has
  returned, its turn was stopped and its tool handlers are cancelled (`NoStrayTurn`, `ToolsStopWithTheirTurn`), and no
  goal goes on (`NoOrphanGoal`), with an exception for a goal attempt that was told the end of another goal and one for a
  goal that was set although the answer was lost; callers and handlers come back whatever App Server does.
* Tool calls: effects happen once per call, answers are theirs, the two ledgers and the tasks agree (`RowsAreTrue`,
  `TasksMatchLedger`), a version is replaced once, every delivery ends.
* Companion: the answer is shown once, in order and whole (`SegmentsOnceInOrder`, `WholeAnswerShown`); start-up knows of what
  was visible and an ended batch is settled (`VisibleIsMarked`, `EndedMeansSettled`); a stop is quiet, and returns with the
  end of the batch unless that had no output.
* Ingress: one effect and one answer per event; rows say what happened and open ones are in somebody's hands, or belong
  to a control that was dropped (`CommandRowsTrue`, `OpenIsOwned`); files are there when a turn or a row counts on them (`FilesMatchRows`,
  `TurnHasFiles`); everything that began ends.

Each module also has a type invariant (`TypeOK`); section 5 says which are proved.

Bounds. A slot collision needs two runs of one task and an edit between them. Slots lie at even instants and the clock
runs to 3 without grace, so that slot 2 is due at instant 2 and misfired at 3: the skip, and its conflict with an edit, which
stops the scheduler, both happen. That a task has a second slot after a skipped one is left to the theorem
`OneRunPerSlot`. Budget and quota are reached with two competitors for one place; two crashes reach a crash
during the reconciliation of the first; two instances of a worker suffice for an old and a new one. Where
disturbances share one bound, all their pairs occur (or, with a bound of one, each of them at every step). Two faults
and a release reach an upgrade that is interrupted twice and then met by a newer catalog; five threads are what four
turns and two `/new` can use up. One kept event and two events make the overflow of `pending`. Three deliveries
give a call that is repeated while a rival for the same task runs. The texts of the companion run reach the hard cut, markers,
paragraphs, sentences, fences, the joining of short segments (40 texts), the limit of segments (22 texts are left whole for
it), 43 answers of two segments and one of three. Two goals of one thread, with three disturbances before the second
comes, leave every kind of stale state behind for it: a kept terminal status, a pause on its way, an active goal. The two
attempts of either runtime run share a thread, so they do not run at the same time; for attempts on other threads of
the generation the safety properties hold by the theorems. When all identities of runs,
threads or instances are used, the actions that need one are disabled: the instance ends there. Deadlock is checked in
the Scheduler run, where the restart and the tick always go on; in the others a system that has answered
everything rests, and `CHECK_DEADLOCK FALSE` says so. Instances of a worker and threads are interchangeable, so they
are symmetric in the runs without liveness.

Fairness. Goroutines of a live process run, a process that stopped is started again by its supervisor (`unless-stopped`
of the compose file, `KeepAlive` of launchd; the transient `systemd-run` unit has no `Restart=`, and there the operator is
the supervisor), turns and scripts end because both have a timeout, controls and `Shutdown` have a
deadline, sends and database calls have one too. Weak fairness is per goroutine: the scheduler, each executor, each
worker, each command, each caller, stopper, handler and the recovery of `CodexRuntime`, each tool delivery, the
companion's worker and its canceller, each event's handler, `Prepare` and the cleaner. Nothing is assumed of users,
operators, the clock, crashes or the platform's answers, and nothing of App Server: callers return because the context of a
batch ends, not because events arrive. In `Ingress` a control that
was submitted runs or is lost with its worker; nothing says that it runs. `RunsSettle` and `MessagesSettle` make exceptions for what a failed
database call left behind (`lost`, `abandoned`): the code does not retry such a call, and only a restart
settles the run rows.

## 4. Where documents and code differ

`ChannelWorker_idle_overlap` is a run that TLC must find violated, with a finding in `PROJECT.json`: the idle timer
does not see a control that is running, unregisters its worker, and a turn may run beside a `/new`. `ControlRunsAlone` and
`ControlsTakeEffect` state what does hold of controls: a control of a registered worker is alone, and a control takes
effect unless its worker was stopped.

Further statements of the documents are kept as definitions of the modules. They are false of the code; added to the
run in parentheses (as `INVARIANT`, the first one as `PROPERTY`) they show the behaviour:

* `RejectionKeepsScheduling` (`Scheduler_ticks`): a prompt refused by a full queue ends `Scheduler.Run` and the server;
  S06 line 67 says the next period is not affected.
* `NoQueuedRunLeft` (`ChannelWorker_batches`): the timeout of an ordinary batch leaves a scheduled prompt behind it
  `queued` (S06 line 183).
* `TurnsHaveFullCatalog` (`ThreadCatalog_upgrade`): after `/new` a goal starts a thread without the schedule tools in a row
  that counts as upgraded, and the next ordinary message resumes it (S06 line 220, S06-AT-00).
* `UpgradeRecovers` (`ThreadCatalog_upgrade`): an upgrade interrupted between archive and start, and met by a newer release,
  fails in every ordinary turn (`storage/catalog.go:12` says it resumes safely).
* `GoalEndsByItsOwnStatus` (`CodexRuntime_goals`): a terminal status kept for a thread nobody was registered for ends the
  next goal of that thread (`runtime.go:281`); so does one that a late pause of the older goal causes, and the one that
  `BeginStop` reads when it is asked to stop the new goal before that was set. The new attempt reports that result, or takes
  its own goal for ended and leaves it active. This is the exception `misled` of `SuccessIsReal` and `NoOrphanGoal`.
* `DocumentNotDenied` (`ToolCalls_mixed`): a document that was created and whose content or message failed is recorded as
  rejected (S05 line 181; `feishu.go:464`).
* `ControlCutsDelivery` (`CompanionDelivery_segments`): a `/cancel` or `/new` during the delivery cancels the context of the
  turn, which the delivery no longer uses, and the remaining segments go out (S04 line 249, S04-AT-17).
  `StopsAreQuiet` is what holds of `Manager.Cancel`.

The models contain the following too; they have no definition of their own:

* a conflict in `SkipMisfire` ends the scheduler, while those of the two other claims are ignored
  (`scheduler.go:147`; S06 line 209 has it re-read);
* updating a task to an expression that never matches leaves it enabled without a next slot (`store.go:299`;
  S06-AT-01 wants no write);
* enabling a task again is not counted against the quota (`store.go:281`; S06 line 75);
* the idle timer may also stop a worker between the submission of a control and its wake-up; the control never
  runs (`manager.go:1451`), and its row stays received and unanswered (`LoseControl` of `Ingress`);
* a control that is refused (`manager.go:393`, `399`, `555`) leaves its row received and unanswered, and a repeated
  delivery of the event stops at that row (`router.go:236`);
* a `/new` whose call fails may have archived the thread or cleared the pointer all the same (`processor.go:162`), while
  row and answer say that the session was kept;
* a batch whose card could not be created (`manager.go:990`) and a companion batch without output (`manager.go:1359`)
  never close `activeDone`, so that `Cancel` waits for it until its context ends, also after the batch has ended;
* a final card update whose own error is `DeadlineExceeded` passes for a timeout of the turn (`manager.go:973`, `1000`): no row
  is written, the worker stops and its queue is given up;
* a companion batch that times out may send two notices (`manager.go:1237`; S04-AT-13 has one);
* the ledger never records `cancelled_before_send` when the context is cancelled, because the same context is used
  for the statement (`feishuaction/service.go:70`; S05 line 166);
* `.part` files, and a payload whose row was not completed before a crash, stay on disk after a restart (S05 lines 77, 194);
* a card that was accepted without a message identifier counts as refused, so the text repeats it (`feishu.go:271`, against
  its comment at 248). This concerns the answer to a command and the result of a scheduled run
  (`delivery_dispatcher.go:88`), whose row says `rejected` of a card that is visible;
* the row of a `/goal` keeps `command_effect_state` pending, and a `goal/set` whose answer was lost leaves the
  goal active on a thread that is not recorded (`processor.go:386`): the second exception of `NoOrphanGoal`.

## 5. Proofs

The eight proof modules quantify over arbitrary sets (tasks, runs, cron expressions, messages, worker instances, threads,
requests, events, files, attempts, tool calls, texts) and arbitrary bounds. Every safety property of every passing run is a
theorem. The assumptions are those of the modules: kinds are disjoint, bounds are naturals, and

* `CronAssumption` (`Scheduler`): `Next` is later than its argument or always zero;
* `SetsAssumption` (`ChannelWorker`): messages are not controls - both are keys of `found`, and in the code they are values
  of different types;
* `IngressAssumption` (`Ingress`): an attachment belongs to one event - `attachments.id` is the primary key and a row has
  one `message_id` (`migrations/003_s05_attachments_actions.sql:14`);
* `SplittingAssumption` (`CompanionDelivery`): the segments of a text, read one after the other, are the text. It is about
  `CompanionText`, where a proof would be an induction over the text; TLC evaluates it for every text of the run (and it was
  evaluated for all texts of up to six tokens with limits of two and three runes);
* `RuntimeAssumption` (`CodexRuntime`): every attempt has a thread, and there is at least one slot for tool handlers.

Each module has one inductive invariant `IInv` (`Invariant` in `RunOutboxProofs`), a conjunction of named parts; TLC
checked the parts on small instances before they were proved. The preservation proof has one lemma per
action, and frame lemmas for what an action leaves alone.

`SchedulerProofs`:

* `TypeCorrect`. Typing is inductive together with `TickInv`: a tick's instant has passed and what it holds is
  due then. Without it the arguments of `NextSlot` could lie outside the clock's range.
* `RunsAreOwned` (`NoOrphanRun`). `OwnerInv` adds which row state goes with which position of the scheduler,
  so that the conditional updates of dispatch succeed exactly when the run in hand is active.
* `OneRunPerSlot` (`SlotsUnique`). Uniqueness alone is not inductive: a claim must know that its slot is new.
  `SlotsBehind` says that every recorded slot of a task lies before its next slot, or, while there is none, not
  after the clock. Edits keep it because `Next` is later than now, claims because it is later than the slot.
* `ImplementsLedger`. Each action changes at most one row along an edge of RunLedger, except the reconciliation.

`RunOutboxProofs`:

* `Invariant`: where the goroutine of a run is determines its run row (`ExecInv`), its starts (`StartInv`), its
  outbox rows (`OutboxInv`) and what the chat shows (`ShownInv`); a process that is not up has no goroutine
  (`BootInv`). The invariant is per run, and lemmas show that a step of one run leaves those of the others alone.
* `TypeCorrect`, `OneVisible`, `Truthful`, `OnlyFinished` (only a finished run has outbox rows), `StartedOnce` follow from it.
  The visible message is unique because a fallback exists only behind a rejected card, and a rejected card was not shown
  unless its run is in `doubt`; `ShownInv` says so for every place of the goroutine.
* `ImplementsLedger` as above.

`ChannelWorkerProofs`:

* `TurnsAlone` (`OneTurnAtATime`). The heart is `LifeAt`: an instance outside the registry is unborn or stopped, and a
  stopped one has neither a queue nor a batch. Timeout and idle timer stop a worker before they unregister it, so that at
  most one instance can take a batch. `FoundInv` covers the gap between the two locks: a lookup may hold a worker that
  is stopped meanwhile, but never one that does not exist.
* `Ordered` (`BatchesKeepOrder`). The queue is sorted by arrival (`OrderInv`) and holds nothing that was taken (`QueueInv`);
  together with the previous point a batch, which is a prefix, cannot overtake.
* `WakeupsKept` (`NoLostWakeup`). `WakeAt` also speaks of the goroutine that has looked for controls and not yet for
  messages: a control that is finished in between must leave its token.
* `PlacedOnce` (`OnePlace`), `CleanCuts` (`ControlsCutCleanly`). `CutInv` says what a control holds until its rows are written:
  accepted messages that nobody took, disjoint from all queues and from the cuts of the others. `BarrierAt` keeps
  ingress out and `ControlAt` ties a control to the worker it was submitted to.

`ThreadCatalogProofs`:

* `ObsoleteTurns` (`NoObsoleteTurn`). `CatalogInv`: a stable row names a thread of its version or one that a goal started.
  `RowInv` is what makes it inductive: the row of an upgrade moves only with the worker that works on it, so that the
  version that is published is the one the thread was started with.
* `ThreadLeak` (`NoThreadLeak`). `LeakInv`: without a fault every live thread has an owner, which is the row, the worker or the `/new`, and
  an upgrade in the row has its worker. `ClearInv` and `KnownInv` keep two goroutines from confusing their threads.
* `UndisturbedTurns` (`UndisturbedTurnsStart`). `DisturbInv`: an undisturbed turn still sees the thread it read, and only a `start_pending` row of
  an older release makes it fail.

`ToolCallsProofs`:

* `Tables` (`TablesAreTrue`). The row of a Feishu action has one owner (`OneOwner`, `OwnerInv`), the delivery that claimed it; the
  owner knows whether the effect happened until it records that (`OutcomeInv`), and rows before `in_flight` have no
  effect (`ActionInv`). For schedule tools the transaction does both at once (`ToolCallInv`).
* `Serialized` (`UpdatesSerialize`). `UpdateInv`: a version that an update replaced is older than the task's, and replaced once.
* `LedgerImplemented`: `ToolCalls` refines `CallLedger` under the mapping of `LedgerSpec`. An action that adds an effect is
  the abstract effect, which `OneEffect` and `ActionInv` show to be the first of its call; an answer is the abstract
  answer, whose effect `ToldInv` and `EffectInv` supply; all other actions leave the mapped state alone.

`IngressProofs` (`Ingress` and `Attachments` together):

* `DeliveredOnce` (`OncePerEvent`). Per event, the place of its handler determines how often it had an effect (`EffectInv`) and how many
  answers are visible (`ReplyInv`); an event without a row has not begun (`PlaceInv`), which is where a repeated delivery
  stops.
* `TrustedRows` (`RowsCanBeTrusted`). `RowInv`: the row of a command says nothing before its answer is recorded and the truth
  afterwards, and the row of a dropped control is as it was inserted; `OwnedInv` adds that, while nothing failed, the row of a running batch is `processing`, which `CompleteBatch`
  requires.
* `FilesPresent` (`FilesAreThere`). Preparation works on rows that are `processing`, the cleaner on rows that are settled, and each keeps its
  hands off the other's (`PrepInv`, `CleanInv`). Files a batch is done with are `Kept`: they have a path and, before their
  deadline, are ready, which carries over to the turn (`TurnInv`). `FreshInv` says that rows are staged once, with their
  message, and `LifeInv` that a process that is not up works on nothing, so that the reconciliation disturbs nobody.

`CompanionDeliveryProofs`:

* `ShownOnce` (`AnswerShownOnce`). `VisibleInv`: what is visible is in order and lies below the segment under way, so that neither the
  retry after a rate limit nor an answer that was lost can show a segment again. Wholeness needs more: `PrefixInv` says that,
  as long as none was refused, the visible segments are exactly the first ones, and `WholeInv` carries that to the
  row. `SplittingAssumption` then turns all segments into the text.
* `TruthfulRow` (`RowTellsTheTruth`). `RowInv` and `WorkInv`: the marker is in the row from before the first send until the end is recorded.
  `EndInv` follows a batch on its way out under the conditions of `EndedMeansSettled`.
* `QuietStops` (`StopsAreQuiet`), an action property. `SlotInv` is its reason: a slot that was cancelled has no live context,
  before or after it was published, and `Manager.Cancel` returns only when the worker is past its last send.
* `TypeCorrect`; `ReasonInv` is what keeps the worker's claims apart from a canceller's.

`CodexRuntimeProofs`:

* `NothingLeftRunning` (`NothingRunsOn`). `PlainInv` says for each place of the caller whether it knows its turn and that, from the moment it
  is finished, waits out its grace or leaves, the turn is over or was interrupted (`Told`). `GenInv` is needed for the exits
  and for `TurnStartFails`: turns run on the current generation only, so that closing an attempt's generation ends
  its turn, and a first turn starts only while the caller is in `turn/start` on an open client. `ToolInv`: a finished
  attempt, and one whose caller has gone, has a cancelled context, and a tool call belongs to an attempt that was registered.
* `PlainSuccessIsReal`, `ItemsShownOnce`. A success may come from a kept event that is replayed much later, so `EndsInv` says that
  a kept end is the end the turn had, which is stable because turns that ended stay so. `ItemsInv`: an item of the turn is among
  the kept ones, the ones to replay, or the shown ones, once and in one place, with numbers up to what App Server sent;
  without the order between replayed and shown items the routing reader could repeat one.
* `RealSuccess`, `OwnResults` (`SuccessIsReal`, `ResultsAreOwn`), with any number of turns and goals on a thread. `SerInv`: the attempts of a
  thread come one after the other, so that an older goal cannot be set beside a newer one. `GoalOf`: an attempt that heard of a terminal
  status and was not misled heard the one its thread's goal has, which this attempt set (`Own`), and a verdict of success comes from
  `complete` only. Every step either tells the attempt nothing new (`Follows`), misleads it for good, or brings the status that the
  goal has from then on (`GoalMoves`); a goal that has ended is replaced only when its attempt has returned.
* `NoGoalLeftBehind` (`NoOrphanGoal`). `StopOf`: from the moment the caller begins its stop it can only return when the
  stop is over, and a stop is over when the goal has ended, the attempt was misled, or the client it was started on is closed; all are
  stable. `EarlyOf`: an attempt that leaves without a stop has not started a turn, which is what remains of a `goal/set` whose answer was lost.
* The proofs go through what the transitions do to the fields of an attempt (`Ended`, `Terminated`, `Stopped`, ...), the shape of each
  action (`...Shape`), and two lemmas on all of `Next`: what happens to generations and turns (`WorldStep`), and which actor can
  change a given attempt (`WhoMoves`).

Only model-checked: liveness (TLAPS does not prove liveness under fairness, nor `ENABLED`), that is `RunsSettle`, `DueSlotsHandled`,
`MessagesSettle`, `ControlsTakeEffect`, `ShutdownEnds`, `CallersReturn`, `HandlersEnd`, `DeliveriesEnd`, `BatchEnds` and
`IngressSettles`; and the splitting of a text (`SplittingAssumption`).

## 6. Not modelled

* FleetQ: an optional protocol between nodes over NATS JetStream, off by default. Redelivery, leases and the
  duplicate window are the broker's; it meets the rest of the program in one tool only. It is the next candidate for a
  module.
* Observability, configuration, secrets, logging and the proxies: I/O at the edge without protocol state. Of the Feishu
  adapter only the answers of its sends and document calls are in the models; normalisation of events, the websocket
  and cards are not.
* Branches that the server never builds: `Handle` with a dispatcher that has no `SubmitControl` (`router.go:242-266`) and
  `ensureToolCatalog` with a store that has no upgrade columns.
* In `CodexRuntime`, timeline and token usage, and an item that is refused while the reader replays a goal's kept
  events. In `ChannelWorker`, the coalescing of card updates.
* Payloads, wording, sizes, digests, leases (`lease_until` is written and, at start-up, never consulted) and trace
  identities are abstracted away. The clock is monotonic.
* Known and accepted by the code, and therefore not properties: messages in memory are lost in a crash; a finished run
  whose delivery was not created, and a pending delivery, are never resumed.

## 7. Plan

Done: the modules above, most important behaviour first, and the proofs of the safety properties of all detailed ones.

1. `FleetQ`: requests, results and notices against redelivery; then a module that composes the dispatch of `Scheduler`
   with a worker queue.
2. A run of `CodexRuntime` with attempts on two threads, for the liveness of the callers that share a generation.
