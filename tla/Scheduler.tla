------------------------------ MODULE Scheduler ------------------------------
(***************************************************************************)
(* The scheduler of internal/schedule: task definitions, the periodic scan *)
(* that turns due slots into run rows, and the hand-over of a claimed run  *)
(* to its executor.                                                        *)
(*                                                                         *)
(* Several actors share the tables: the scheduler goroutine, the dynamic   *)
(* tools that create and update tasks, the operator who enables and        *)
(* disables a route, the executors that finish runs, and the process       *)
(* itself, which may stop at any step and is restarted.  A scan works on   *)
(* observations (DueTask) that may be stale when they are used; every      *)
(* transaction of the store re-checks them under the row lock, so one      *)
(* transaction is one action.                                              *)
(*                                                                         *)
(* The unique index (task_id, scheduled_for) is left out on purpose:       *)
(* SlotsUnique states that the store never relies on it.                   *)
(***************************************************************************)
EXTENDS Naturals, FiniteSets

CONSTANTS
    PromptTasks,        \* tasks of kind 'prompt'
    ScriptTasks,        \* tasks of kind 'script'
    NoTask,             \* task of a row that does not exist
    Crons,              \* five-field expressions that ParseCron accepts
    NextSlot(_, _),     \* Cron.Next: first occurrence after an instant, 0 if none
    RunIds,             \* pool of run identities
    Grace,              \* MisfireGrace
    ScanLimit,          \* tasks listed per Tick
    MaxPromptDispatch,  \* prompts dispatched per Tick
    MaxScripts,         \* capacity of ScriptSlots
    MaxEnabledTasks,    \* MaxEnabledTasksPerOwner (one owner, one App)
    Outcomes            \* the ends an executor may record

\* Bounds that only keep the instance finite.
CONSTANTS
    MaxTime,            \* last instant of the clock
    MaxVersion,         \* last version of a task
    MaxToggles,         \* route changes
    MaxFaults           \* crashes and failed database calls together

Tasks == PromptTasks \cup ScriptTasks

ASSUME TasksAssumption ==
    /\ PromptTasks \cap ScriptTasks = {}
    /\ NoTask \notin Tasks
    /\ Crons # {}

ASSUME OutcomesAssumption == Outcomes \subseteq {"succeeded", "failed", "cancelled"}

ASSUME BoundsAssumption ==
    /\ Grace \in Nat /\ ScanLimit \in Nat /\ MaxPromptDispatch \in Nat /\ MaxScripts \in Nat
    /\ MaxEnabledTasks \in Nat /\ MaxTime \in Nat \ {0} /\ MaxVersion \in Nat
    /\ MaxToggles \in Nat /\ MaxFaults \in Nat

Instants == 0 .. MaxTime

\* robfig/cron: Next is strictly later than its argument; an expression that
\* can never match (30 February) parses, and its Next is the zero time.
ASSUME CronAssumption ==
    \A c \in Crons :
        \/ \A t \in Instants : NextSlot(c, t) = 0
        \/ \A t \in Instants : NextSlot(c, t) \in Nat /\ NextSlot(c, t) > t

VARIABLES
    clock,      \* wall clock
    task,       \* table scheduled_tasks
    routeOn,    \* apps.enabled AND chat_groups.schedule_enabled of the task
    row,        \* table scheduled_task_runs
    sched,      \* the scheduler goroutine; pc "down" = no process
    live,       \* runs owned by an executor of this process
    lost,       \* runs whose owner gave up on a failed database call
    toggles, faults

vars == <<clock, task, routeOn, row, sched, live, lost, toggles, faults>>
-----------------------------------------------------------------------------
Active   == {"claimed", "queued", "running"}
Terminal == {"succeeded", "failed", "cancelled", "unknown", "skipped"}
Codes    == {"", "failed_enqueue", "failed_capacity", "failed_route_revoked",
             "skipped_misfire", "unknown_interrupted", "by_executor"}

\* next = 0 stands for next_run_at IS NULL; version 0 for "no such task".
TaskRows == [enabled : BOOLEAN, version : Nat, next : Nat, cron : Crons]
RunRows  == [state : {"none"} \cup Active \cup Terminal, task : Tasks \cup {NoTask},
             slot : Nat, code : Codes]
NoRow    == [state |-> "none", task |-> NoTask, slot |-> 0, code |-> ""]
DueTasks == [task : Tasks, version : Nat, slot : Nat, revoked : BOOLEAN]
PCs      == {"idle", "scan", "route", "queue", "accept", "script", "stopped", "down"}

NoTaskRow == [enabled |-> FALSE, version |-> 0, next |-> 0,
              cron |-> CHOOSE c \in Crons : TRUE]

\* held is the run being dispatched, if any; due, now and prompts belong to
\* the Tick in progress.
At(pc, now, due, held, prompts) ==
    [pc |-> pc, now |-> now, due |-> due, held |-> held, prompts |-> prompts]
Idle    == At("idle", 0, {}, {}, 0)
Stopped == At("stopped", 0, {}, {}, 0)
Down    == At("down", 0, {}, {}, 0)

Exists(t)  == task[t].version > 0
FreeRuns   == {r \in RunIds : row[r].state = "none"}
Enabled    == {t \in Tasks : Exists(t) /\ task[t].enabled}
\* uuid.NewString: which unused identity does not matter.
NewID      == CHOOSE r \in FreeRuns : TRUE
LiveScripts == {r \in live : row[r].task \in ScriptTasks}

Init ==
    /\ clock = 1
    /\ task = [t \in Tasks |-> NoTaskRow]
    /\ routeOn = [t \in Tasks |-> TRUE]
    /\ row = [r \in RunIds |-> NoRow]
    /\ sched = Idle
    /\ live = {} /\ lost = {}
    /\ toggles = 0 /\ faults = 0
-----------------------------------------------------------------------------
(* Task definitions: the dynamic tools and the operator.                   *)

CreateTask(t, c) ==
    /\ sched.pc # "down"
    /\ ~Exists(t)
    /\ Cardinality(Enabled) < MaxEnabledTasks
    /\ NextSlot(c, clock) # 0
    /\ task' = [task EXCEPT ![t] = [enabled |-> TRUE, version |-> 1, cron |-> c,
                                    next |-> NextSlot(c, clock)]]
    /\ UNCHANGED <<clock, routeOn, row, sched, live, lost, toggles, faults>>

\* Mutant of UpdateTask: the instant of the edit itself counts as next slot.
UpdateTaskFromNow(t, cronGiven, c, enabled) ==
    /\ sched.pc # "down"
    /\ Exists(t) /\ task[t].version < MaxVersion
    /\ ~cronGiven => c = task[t].cron
    /\ task' = [task EXCEPT ![t] = [enabled |-> enabled, version |-> task[t].version + 1, cron |-> c,
                                    next |-> IF enabled THEN NextSlot(c, clock - 1) ELSE 0]]
    /\ UNCHANGED <<clock, routeOn, row, sched, live, lost, toggles, faults>>

\* The patch was read at the current version (any other version is refused and
\* changes nothing); cronGiven says that it carries a cron expression.
UpdateTask(t, cronGiven, c, enabled) ==
    /\ sched.pc # "down"
    /\ Exists(t) /\ task[t].version < MaxVersion
    /\ ~cronGiven => c = task[t].cron
    /\ LET recompute == task[t].next = 0 \/ ~task[t].enabled \/ cronGiven
           next == CASE ~enabled             -> 0
                     [] enabled /\ recompute -> NextSlot(c, clock)
                     [] OTHER                -> task[t].next
       IN  task' = [task EXCEPT ![t] = [enabled |-> enabled, version |-> task[t].version + 1,
                                        cron |-> c, next |-> next]]
    /\ UNCHANGED <<clock, routeOn, row, sched, live, lost, toggles, faults>>

SetRoute(t) ==
    /\ toggles < MaxToggles
    /\ toggles' = toggles + 1
    /\ routeOn' = [routeOn EXCEPT ![t] = ~routeOn[t]]
    /\ UNCHANGED <<clock, task, row, sched, live, lost, faults>>

AdvanceClock ==
    /\ clock < MaxTime
    /\ clock' = clock + 1
    /\ UNCHANGED <<task, routeOn, row, sched, live, lost, toggles, faults>>
-----------------------------------------------------------------------------
(* One Tick.                                                               *)

AllDue ==
    {[task |-> t, version |-> task[t].version, slot |-> task[t].next, revoked |-> ~routeOn[t]] :
        t \in {u \in Enabled : task[u].next # 0 /\ task[u].next <= clock}}

\* Tick reads the clock once and lists the ScanLimit enabled tasks due longest.
ListDue ==
    /\ sched.pc = "idle"
    /\ \E due \in SUBSET AllDue :
          /\ Cardinality(due) <= ScanLimit
          /\ due = AllDue \/ Cardinality(due) = ScanLimit
          /\ \A o \in due, p \in AllDue \ due : o.slot <= p.slot
          /\ sched' = At("scan", clock, due, {}, 0)
    /\ UNCHANGED <<clock, task, routeOn, row, live, lost, toggles, faults>>

\* The list is ordered by next_run_at.
Head(o) == /\ sched.pc = "scan"
           /\ o \in sched.due
           /\ \A p \in sched.due : o.slot <= p.slot

Continue(o) == At("scan", sched.now, sched.due \ {o}, {}, sched.prompts)

\* The observation still describes the locked task row.
Current(o) == /\ task[o.task].enabled
              /\ task[o.task].version = o.version
              /\ task[o.task].next = o.slot

Misfired(o) == o.slot + Grace < sched.now

\* INSERT the run row of the observed slot and advance the task.
Record(o, state, code, next) ==
    /\ FreeRuns # {}
    /\ row' = [row EXCEPT ![NewID] = [state |-> state, task |-> o.task, slot |-> o.slot,
                                      code |-> code]]
    /\ task' = [task EXCEPT ![o.task].next = next]

FailRouteRevoked(o) ==
    /\ Head(o) /\ o.revoked
    /\ \/ /\ Current(o) /\ ~routeOn[o.task]
          /\ Record(o, "failed", "failed_route_revoked", NextSlot(task[o.task].cron, sched.now))
       \/ /\ ~(Current(o) /\ ~routeOn[o.task])       \* ErrDueClaimConflict is ignored
          /\ UNCHANGED <<task, row>>
    /\ sched' = Continue(o)
    /\ UNCHANGED <<clock, routeOn, live, lost, toggles, faults>>

SkipMisfire(o) ==
    /\ Head(o) /\ ~o.revoked /\ Misfired(o)
    /\ \/ /\ Current(o) /\ routeOn[o.task]
          /\ Record(o, "skipped", "skipped_misfire", NextSlot(task[o.task].cron, sched.now))
          /\ sched' = Continue(o)
       \/ /\ ~(Current(o) /\ routeOn[o.task])        \* ErrDueClaimConflict ends Run
          /\ sched' = Stopped
          /\ UNCHANGED <<task, row>>
    /\ UNCHANGED <<clock, routeOn, live, lost, toggles, faults>>

\* Mutant of PromptBudgetSpent: off by one.
PromptBudgetSpentEarly(o) ==
    o.task \in PromptTasks /\ sched.prompts + 1 >= MaxPromptDispatch

PromptBudgetSpent(o) ==
    o.task \in PromptTasks /\ sched.prompts >= MaxPromptDispatch

ClaimDue(o) ==
    /\ Head(o) /\ ~o.revoked /\ ~Misfired(o)
    /\ \/ /\ Current(o) /\ routeOn[o.task] /\ ~PromptBudgetSpent(o)
          /\ Record(o, "claimed", "", NextSlot(task[o.task].cron, o.slot))
          /\ sched' = IF o.task \in PromptTasks
                      THEN At("route", sched.now, sched.due \ {o}, {NewID}, sched.prompts + 1)
                      ELSE At("script", sched.now, sched.due \ {o}, {NewID}, sched.prompts)
       \/ /\ ~(Current(o) /\ routeOn[o.task]) \/ PromptBudgetSpent(o)
          /\ sched' = Continue(o)
          /\ UNCHANGED <<task, row>>
    /\ UNCHANGED <<clock, routeOn, live, lost, toggles, faults>>

EndTick ==
    /\ sched.pc = "scan" /\ sched.due = {}
    /\ sched' = Idle
    /\ UNCHANGED <<clock, task, routeOn, row, live, lost, toggles, faults>>
-----------------------------------------------------------------------------
(* Dispatch of the claimed run, synchronous in Tick.                       *)

Dispatching(pc, r) == sched.pc = pc /\ r \in sched.held

Finished(r, state, code) == [row EXCEPT ![r] = [@ EXCEPT !.state = state, !.code = code]]

\* A revoked route is ErrRunClaimLost: Dispatch, Tick and Run return it.
LoadPromptRoute(r) ==
    /\ Dispatching("route", r)
    /\ sched' = IF routeOn[row[r].task] THEN [sched EXCEPT !.pc = "queue"] ELSE Stopped
    /\ UNCHANGED <<clock, task, routeOn, row, live, lost, toggles, faults>>

MarkRunQueued(r) ==
    /\ Dispatching("queue", r)
    /\ row[r].state = "claimed"
    /\ row' = [row EXCEPT ![r].state = "queued"]
    /\ sched' = [sched EXCEPT !.pc = "accept"]
    /\ UNCHANGED <<clock, task, routeOn, live, lost, toggles, faults>>

AcceptPrompt(r) ==
    /\ Dispatching("accept", r)
    /\ live' = live \cup {r}
    /\ sched' = At("scan", sched.now, sched.due, {}, sched.prompts)
    /\ UNCHANGED <<clock, task, routeOn, row, lost, toggles, faults>>

\* Mutant of RejectPrompt: the scan goes on and nobody finishes the run.
RejectPromptSilently(r) ==
    /\ Dispatching("accept", r)
    /\ sched' = At("scan", sched.now, sched.due, {}, sched.prompts)
    /\ UNCHANGED <<clock, task, routeOn, row, live, lost, toggles, faults>>

\* Worker.Accept refused (queue full, pool saturated, control barrier, closed).
\* The error of CompleteRun is discarded, the error of Accept ends Run.
RejectPrompt(r) ==
    /\ Dispatching("accept", r)
    /\ \/ row' = Finished(r, "failed", "failed_enqueue") /\ UNCHANGED faults
       \/ faults < MaxFaults /\ faults' = faults + 1 /\ UNCHANGED row
    /\ sched' = Stopped
    /\ UNCHANGED <<clock, task, routeOn, live, lost, toggles>>

\* A free slot starts the script goroutine; without one the run fails at once.
DispatchScript(r) ==
    /\ Dispatching("script", r)
    /\ \/ /\ Cardinality(LiveScripts) < MaxScripts
          /\ live' = live \cup {r}
          /\ UNCHANGED row
       \/ /\ Cardinality(LiveScripts) >= MaxScripts
          /\ row' = Finished(r, "failed", "failed_capacity")
          /\ UNCHANGED live
    /\ sched' = At("scan", sched.now, sched.due, {}, sched.prompts)
    /\ UNCHANGED <<clock, task, routeOn, lost, toggles, faults>>
-----------------------------------------------------------------------------
(* Executors (the channel worker, the script goroutine), seen from the     *)
(* run row; RunOutbox has their detail.                                    *)

ExecutorMarks(r) ==
    /\ r \in live
    /\ \/ /\ row[r].task \in ScriptTasks /\ row[r].state = "claimed"
          /\ row' = [row EXCEPT ![r].state = "queued"]
       \/ /\ row[r].state = "queued"
          /\ row' = [row EXCEPT ![r].state = "running"]
    /\ UNCHANGED <<clock, task, routeOn, sched, live, lost, toggles, faults>>

CompleteRun(r, state) ==
    /\ r \in live
    /\ row[r].state \in Active
    /\ row' = Finished(r, state, "by_executor")
    /\ live' = live \ {r}
    /\ UNCHANGED <<clock, task, routeOn, sched, lost, toggles, faults>>

\* A failed database call makes the executor return with the row as it is.
ExecutorGivesUp(r) ==
    /\ r \in live
    /\ faults < MaxFaults
    /\ faults' = faults + 1
    /\ live' = live \ {r}
    /\ lost' = lost \cup {r}
    /\ UNCHANGED <<clock, task, routeOn, row, sched, toggles>>
-----------------------------------------------------------------------------
(* The process.                                                            *)

\* Any other database error in Tick ends Scheduler.Run as well.
StoreFails ==
    /\ sched.pc \in {"idle", "scan", "route", "queue", "script"}
    /\ faults < MaxFaults
    /\ faults' = faults + 1
    /\ sched' = Stopped
    /\ UNCHANGED <<clock, task, routeOn, row, live, lost, toggles>>

Crash ==
    /\ sched.pc # "down"
    /\ faults < MaxFaults
    /\ faults' = faults + 1
    /\ sched' = Down
    /\ live' = {} /\ lost' = {}
    /\ UNCHANGED <<clock, task, routeOn, row, toggles>>

\* Mutant of ServerStops: the error is logged and the server stays up.
ServerLogsError ==
    /\ sched.pc = "stopped"
    /\ UNCHANGED vars

\* The server calls stop() when Scheduler.Run returns an error.
ServerStops ==
    /\ sched.pc = "stopped"
    /\ sched' = Down
    /\ live' = {} /\ lost' = {}
    /\ UNCHANGED <<clock, task, routeOn, row, toggles, faults>>

\* Mutant of ReconcileInterruptedRuns: finished rows are rewritten.
ReconcileEveryRun ==
    [r \in RunIds |-> IF row[r].state # "none" THEN [row[r] EXCEPT !.state = "unknown"] ELSE row[r]]

ReconcileInterruptedRuns ==
    [r \in RunIds |-> IF row[r].state \in Active
                      THEN [row[r] EXCEPT !.state = "unknown", !.code = "unknown_interrupted"]
                      ELSE row[r]]

Restart ==
    /\ sched.pc = "down"
    /\ row' = ReconcileInterruptedRuns
    /\ sched' = Idle
    /\ UNCHANGED <<clock, task, routeOn, live, lost, toggles, faults>>
-----------------------------------------------------------------------------
SchedulerStep ==
    \/ ListDue \/ EndTick
    \/ \E o \in sched.due : FailRouteRevoked(o) \/ SkipMisfire(o) \/ ClaimDue(o)
    \/ \E r \in sched.held : \/ LoadPromptRoute(r) \/ MarkRunQueued(r)
                             \/ AcceptPrompt(r) \/ RejectPrompt(r) \/ DispatchScript(r)

ExecutorStep(r) ==
    ExecutorMarks(r) \/ \E s \in Outcomes : CompleteRun(r, s)

Next ==
    \/ \E t \in Tasks, c \in Crons : CreateTask(t, c)
    \/ \E t \in Tasks, c \in Crons, cronGiven, enabled \in BOOLEAN :
          UpdateTask(t, cronGiven, c, enabled)
    \/ \E t \in Tasks : SetRoute(t)
    \/ AdvanceClock
    \/ SchedulerStep
    \/ \E r \in RunIds : ExecutorStep(r) \/ ExecutorGivesUp(r)
    \/ StoreFails \/ Crash \/ ServerStops \/ Restart

Spec == Init /\ [][Next]_vars

\* The goroutines of a live process run, and a stopped server is restarted by
\* its supervisor; users, operators, the clock and faults owe nothing.
FairSpec ==
    /\ Spec
    /\ WF_vars(SchedulerStep) /\ WF_vars(ServerStops) /\ WF_vars(Restart)
    /\ \A r \in RunIds : WF_vars(ExecutorStep(r))
-----------------------------------------------------------------------------
\* Type invariant: task and run rows, and the place of the scheduler.
TypeOK ==
    /\ clock \in Nat
    /\ task \in [Tasks -> TaskRows]
    /\ routeOn \in [Tasks -> BOOLEAN]
    /\ row \in [RunIds -> RunRows]
    /\ sched \in [pc : PCs, now : Nat, due : SUBSET DueTasks, held : SUBSET RunIds, prompts : Nat]
    /\ live \subseteq RunIds /\ lost \subseteq RunIds
    /\ toggles \in Nat /\ faults \in Nat

\* One slot of a task has one run, although a slot may be claimed, skipped or
\* refused and the task may be edited, disabled and enabled in between: the
\* claim protocol of ClaimDue, SkipMisfire and FailRouteRevoked never offers
\* the unique index uk_scheduled_task_run_slot a duplicate.
SlotsUnique ==
    \A r, s \in RunIds :
        r # s /\ row[r].state # "none" /\ row[s].state # "none"
        => <<row[r].task, row[r].slot>> # <<row[s].task, row[s].slot>>

\* Every active run has somebody who will finish it: the scheduler that is
\* dispatching it, its executor, or the restart of a stopping process.  The
\* exception is an owner that gave up on a database error.
NoOrphanRun ==
    \A r \in RunIds :
        row[r].state \in Active
        => r \in sched.held \cup live \cup lost \/ sched.pc \in {"stopped", "down"}

\* The run rows live the life RunLedger promises.
Ledger == INSTANCE RunLedger WITH state <- [r \in RunIds |-> row[r].state]
LedgerSpec == Ledger!Spec

\* Every claimed run reaches a terminal row, through dispatch, execution or the
\* reconciliation of the next start: nothing waits for ever.  The exception is
\* again a run whose executor gave up, which only a restart would settle.  (A
\* run leaves the active states for good, so one formula serves for all runs.)
RunsSettle == []<>(\A r \in RunIds : row[r].state \in Active => r \in lost)

\* A due slot is dealt with (claimed, skipped, refused or withdrawn) and does
\* not wait for ever behind other prompts, conflicts or a stopped scheduler:
\* when the clock stands still the scheduler catches up.
Overdue(t) == t \in Enabled /\ task[t].next # 0 /\ task[t].next <= clock
DueSlotsHandled == []<>(\A t \in Tasks : ~Overdue(t))
-----------------------------------------------------------------------------
(* What the design document says and the code does not do.                 *)

\* "队满/池饱和把 run 标 failed_enqueue，任务下次周期不受阻": a refused prompt fails its own
\* run and the scheduler goes on.  PromptDispatcher.Dispatch returns the error
\* of Accept all the same, and Tick and Run return it to the server.
RejectionKeepsScheduling ==
    [][\A r \in RunIds : row[r].code # "failed_enqueue" /\ row'[r].code = "failed_enqueue"
                         => sched'.pc # "stopped"]_vars
=============================================================================
