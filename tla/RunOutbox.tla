------------------------------ MODULE RunOutbox ------------------------------
(***************************************************************************)
(* What happens to a claimed run: its execution by the channel worker or   *)
(* by a script goroutine, its terminal row, and the delivery of its result *)
(* through the outbox table scheduled_task_deliveries.                     *)
(*                                                                         *)
(* Every run has one goroutine at a time; one database statement or one    *)
(* call of the platform is one action, so the process may die between any  *)
(* two.  A restart is two statements, and may itself be cut in the middle. *)
(* Turns, scripts and Feishu are outside: a turn or script ends as it      *)
(* likes, a send is answered or not, whether or not the user sees it.      *)
(***************************************************************************)
EXTENDS Naturals, FiniteSets

CONSTANTS
    PromptRuns,     \* runs of kind 'prompt'
    ScriptRuns,     \* runs of kind 'script'
    MaxScripts,     \* capacity of ScriptSlots

    MaxCrashes,     \* bound: deaths of the process
    MaxDbFaults,    \* bound: failed database calls
    MaxRevokes      \* bound: route changes

Runs == PromptRuns \cup ScriptRuns
Kinds == {"card", "text"}       \* delivery_kind result_card, fallback_text

ASSUME RunsAssumption == PromptRuns \cap ScriptRuns = {}
ASSUME LimitsAssumption ==
    MaxScripts \in Nat /\ MaxCrashes \in Nat /\ MaxDbFaults \in Nat /\ MaxRevokes \in Nat

VARIABLES
    silent,     \* silent[r]: snapshot in the run row
    run,        \* run[r]: state column of scheduled_task_runs
    delivery,   \* delivery[r][k]: stage or outcome of the row, "none" = no row
    routeOn,    \* apps.enabled AND chat_groups.schedule_enabled
    pc,         \* pc[r]: where the goroutine of r is
    kind,       \* kind[r]: the delivery that goroutine is working on
    answer,     \* answer[r]: what the platform said to its last send
    slots,      \* runs holding a ScriptSlot
    boot,       \* "up", "down", or between the two reconciliations
    crashes, dbFaults, revokes,
    started,    \* history: turns or commands started for r
    shown,      \* history: messages of r that reached the chat, per kind
    abandoned,  \* history: runs whose goroutine returned early
    doubt       \* history: runs whose card was accepted without an identifier

tables == <<silent, run, delivery, routeOn>>
local  == <<pc, kind, answer, slots>>
limits == <<crashes, dbFaults, revokes>>
past   == <<started, shown, abandoned, doubt>>
vars   == <<tables, local, boot, limits, past>>
-----------------------------------------------------------------------------
Active   == {"claimed", "queued", "running"}
Terminal == {"succeeded", "failed", "cancelled", "unknown", "skipped"}
Stages   == {"pending", "in_flight"}
Outcomes == {"sent", "rejected", "unknown", "suppressed"}
PCs == {"none", "queue", "accept", "waiting", "turn",                   \* prompt
        "slot", "scriptQueue", "scriptStart", "script",                 \* script
        "create", "route", "claim", "send", "record", "fallback",       \* delivery
        "done"}

Init ==
    /\ silent \in [Runs -> BOOLEAN]
    /\ run = [r \in Runs |-> "none"]
    /\ delivery = [r \in Runs |-> [k \in Kinds |-> "none"]]
    /\ routeOn = TRUE
    /\ pc = [r \in Runs |-> "none"]
    /\ kind = [r \in Runs |-> "card"]
    /\ answer = [r \in Runs |-> "unknown"]
    /\ slots = {} /\ boot = "up"
    /\ crashes = 0 /\ dbFaults = 0 /\ revokes = 0
    /\ started = [r \in Runs |-> 0]
    /\ shown = [r \in Runs |-> [k \in Kinds |-> 0]]
    /\ abandoned = {} /\ doubt = {}

\* The goroutine of r continues at p; its end releases the script slot.
Goto(r, p) ==
    /\ pc' = [pc EXCEPT ![r] = p]
    /\ slots' = IF p = "done" THEN slots \ {r} ELSE slots

\* Mutant of MoveRun: the UPDATE does not look at the state.
MoveRunBlindly(r, from, to) ==
    /\ run' = [run EXCEPT ![r] = to]
    /\ UNCHANGED <<silent, delivery, routeOn>>

\* UPDATE ... WHERE claim_token=? AND state IN (from): only the owner's step.
MoveRun(r, from, to) ==
    /\ run[r] \in from
    /\ run' = [run EXCEPT ![r] = to]
    /\ UNCHANGED <<silent, delivery, routeOn>>

MoveDelivery(r, k, to) ==
    /\ delivery' = [delivery EXCEPT ![r][k] = to]
    /\ UNCHANGED <<silent, run, routeOn>>
-----------------------------------------------------------------------------
(* Dispatch and execution.                                                 *)

\* ClaimDue, seen from here: a new row and its dispatch.
Claim(r) ==
    /\ boot = "up" /\ pc[r] = "none"
    /\ MoveRun(r, {"none"}, "claimed")
    /\ Goto(r, IF r \in PromptRuns THEN "queue" ELSE "slot")
    /\ UNCHANGED <<kind, answer, boot, limits, past>>

MarkRunQueued(r) ==
    /\ pc[r] \in {"queue", "scriptQueue"}
    /\ MoveRun(r, {"claimed"}, "queued")
    /\ Goto(r, IF pc[r] = "queue" THEN "accept" ELSE "scriptStart")
    /\ UNCHANGED <<kind, answer, boot, limits, past>>

\* Accept puts the message into the worker's queue or refuses it.
Accept(r) ==
    /\ pc[r] = "accept"
    /\ \/ Goto(r, "waiting") /\ UNCHANGED tables
       \/ Goto(r, "done") /\ MoveRun(r, Active, "failed")       \* failed_enqueue
    /\ UNCHANGED <<kind, answer, boot, limits, past>>

\* MarkRunRunning, and only then the turn or the command.
MarkRunRunning(r) ==
    /\ pc[r] \in {"waiting", "scriptStart"}
    /\ MoveRun(r, {"queued"}, "running")
    /\ Goto(r, IF pc[r] = "waiting" THEN "turn" ELSE "script")
    /\ started' = [started EXCEPT ![r] = @ + 1]
    /\ UNCHANGED <<kind, answer, boot, limits, shown, abandoned, doubt>>

\* processScheduled when MarkScheduledRunning fails: failed_run_claim.
FailRunClaim(r) ==
    /\ pc[r] = "waiting" /\ dbFaults < MaxDbFaults
    /\ dbFaults' = dbFaults + 1
    /\ MoveRun(r, Active, "failed")
    /\ Goto(r, "create")
    /\ UNCHANGED <<kind, answer, boot, crashes, revokes, past>>

\* A /cancel, /new, timeout or shutdown takes the prompt out of the queue or
\* interrupts its turn: cancelled_by_channel_control, and no delivery.
DiscardScheduledRun(r) ==
    /\ pc[r] \in {"waiting", "turn"}
    /\ MoveRun(r, Active, "cancelled")
    /\ Goto(r, "done")
    /\ UNCHANGED <<kind, answer, boot, limits, past>>

\* An ordinary batch of the channel timed out with the prompt behind it: the
\* worker drops its queue and fails it as ordinary messages, which no row of
\* the prompt is.
DropQueued(r) ==
    /\ pc[r] = "waiting"
    /\ Goto(r, "done")
    /\ abandoned' = abandoned \cup {r}
    /\ UNCHANGED <<tables, kind, answer, boot, limits, started, shown, doubt>>

\* The turn or the command ended; CompleteRun or CompleteScriptRun.
CompleteRun(r, state) ==
    /\ pc[r] \in {"turn", "script"}
    /\ MoveRun(r, Active, state)
    /\ Goto(r, "create")
    /\ UNCHANGED <<kind, answer, boot, limits, past>>

\* A free slot starts the script goroutine; without one the run fails and its
\* result is delivered from the scheduler's goroutine.  The slots are shared
\* with runs outside the instance, which may hold all of them.
TakeSlot(r) ==
    /\ r \in ScriptRuns /\ pc[r] = "slot"
    /\ \/ /\ Cardinality(slots) < MaxScripts
          /\ slots' = slots \cup {r}
          /\ pc' = [pc EXCEPT ![r] = "scriptQueue"]
          /\ UNCHANGED tables
       \/ /\ MoveRun(r, Active, "failed")                       \* failed_capacity
          /\ Goto(r, "create")
    /\ UNCHANGED <<kind, answer, boot, limits, past>>

\* Mutant of Panic: the recover queues the script again.
PanicAndRetry(r) ==
    /\ r \in slots
    /\ MoveRun(r, Active, "queued")
    /\ Goto(r, "scriptStart")
    /\ UNCHANGED <<kind, answer, boot, limits, past>>

\* The recover of the script goroutine: failScript.  Its CompleteRun changes
\* one row or fails, and then nothing is delivered.
Panic(r) ==
    /\ r \in slots
    /\ \/ MoveRun(r, Active, "failed") /\ Goto(r, "create") /\ UNCHANGED abandoned
       \/ /\ run[r] \notin Active
          /\ Goto(r, "done")
          /\ abandoned' = abandoned \cup {r}
          /\ UNCHANGED tables
    /\ UNCHANGED <<kind, answer, boot, limits, started, shown, doubt>>
-----------------------------------------------------------------------------
(* ResultDeliveryDispatcher.Deliver.                                       *)

\* INSERT ... SELECT: the state and the silent flag are those of the row; an
\* existing row (error 1062) is loaded instead.
CreateResultDelivery(r) ==
    /\ pc[r] = "create"
    /\ \/ /\ delivery[r]["card"] = "none" /\ run[r] \in Terminal
          /\ MoveDelivery(r, "card", IF silent[r] THEN "suppressed" ELSE "pending")
          /\ Goto(r, IF silent[r] THEN "done" ELSE "route")
       \/ /\ delivery[r]["card"] # "none"
          /\ Goto(r, IF delivery[r]["card"] = "suppressed" THEN "done" ELSE "route")
          /\ UNCHANGED tables
       \/ /\ delivery[r]["card"] = "none" /\ run[r] \notin Terminal
          /\ Goto(r, "done")
          /\ UNCHANGED tables
    /\ kind' = [kind EXCEPT ![r] = "card"]
    /\ UNCHANGED <<answer, boot, limits, past>>

\* A revoked route ends Deliver and leaves the intent pending for good.
LoadDeliveryRoute(r) ==
    /\ pc[r] = "route"
    /\ \/ routeOn /\ Goto(r, "claim") /\ UNCHANGED abandoned
       \/ ~routeOn /\ Goto(r, "done") /\ abandoned' = abandoned \cup {r}
    /\ UNCHANGED <<tables, kind, answer, boot, limits, started, shown, doubt>>

ClaimDelivery(r) ==
    /\ pc[r] = "claim"
    /\ \/ /\ delivery[r][kind[r]] = "pending"
          /\ MoveDelivery(r, kind[r], "in_flight")
          /\ Goto(r, "send")
       \/ /\ delivery[r][kind[r]] # "pending"
          /\ Goto(r, "done")
          /\ UNCHANGED tables
    /\ UNCHANGED <<kind, answer, boot, limits, past>>

\* Mutant of Send: a lost answer counts as a rejection.
SendLostIsRejected(r) ==
    /\ pc[r] = "send"
    /\ \E n \in {0, 1} : shown' = [shown EXCEPT ![r][kind[r]] = @ + n]
    /\ answer' = [answer EXCEPT ![r] = "rejected"]
    /\ Goto(r, "record")
    /\ UNCHANGED <<tables, kind, boot, limits, started, abandoned, doubt>>

\* The platform accepts and shows the message, rejects it, or the answer is
\* lost (or cannot be digested) and nobody knows.  SendStaticCard also calls a
\* card rejected that was accepted without a message identifier; for a text
\* SendCommandText calls that unknown.
Send(r) ==
    /\ pc[r] = "send"
    /\ \E a \in {"sent", "rejected", "unknown"}, n \in {0, 1} :
          /\ a = "sent" => n = 1
          /\ a = "rejected" /\ n = 1 => kind[r] = "card"
          /\ answer' = [answer EXCEPT ![r] = a]
          /\ shown' = [shown EXCEPT ![r][kind[r]] = @ + n]
          /\ doubt' = IF a = "rejected" /\ n = 1 THEN doubt \cup {r} ELSE doubt
    /\ Goto(r, "record")
    /\ UNCHANGED <<tables, kind, boot, limits, started, abandoned>>

\* Mutant of CompleteDelivery: what was not rejected is recorded as sent.
CompleteOptimistically(r) ==
    /\ pc[r] = "record"
    /\ delivery[r][kind[r]] = "in_flight"
    /\ MoveDelivery(r, kind[r], IF answer[r] = "rejected" THEN "rejected" ELSE "sent")
    /\ Goto(r, "done")
    /\ UNCHANGED <<kind, answer, boot, limits, past>>

\* UPDATE ... WHERE stage='in_flight'; only a rejected card has a fallback.
CompleteDelivery(r) ==
    /\ pc[r] = "record"
    /\ delivery[r][kind[r]] = "in_flight"
    /\ MoveDelivery(r, kind[r], answer[r])
    /\ Goto(r, IF kind[r] = "card" /\ answer[r] = "rejected" THEN "fallback" ELSE "done")
    /\ UNCHANGED <<kind, answer, boot, limits, past>>

CreateFallbackAfterRejected(r) ==
    /\ pc[r] = "fallback"
    /\ \/ /\ delivery[r]["card"] = "rejected" /\ delivery[r]["text"] = "none"
          /\ MoveDelivery(r, "text", "pending")
          /\ Goto(r, "claim")
       \/ /\ delivery[r]["text"] # "none"
          /\ Goto(r, "claim")
          /\ UNCHANGED tables
    /\ kind' = [kind EXCEPT ![r] = "text"]
    /\ UNCHANGED <<answer, boot, limits, past>>

\* A failed database call (or a context that shutdown cancelled, or an App
\* without a sender) makes the goroutine return with its rows as they are.
GiveUp(r) ==
    /\ pc[r] \notin {"none", "done"}
    /\ dbFaults < MaxDbFaults
    /\ dbFaults' = dbFaults + 1
    /\ Goto(r, "done")
    /\ abandoned' = abandoned \cup {r}
    /\ UNCHANGED <<tables, kind, answer, boot, crashes, revokes, started, shown, doubt>>
-----------------------------------------------------------------------------
(* The operator and the process.                                           *)

SetRoute ==
    /\ revokes < MaxRevokes
    /\ revokes' = revokes + 1
    /\ routeOn' = ~routeOn
    /\ UNCHANGED <<silent, run, delivery, local, boot, crashes, dbFaults, past>>

Crash ==
    /\ boot # "down" /\ crashes < MaxCrashes
    /\ crashes' = crashes + 1
    /\ boot' = "down"
    /\ pc' = [r \in Runs |-> IF pc[r] = "none" THEN "none" ELSE "done"]
    /\ slots' = {}
    /\ UNCHANGED <<tables, kind, answer, dbFaults, revokes, past>>

ReconcileInterruptedRuns ==
    /\ boot = "down"
    /\ boot' = "runsReconciled"
    /\ run' = [r \in Runs |-> IF run[r] \in Active THEN "unknown" ELSE run[r]]
    /\ UNCHANGED <<silent, delivery, routeOn, local, limits, past>>

\* Mutant of ReconcileInFlightDeliveries: only cards are settled.
ReconcileCards ==
    /\ boot = "runsReconciled"
    /\ boot' = "up"
    /\ delivery' = [r \in Runs |-> [delivery[r] EXCEPT !["card"] = IF @ = "in_flight" THEN "unknown" ELSE @]]
    /\ UNCHANGED <<silent, run, routeOn, local, limits, past>>

ReconcileInFlightDeliveries ==
    /\ boot = "runsReconciled"
    /\ boot' = "up"
    /\ delivery' = [r \in Runs |-> [k \in Kinds |->
                       IF delivery[r][k] = "in_flight" THEN "unknown" ELSE delivery[r][k]]]
    /\ UNCHANGED <<silent, run, routeOn, local, limits, past>>
-----------------------------------------------------------------------------
\* What the goroutine of r does by itself.
Step(r) ==
    \/ MarkRunQueued(r) \/ Accept(r) \/ MarkRunRunning(r) \/ TakeSlot(r)
    \/ \E s \in {"succeeded", "failed"} : CompleteRun(r, s)
    \/ CreateResultDelivery(r) \/ LoadDeliveryRoute(r) \/ ClaimDelivery(r)
    \/ Send(r) \/ CompleteDelivery(r) \/ CreateFallbackAfterRejected(r)

\* What others do to it.
Disturb(r) == Claim(r) \/ FailRunClaim(r) \/ DiscardScheduledRun(r) \/ DropQueued(r) \/ Panic(r) \/ GiveUp(r)

Boot == ReconcileInterruptedRuns \/ ReconcileInFlightDeliveries

Next ==
    \/ \E r \in Runs : Step(r) \/ Disturb(r)
    \/ SetRoute \/ Crash \/ Boot

Spec == Init /\ [][Next]_vars

\* Goroutines run, turns and commands end (both have a timeout), and a dead
\* process is started again.
FairSpec == Spec /\ WF_vars(Boot) /\ \A r \in Runs : WF_vars(Step(r))
-----------------------------------------------------------------------------
\* Type invariant: run and delivery rows, and the goroutine of each run.
TypeOK ==
    /\ silent \in [Runs -> BOOLEAN]
    /\ run \in [Runs -> {"none"} \cup Active \cup Terminal]
    /\ delivery \in [Runs -> [Kinds -> {"none"} \cup Stages \cup Outcomes]]
    /\ routeOn \in BOOLEAN
    /\ pc \in [Runs -> PCs]
    /\ kind \in [Runs -> Kinds]
    /\ answer \in [Runs -> {"sent", "rejected", "unknown"}]
    /\ slots \subseteq ScriptRuns /\ abandoned \subseteq Runs /\ doubt \subseteq Runs
    /\ boot \in {"up", "down", "runsReconciled"}
    /\ crashes \in Nat /\ dbFaults \in Nat /\ revokes \in Nat
    /\ started \in [Runs -> Nat]
    /\ shown \in [Runs -> [Kinds -> Nat]]

\* A run produces at most one visible message, card and fallback together,
\* however its sends are answered and wherever the process dies: an unknown card
\* is never followed by anything, and a rejected one was not shown - except the
\* card accepted without an identifier, which its text then repeats.
OneVisibleResult ==
    \A r \in Runs :
        /\ shown[r]["card"] + shown[r]["text"] <= IF r \in doubt THEN 2 ELSE 1
        /\ shown[r]["text"] <= 1

\* What users see and what the outbox says agree: a row that says sent was
\* seen, a row that says rejected, pending or suppressed was not.  The one row
\* that denies what was seen is that of a card accepted without an identifier.
OutboxIsTruthful ==
    \A r \in Runs, k \in Kinds :
        /\ delivery[r][k] = "sent" => shown[r][k] = 1
        /\ shown[r][k] > 0 => \/ delivery[r][k] \in {"in_flight", "sent", "unknown"}
                              \/ k = "card" /\ delivery[r][k] = "rejected" /\ r \in doubt

\* Only a run that ended by itself reports a result: an interrupted, cancelled
\* or skipped run and a silent one never reach the chat.
OnlyFinishedRunsReport ==
    \A r \in Runs, k \in Kinds :
        shown[r][k] > 0 => run[r] \in {"succeeded", "failed"} /\ ~silent[r]

\* No turn or command is started twice, whatever was interrupted, and one that
\* succeeded was started.
NeverReplayed ==
    \A r \in Runs : /\ started[r] <= 1
                    /\ run[r] = "succeeded" => started[r] = 1

\* The run rows live the life RunLedger promises.
Ledger == INSTANCE RunLedger WITH RunIds <- Runs, state <- run
LedgerSpec == Ledger!Spec

\* Every claimed run becomes terminal and every claimed delivery gets an outcome,
\* at the latest at the next start, unless the goroutine gave up or panicked.
\* (Rows leave these states for good, so one formula serves for all runs.)
RunsSettle ==
    []<>(\A r \in Runs :
            run[r] \in Active \/ (\E k \in Kinds : delivery[r][k] = "in_flight") => r \in abandoned)
=============================================================================
