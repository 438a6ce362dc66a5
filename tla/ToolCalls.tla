------------------------------ MODULE ToolCalls ------------------------------
(***************************************************************************)
(* Dynamic tool calls: the Feishu actions (feishuaction over the table      *)
(* feishu_action_calls) and the schedule tools (scheduleaction over         *)
(* scheduled_task_tool_calls and scheduled_tasks).                          *)
(*                                                                         *)
(* One execution of a handler is a delivery.  The same call can be          *)
(* delivered again, even while its first delivery runs: the runtime forgets *)
(* a call as soon as it answered any delivery of it.  A Feishu action       *)
(* crosses its ledger in separate statements around an external request; a  *)
(* schedule tool does everything in one transaction.  A statement may fail, *)
(* its answer may be lost after it took effect, the context of a delivery   *)
(* may be cancelled and the process may die between any two steps.          *)
(*                                                                         *)
(* Arguments are numbers that stand for argument digests; those of an       *)
(* update are also the version it expects.                                  *)
(***************************************************************************)
EXTENDS Naturals, FiniteSets

CONSTANTS
    Requests,       \* [call, tool, args] that App Server may send
    Quota           \* MaxEnabledTasksPerOwner

\* Bounds that only keep the instance finite.
CONSTANTS
    MaxDeliveries,      \* executions of a handler
    MaxDisturbances     \* failed statements, lost answers, cancels, crashes

FeishuTools == {"send", "read", "doc"}
ScheduleTools == {"create", "update", "list"}
Tools == FeishuTools \cup ScheduleTools

Deliveries == 1 .. MaxDeliveries
NoOne == 0          \* not a delivery
Seed == 0           \* a task the owner created earlier

ASSUME RequestsAssumption ==
    /\ \A r \in Requests : DOMAIN r = {"call", "tool", "args"} /\ r.tool \in Tools /\ r.args \in Nat
    /\ Quota \in Nat /\ MaxDeliveries \in Nat /\ MaxDisturbances \in Nat

VARIABLES
    action,         \* rows of feishu_action_calls
    toolCall,       \* rows of scheduled_task_tool_calls
    task,           \* rows of scheduled_tasks of one owner
    run,            \* the deliveries
    done,           \* what happened: messages, documents, reads, task changes
    disturbances

vars == <<action, toolCall, task, run, done, disturbances>>
-----------------------------------------------------------------------------
Calls == {r.call : r \in Requests}
Ended == {"idle", "answered", "lost"}
Terminal == {"succeeded", "rejected", "unknown", "cancelled_before_send"}

NoRow == [state |-> "none", tool |-> "none", args |-> 0, ok |-> FALSE, by |-> NoOne]
Fresh == [pc |-> "idle", req |-> NoRow, cancelled |-> FALSE, written |-> FALSE,
          ok |-> FALSE, state |-> "none", by |-> NoOne]

Init ==
    /\ action = [c \in Calls |-> NoRow]
    /\ toolCall = [c \in Calls |-> NoRow]
    /\ \E enabled \in BOOLEAN : task = [t \in {Seed} |-> [version |-> 1, enabled |-> enabled]]
    /\ run = [d \in Deliveries |-> Fresh]
    /\ done = {}
    /\ disturbances = 0

Disturb == disturbances < MaxDisturbances /\ disturbances' = disturbances + 1
Calm == UNCHANGED disturbances

\* The handler goes on at p, or returns its result to the runtime.
Goto(d, p) == run' = [run EXCEPT ![d].pc = p]
Answer(d, ok, by) == run' = [run EXCEPT ![d].pc = "answered", ![d].ok = ok, ![d].by = by]
Fail(d) == Answer(d, FALSE, NoOne)

\* One database call: it is made and answered, made although the answer is
\* lost, or not made.  database/sql refuses a cancelled context at once.
Statement(d, made, notMade, next, failed) ==
    \/ ~run[d].cancelled /\ made /\ next /\ Calm
    \/ ~run[d].cancelled /\ Disturb /\ made /\ failed
    \/ /\ IF run[d].cancelled THEN Calm ELSE Disturb
       /\ notMade /\ failed

Happened(d) == done' = done \cup {[call |-> run[d].req.call, tool |-> run[d].req.tool,
                                   args |-> run[d].req.args, by |-> d]}
-----------------------------------------------------------------------------
(* Feishu actions.                                                         *)

Row(d) == action[run[d].req.call]
SetRow(d, row) == action' = [action EXCEPT ![run[d].req.call] = row]
FeishuUnchanged == UNCHANGED <<toolCall, task>>

\* The tool handler of a batch: an App Server request starts a delivery.
Deliver(d, r) ==
    /\ run[d].pc = "idle" /\ \A e \in 1 .. d - 1 : run[e].pc # "idle"
    /\ run' = [run EXCEPT ![d].pc = IF r.tool \in ScheduleTools THEN "check" ELSE "replay",
                          ![d].req = r]
    /\ UNCHANGED <<action, toolCall, task, done, disturbances>>

\* Mutant of SameCall: a call id is replayed whatever its arguments.
SameCallId(row, r) == row.state # "none"

SameCall(row, r) == row.tool = r.tool /\ row.args = r.args

\* GetCompletedAction: a finished action is answered from its row.
GetCompletedAction(d) ==
    /\ run[d].pc = "replay"
    /\ \/ ~run[d].cancelled /\ Calm
          /\ IF Row(d).state \notin Terminal THEN Goto(d, "claim")
             ELSE Answer(d, SameCall(Row(d), run[d].req) /\ Row(d).ok, Row(d).by)
       \/ (IF run[d].cancelled THEN Calm ELSE Disturb) /\ Fail(d)
    /\ FeishuUnchanged /\ UNCHANGED <<action, done>>

Claimed(d) ==
    [state |-> "claimed", tool |-> run[d].req.tool, args |-> run[d].req.args, ok |-> FALSE, by |-> NoOne]

\* Mutant of ClaimAction: a duplicate waits for the action that is under way.
ClaimActionOrWait(d) ==
    /\ run[d].pc = "claim"
    /\ \/ /\ Row(d).state = "none"
          /\ Statement(d, SetRow(d, Claimed(d)), UNCHANGED action, Goto(d, "claimed"), Fail(d))
       \/ /\ Row(d).state \in Terminal
          /\ Goto(d, "replay") /\ Calm /\ UNCHANGED action
    /\ FeishuUnchanged /\ UNCHANGED done

\* ClaimAction: INSERT under the unique key of the call.
ClaimAction(d) ==
    /\ run[d].pc = "claim"
    /\ \/ /\ Row(d).state = "none"
          /\ Statement(d, SetRow(d, Claimed(d)), UNCHANGED action, Goto(d, "claimed"), Fail(d))
       \/ /\ Row(d).state # "none"
          /\ Fail(d) /\ Calm /\ UNCHANGED action
    /\ FeishuUnchanged /\ UNCHANGED done

\* The result of the action is known; CompleteAction records it next.
Outcome(d, ok, state) ==
    run' = [run EXCEPT ![d].pc = "complete", ![d].ok = ok, ![d].state = state]

\* ctx.Err(), then the checks of the tool's arguments and files.
Validate(d) ==
    /\ run[d].pc = "claimed"
    /\ \/ run[d].cancelled /\ Outcome(d, FALSE, "cancelled_before_send")
       \/ ~run[d].cancelled /\ Outcome(d, FALSE, "rejected")
       \/ ~run[d].cancelled /\ Goto(d, "start")
    /\ FeishuUnchanged /\ UNCHANGED <<action, done, disturbances>>

\* StartAction: claimed -> in_flight, the last durable step before the request.
StartAction(d) ==
    /\ run[d].pc = "start"
    /\ Statement(d, Row(d).state = "claimed" /\ SetRow(d, [Row(d) EXCEPT !.state = "in_flight"]),
                 UNCHANGED action, Goto(d, "request"), Outcome(d, FALSE, "unknown"))
    /\ FeishuUnchanged /\ UNCHANGED done

\* SendCurrentText, UploadAndSend and ReadDocument are one visible request.  Of
\* an error actionExternalFailureState knows only a "code=4" in its text.
SendOnce(d) ==
    /\ run[d].pc = "request" /\ run[d].req.tool # "doc"
    /\ \/ ~run[d].cancelled /\ Happened(d) /\ Outcome(d, TRUE, "succeeded")
       \/ ~run[d].cancelled /\ Happened(d) /\ Outcome(d, FALSE, "unknown")
       \/ ~run[d].cancelled /\ Outcome(d, FALSE, "rejected") /\ UNCHANGED done
       \/ Outcome(d, FALSE, "unknown") /\ UNCHANGED done
    /\ FeishuUnchanged /\ UNCHANGED <<action, disturbances>>

\* CreateDocumentAndAnnounce: the document, then its content, its owner, its URL.
CreateDocument(d) ==
    /\ run[d].pc = "request" /\ run[d].req.tool = "doc"
    /\ \/ ~run[d].cancelled /\ Happened(d) /\ Goto(d, "content")
       \/ ~run[d].cancelled /\ Happened(d) /\ Outcome(d, FALSE, "unknown")
       \/ ~run[d].cancelled /\ Outcome(d, FALSE, "rejected") /\ UNCHANGED done
       \/ Outcome(d, FALSE, "unknown") /\ UNCHANGED done
    /\ FeishuUnchanged /\ UNCHANGED <<action, disturbances>>

\* Convert and the batches of blocks use the context of the turn.
WriteContent(d) ==
    /\ run[d].pc = "content"
    /\ \E written \in BOOLEAN :
          /\ run[d].cancelled => ~written
          /\ run' = [run EXCEPT ![d].pc = "announce", ![d].written = written]
    /\ FeishuUnchanged /\ UNCHANGED <<action, done, disturbances>>

\* transferOwner and announceDocumentURL have contexts of their own.  When the
\* content was not written a failed announcement is an error of the whole call.
AnnounceDocument(d) ==
    /\ run[d].pc = "announce"
    /\ \/ Outcome(d, TRUE, "succeeded")
       \/ ~run[d].written /\ \E state \in {"rejected", "unknown"} : Outcome(d, FALSE, state)
    /\ FeishuUnchanged /\ UNCHANGED <<action, done, disturbances>>

Recorded(d) == [Row(d) EXCEPT !.state = run[d].state, !.ok = run[d].ok,
                              !.by = IF run[d].ok THEN d ELSE NoOne]

\* Execute's tail: Seal, then CompleteAction on the context of the turn.
CompleteAction(d) ==
    /\ run[d].pc = "complete"
    /\ Statement(d, Row(d).state \in {"claimed", "in_flight"} /\ SetRow(d, Recorded(d)),
                 UNCHANGED action, Answer(d, run[d].ok, Recorded(d).by), Fail(d))
    /\ FeishuUnchanged /\ UNCHANGED done
-----------------------------------------------------------------------------
(* Schedule tools.                                                         *)

\* Execute: the tool and the owner decide; then the tool's own checks of
\* arguments, cron and payload, all before the ledger is looked at.
Checked(d, tool) ==
    /\ run[d].pc = "check" /\ run[d].req.tool = tool
    /\ \/ Goto(d, "transaction")
       \/ Fail(d)
    /\ UNCHANGED <<action, toolCall, task, done, disturbances>>

create(d) == Checked(d, "create")
list(d) == Checked(d, "list")
\* Kind and owner of a task never change, so what update reads of the task
\* beforehand cannot go stale.
update(d) == Checked(d, "update")

\* checkCreateQuotaTx counts the owner's enabled tasks.
checkCreateQuotaTx == Cardinality({t \in DOMAIN task : task[t].enabled}) < Quota

\* A task with a fresh identity.
createTaskExec(d) ==
    task' = [t \in DOMAIN task \cup {d} |->
                IF t = d THEN [version |-> 1, enabled |-> TRUE] ELSE task[t]]

\* Mutant of CurrentVersion: the expected version is not compared.
AnyVersion(d) == run[d].req.tool = "update"

\* updateTaskTx refuses a version that is not the expected one.
CurrentVersion(d) == task[Seed].version = run[d].req.args

updateTaskTx == task' = [task EXCEPT ![Seed] = [version |-> @.version + 1, enabled |-> ~@.enabled]]

Stored(d) == toolCall[run[d].req.call]

\* claimToolCallTx found the row of an earlier delivery.
Replayed(d) == Stored(d).state # "none"

\* Mutant of Commit: the task is written outside the ledger's transaction.
CommitTaskFirst(d, change) ==
    /\ change /\ Happened(d)
    /\ \/ toolCall' = [toolCall EXCEPT ![run[d].req.call] =
                          [state |-> "succeeded", tool |-> run[d].req.tool,
                           args |-> run[d].req.args, ok |-> TRUE, by |-> d]]
       \/ UNCHANGED toolCall

\* completeToolCallTx: the change and the recorded result commit together.
Commit(d, change) ==
    /\ change /\ Happened(d)
    /\ toolCall' = [toolCall EXCEPT ![run[d].req.call] =
                       [state |-> "succeeded", tool |-> run[d].req.tool,
                        args |-> run[d].req.args, ok |-> TRUE, by |-> d]]

\* One transaction: claim or replay, change, complete.  Of a stored row only the
\* arguments are compared; a change that is refused rolls the claim back.
Transaction(d, tool, allowed, change) ==
    /\ run[d].pc = "transaction" /\ run[d].req.tool = tool
    /\ \/ /\ Replayed(d)
          /\ Statement(d, TRUE, TRUE,
                       Answer(d, Stored(d).args = run[d].req.args, Stored(d).by), Fail(d))
          /\ UNCHANGED <<toolCall, task, done>>
       \/ /\ ~Replayed(d) /\ allowed
          /\ Statement(d, Commit(d, change), UNCHANGED <<toolCall, task, done>>,
                       Answer(d, TRUE, d), Fail(d))
       \/ /\ ~Replayed(d) /\ ~allowed
          /\ Fail(d) /\ Calm
          /\ UNCHANGED <<toolCall, task, done>>
    /\ UNCHANGED action

CreateTaskForToolCall(d) == Transaction(d, "create", checkCreateQuotaTx, createTaskExec(d))
UpdateTaskForToolCall(d) == Transaction(d, "update", CurrentVersion(d), updateTaskTx)
ListOwnedTasksForToolCall(d) == Transaction(d, "list", TRUE, UNCHANGED task)
-----------------------------------------------------------------------------
(* The world around the handlers.                                          *)

Running(d) == run[d].pc \notin Ended

\* The attempt of the turn finishes: /cancel, /new, a timeout, App Server exit.
CancelTurn(d) ==
    /\ Running(d) /\ ~run[d].cancelled /\ Disturb
    /\ run' = [run EXCEPT ![d].cancelled = TRUE]
    /\ UNCHANGED <<action, toolCall, task, done>>

\* The process dies.  Rows that were claimed stay as they are: start-up only
\* reconciles rows of the schedule ledger, and no transaction commits one open.
Crash ==
    /\ \E d \in Deliveries : Running(d)
    /\ Disturb
    /\ run' = [d \in Deliveries |-> IF Running(d) THEN [run[d] EXCEPT !.pc = "lost"] ELSE run[d]]
    /\ UNCHANGED <<action, toolCall, task, done>>

Step(d) ==
    \/ GetCompletedAction(d) \/ ClaimAction(d) \/ Validate(d) \/ StartAction(d)
    \/ SendOnce(d) \/ CreateDocument(d) \/ WriteContent(d) \/ AnnounceDocument(d)
    \/ CompleteAction(d)
    \/ create(d) \/ list(d) \/ update(d)
    \/ CreateTaskForToolCall(d) \/ UpdateTaskForToolCall(d) \/ ListOwnedTasksForToolCall(d)

Next ==
    \/ \E d \in Deliveries : (\E r \in Requests : Deliver(d, r)) \/ Step(d) \/ CancelTurn(d)
    \/ Crash

Spec == Init /\ [][Next]_vars

\* Every request and statement has a deadline, so a handler that runs goes on.
FairSpec == Spec /\ \A d \in Deliveries : WF_vars(Step(d))
-----------------------------------------------------------------------------
(* Properties.                                                             *)

Rows == [state : Terminal \cup {"none", "claimed", "in_flight"}, tool : Tools \cup {"none"},
         args : Nat, ok : BOOLEAN, by : Deliveries \cup {NoOne}]
Tasks == [version : Nat, enabled : BOOLEAN]
Effects == [call : Calls, tool : Tools, args : Nat, by : Deliveries]
Progress == [pc : Ended \cup {"replay", "claim", "claimed", "start", "request", "content",
                              "announce", "complete", "check", "transaction"},
             req : Requests \cup {NoRow}, cancelled : BOOLEAN, written : BOOLEAN,
             ok : BOOLEAN, state : Terminal \cup {"none"}, by : Deliveries \cup {NoOne}]

\* Type invariant: the columns of the two ledgers, the owner's tasks and the
\* progress of every delivery have the values the code knows.
TypeOK ==
    /\ action \in [Calls -> Rows] /\ toolCall \in [Calls -> Rows]
    /\ Seed \in DOMAIN task /\ DOMAIN task \subseteq Deliveries \cup {Seed}
    /\ task \in [DOMAIN task -> Tasks]
    /\ run \in [Deliveries -> Progress]
    /\ \A d \in Deliveries : run[d].pc # "idle" => run[d].req \in Requests
    /\ done \subseteq Effects
    /\ disturbances \in 0 .. MaxDisturbances

KeyOf(r) == <<r.call, IF r.tool \in FeishuTools THEN "feishu" ELSE "schedule">>
Successes == {d \in Deliveries : run[d].pc = "answered" /\ run[d].ok}

Ledger == INSTANCE CallLedger WITH
    Keys <- {KeyOf(r) : r \in Requests},
    Arguments <- {r.args : r \in Requests},
    Results <- Deliveries,
    done <- {[key |-> KeyOf(e), args |-> e.args, result |-> e.by] : e \in done},
    told <- {[key |-> KeyOf(run[d].req), args |-> run[d].req.args, result |-> run[d].by] : d \in Successes}

\* Refinement: duplicates, crashes, cancels and lost answers included, a call
\* takes effect at most once, and every success that feishuaction.Execute or
\* scheduleaction.Execute returns for it is the result of that one effect.
LedgerSpec == Ledger!Spec

\* What is recorded is true: a row marked succeeded belongs to an effect with its
\* own arguments, and a message or file of a row marked rejected or
\* cancelled_before_send was never sent (documents: see DocumentNotDenied).
RowsAreTrue ==
    \A c \in Calls :
        /\ \A row \in {action[c], toolCall[c]} : row.state = "succeeded" =>
              [call |-> c, tool |-> row.tool, args |-> row.args, by |-> row.by] \in done
        /\ action[c].state \in {"rejected", "cancelled_before_send"} =>
              \A e \in done : e.call = c => e.tool \in ScheduleTools \cup {"doc"}

\* The tasks table and the schedule ledger never disagree: every task a tool
\* created, and every version of the owner's older task, is the work of exactly
\* the calls whose rows say so, whichever transaction failed or was replayed.
TasksMatchLedger ==
    /\ DOMAIN task \ {Seed} = {toolCall[c].by : c \in {b \in Calls : toolCall[b].tool = "create"}}
    /\ task[Seed].version = 1 + Cardinality({c \in Calls : toolCall[c].tool = "update"})

\* The two ledgers and the tasks tell what happened, and the same.
TablesAreTrue == RowsAreTrue /\ TasksMatchLedger

\* No version of a task is replaced twice: of the updates that expected the same
\* version at most one was answered or recorded as successful.
UpdatesSerialize ==
    \A a, b \in Calls :
        (toolCall[a].tool = "update" /\ toolCall[b].tool = "update" /\ toolCall[a].args = toolCall[b].args)
            => a = b

\* Liveness: every delivery is answered or dies with the process, also one that
\* finds its call claimed by a delivery that never finished.
DeliveriesEnd == []<>(\A d \in Deliveries : ~Running(d))

\* What the design document says of a document whose URL could not be sent: the
\* creation of the document is not turned into a failure.
DocumentNotDenied ==
    \A c \in Calls :
        (action[c].tool = "doc" /\ action[c].state = "rejected") =>
            ~\E e \in done : e.call = c /\ e.tool = "doc"
=============================================================================
