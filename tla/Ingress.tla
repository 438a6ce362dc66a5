------------------------------- MODULE Ingress -------------------------------
(***************************************************************************)
(* The way in: router.Handle from the Feishu event to the row of the        *)
(* message, the commands it answers itself, and what it hands to the        *)
(* channel worker.  Composes with Attachments, whose rows are staged in the *)
(* transaction that inserts the message and whose files the turn prepares.  *)
(*                                                                         *)
(* Feishu delivers an event at least once.  Only the delivery that inserts  *)
(* the row goes on, so the rest of Handle, the control and the turn are kept *)
(* per event.  The channel worker itself is reduced to what they meet: one  *)
(* batch at a time, and a control that cuts the queue, cancels the running  *)
(* context and then runs after it, is refused, or is lost with a worker     *)
(* that the idle timer stops.  ChannelWorker has the rest in detail, such as *)
(* a control that still runs beside the worker that replaced its own.       *)
(***************************************************************************)
EXTENDS Attachments

CONSTANTS
    Events,
    Inputs,             \* what each event may be: functions from Events to Kinds
    FilesOf             \* the attachments of an event, if it is an ordinary message

\* Bound that only keeps the instance finite.
CONSTANT MaxDeliveries  \* deliveries, first and repeated ones

Kinds == {"normal", "goal", "cancel", "new", "status", "help", "invalid"}

ASSUME IngressAssumption ==
    /\ Inputs \subseteq [Events -> Kinds] /\ MaxDeliveries \in Nat
    /\ FilesOf \in [Events -> Seq(Files)]
    /\ \A d, e \in Events : d # e => ToSet(FilesOf[d]) \cap ToSet(FilesOf[e]) = {}

VARIABLES
    kind,           \* ClassifyCommand
    msg,            \* rows of messages
    run,            \* what goes on about each event
    deliveries,     \* how often Feishu delivered an event
    effects,        \* how often it started a turn, cut the channel or reset the session
    replies         \* answers the user can see

inVars == <<kind, msg, run, deliveries, effects, replies>>
vars == <<attVars, inVars>>
-----------------------------------------------------------------------------
NoRow == [status |-> "none", effect |-> "none", reply |-> "none", code |-> ""]
NotRunning == [pc |-> "none", ok |-> FALSE, outcome |-> "", doubt |-> FALSE]

Init ==
    /\ AttInit
    /\ kind \in Inputs
    /\ msg = [e \in Events |-> NoRow]
    /\ run = [e \in Events |-> NotRunning]
    /\ deliveries = 0
    /\ effects = [e \in Events |-> 0]
    /\ replies = [e \in Events |-> 0]

Command(e) == kind[e] # "normal"
Attached(e) == IF kind[e] = "normal" THEN FilesOf[e] ELSE <<>>
At(e, p) == run[e].pc = p
Goto(e, p) == run' = [run EXCEPT ![e].pc = p]
Shown(e) == replies' = [replies EXCEPT ![e] = @ + 1]
Happened(e) == effects' = [effects EXCEPT ![e] = @ + 1]
input == <<kind, deliveries>>

\* A statement on the message rows.
Saved(done, next, failed) ==
    \/ done /\ next /\ NoFault
    \/ Fault /\ (done \/ UNCHANGED msg) /\ failed

\* CompleteMessage, FailMessage and RecordCommandReplyFailure.
CompleteMessage(e) ==
    msg' = [msg EXCEPT ![e] = [status |-> "succeeded", effect |-> "succeeded", reply |-> "sent", code |-> ""]]
FailMessage(e, c) ==
    msg' = [msg EXCEPT ![e] = [status |-> "failed", effect |-> IF Command(e) THEN "failed" ELSE @.effect,
                               reply |-> IF Command(e) THEN "sent" ELSE @.reply, code |-> c]]
RecordCommandReplyFailure(e) ==
    msg' = [msg EXCEPT ![e] = [status |-> "failed", effect |-> IF run[e].ok THEN "succeeded" ELSE "failed",
                               reply |-> run[e].outcome, code |-> "command_reply"]]
-----------------------------------------------------------------------------
(* Handle.                                                                 *)

\* The row of the message and those of its attachments, in one transaction.
InsertRows(e) ==
    LET pending == IF Command(e) THEN "pending" ELSE "none"
    IN  /\ msg' = [msg EXCEPT ![e] = [status |-> "received", effect |-> pending, reply |-> pending, code |-> ""]]
        /\ att' = [f \in Files |-> IF f \in ToSet(Attached(e)) THEN [att[f] EXCEPT !.state = "staged"] ELSE att[f]]

\* Mutant of PersistIncoming: an event whose row is still open is taken up again.
PersistIncomingAgain(e) ==
    \/ msg[e].status \in {"none", "received"} /\ InsertRows(e) /\ Goto(e, "route") /\ NoFault
    \/ msg[e].status = "none" /\ Fault /\ (InsertRows(e) \/ UNCHANGED <<msg, att>>) /\ UNCHANGED run
    \/ msg[e].status \notin {"none", "received"} /\ UNCHANGED <<msg, att, run, faults>>

\* PersistIncoming: the unique key of the event decides.  When it fails Handle
\* returns an error, whether or not the transaction was committed.
PersistIncoming(e) ==
    \/ msg[e].status = "none" /\ InsertRows(e) /\ Goto(e, "route") /\ NoFault
    \/ msg[e].status = "none" /\ Fault /\ (InsertRows(e) \/ UNCHANGED <<msg, att>>) /\ UNCHANGED run
    \/ msg[e].status # "none" /\ UNCHANGED <<msg, att, run, faults>>

\* Feishu delivers an event, for the first time or again.
Deliver(e) ==
    /\ life = "up" /\ deliveries < MaxDeliveries
    /\ deliveries' = deliveries + 1
    /\ PersistIncoming(e)
    /\ UNCHANGED <<disk, prep, ctxDone, cleaner, life, crashes, kind, effects, replies>>

\* Answer(e, ok): completeAndReply or failAndReply starts.
Answer(e, ok) == run' = [run EXCEPT ![e].pc = "card", ![e].ok = ok]

Busy(e) == run[e].pc \in {"prepare", "turn"}

\* submitControl: the queue is cut off and its rows are failed, the running
\* context is cancelled, the control waits for its turn.  When the rows cannot be
\* written the control stays queued although Handle returns the error.  A manager
\* that is closed or full and a worker that is stopping refuse it: Handle returns,
\* the row stays received and nobody answers.
SubmitControl(e) ==
    /\ At(e, "route") /\ kind[e] \in {"cancel", "new"}
    /\ LET cut == {d \in Events : At(d, "queued")}
       IN  \/ /\ run' = [d \in Events |-> IF d \in cut THEN [run[d] EXCEPT !.pc = "over"]
                                          ELSE IF d = e THEN [run[d] EXCEPT !.pc = "control"] ELSE run[d]]
              /\ ctxDone' = (\E d \in Events : Busy(d))
              /\ IF kind[e] = "cancel" THEN Happened(e) ELSE UNCHANGED effects
              /\ \/ NoFault /\ msg' = [d \in Events |-> IF d \in cut THEN [msg[d] EXCEPT !.status = "failed",
                                                                           !.code = "cancelled_by_command"] ELSE msg[d]]
                 \/ Fault /\ UNCHANGED msg
           \/ Goto(e, "dropped") /\ UNCHANGED <<faults, ctxDone, effects, msg>>
    /\ UNCHANGED <<att, disk, prep, cleaner, life, crashes, input, replies>>

byHandler == <<att, disk, prep, ctxDone, cleaner, life, crashes, input>>

\* The commands Handle answers itself; an account that cannot be read fails /status.
AnswerCommand(e) ==
    /\ At(e, "route")
    /\ \/ kind[e] = "help" /\ Answer(e, TRUE)
       \/ kind[e] = "invalid" /\ Answer(e, FALSE)
       \/ kind[e] = "status" /\ \E ok \in BOOLEAN : Answer(e, ok)
    /\ UNCHANGED <<byHandler, faults, msg, effects, replies>>

\* Mutant of Accept: a message that is refused is dropped.
AcceptSilently(e) ==
    /\ At(e, "route") /\ kind[e] \in {"normal", "goal"}
    /\ \E p \in {"queued", "over"} : Goto(e, p)
    /\ UNCHANGED <<byHandler, faults, msg, effects, replies>>

\* Manager.Accept takes the message, or refuses it.
Accept(e) ==
    /\ At(e, "route") /\ kind[e] \in {"normal", "goal"}
    /\ \/ Goto(e, "queued")
       \/ kind[e] = "goal" /\ Answer(e, FALSE)
       \/ kind[e] = "normal" /\ Goto(e, "refused")
    /\ UNCHANGED <<byHandler, faults, msg, effects, replies>>

\* Sender.SendText, whose result the caller does not look at.
SendText(e) == Shown(e) \/ UNCHANGED replies

\* An ordinary message that is refused, or that finds no App Server: FailMessage
\* first, then a text whose fate is not looked at.
Refuse(e) ==
    /\ At(e, "refused")
    /\ \/ FailMessage(e, "worker_rejected") /\ NoFault /\ SendText(e)
       \/ Fault /\ (FailMessage(e, "worker_rejected") \/ UNCHANGED msg) /\ UNCHANGED replies
    /\ Goto(e, "over")
    /\ UNCHANGED <<byHandler, effects>>
-----------------------------------------------------------------------------
(* completeAndReply and failAndReply.                                      *)

Outcome(e, o) == run' = [run EXCEPT ![e].pc = "store", ![e].outcome = o]

\* The card.  A rejection is followed by a text; the adapter also calls rejected
\* a card that was accepted without a message identifier (doubt).  An unknown
\* fate is recorded and nothing more is sent.
SendStaticCard(e) ==
    /\ At(e, "card")
    /\ \/ Shown(e) /\ Outcome(e, "sent")
       \/ UNCHANGED replies /\ Goto(e, "text")
       \/ Shown(e) /\ run' = [run EXCEPT ![e].pc = "text", ![e].doubt = TRUE]
       \/ (Shown(e) \/ UNCHANGED replies) /\ Outcome(e, "unknown")
    /\ UNCHANGED <<byHandler, faults, msg, effects>>

\* The text that replaces a rejected card.
SendCommandText(e) ==
    /\ At(e, "text")
    /\ \/ Shown(e) /\ Outcome(e, "sent")
       \/ UNCHANGED replies /\ Outcome(e, "rejected")
       \/ (Shown(e) \/ UNCHANGED replies) /\ Outcome(e, "unknown")
    /\ UNCHANGED <<byHandler, faults, msg, effects>>

\* What the row is told about the command and about its answer.
RecordReply(e) ==
    IF run[e].outcome = "sent" THEN IF run[e].ok THEN CompleteMessage(e) ELSE FailMessage(e, "command_failed")
    ELSE RecordCommandReplyFailure(e)

\* The last call of either; its error is Handle's, or the control's OnError.
StoreReply(e) ==
    /\ At(e, "store")
    /\ Saved(RecordReply(e), Goto(e, "over"),
             Goto(e, IF kind[e] \in {"cancel", "new"} THEN "onerror" ELSE "over"))
    /\ UNCHANGED <<byHandler, effects, replies>>
-----------------------------------------------------------------------------
(* The channel worker, as far as Handle meets it.                          *)

\* The goroutine of the worker runs a batch or a control.
Idle ==
    \A d \in Events :
        /\ ~Busy(d) /\ ~At(d, "failing")
        /\ kind[d] \in {"cancel", "new"} => run[d].pc \notin {"card", "text", "store", "onerror"}

\* processControl: Control.Run, for /new with NewSession.  One that returns an error
\* may have archived the thread or cleared the pointer before.
RunControl(e) ==
    /\ At(e, "control") /\ Idle
    /\ \/ kind[e] = "cancel" /\ Answer(e, TRUE) /\ UNCHANGED effects
       \/ kind[e] = "new" /\ Answer(e, TRUE) /\ Happened(e)
       \/ kind[e] = "new" /\ Answer(e, FALSE) /\ (Happened(e) \/ UNCHANGED effects)
    /\ UNCHANGED <<byHandler, faults, msg, replies>>

\* The idle timer, which looks at the queue and not at the controls, stops the
\* worker before it woke up for this one.
LoseControl(e) ==
    /\ At(e, "control") /\ Idle
    /\ Goto(e, "dropped")
    /\ UNCHANGED <<byHandler, faults, msg, effects, replies>>

\* Control.OnError: FailMessage, whose error is ignored.
OnError(e) ==
    /\ At(e, "onerror")
    /\ Saved(FailMessage(e, "command_control_failed"), Goto(e, "over"), Goto(e, "over"))
    /\ UNCHANGED <<byHandler, effects, replies>>

\* A batch begins: MarkProcessing, whose error is ignored, then the attachments or
\* the turn.
StartBatch(e) ==
    /\ At(e, "queued") /\ Idle /\ ~\E d \in Events : At(d, "control")
    /\ Saved(msg' = [msg EXCEPT ![e].status = "processing"], TRUE, TRUE)
    /\ ctxDone' = FALSE
    /\ IF Attached(e) = <<>>
       THEN Goto(e, "turn") /\ Happened(e) /\ UNCHANGED prep
       ELSE Goto(e, "prepare") /\ prep' = [pc |-> "load", left |-> Attached(e)] /\ UNCHANGED effects
    /\ UNCHANGED <<att, disk, cleaner, life, crashes, input, replies>>

\* Mutant of AfterPrepare: a failed preparation is not noticed.
AfterPrepareOk(e) ==
    /\ At(e, "prepare") /\ prep.pc = "ok"
    /\ Goto(e, "turn") /\ Happened(e) /\ prep' = NoPrep
    /\ UNCHANGED <<att, disk, ctxDone, cleaner, life, crashes, faults, input, msg, replies>>

\* Prepare returned: the turn starts with every file, or the batch fails.
AfterPrepare(e) ==
    /\ At(e, "prepare") /\ prep.pc \in {"ok", "error"}
    /\ IF prep.pc = "ok" THEN Goto(e, "turn") /\ Happened(e) ELSE Goto(e, "failing") /\ UNCHANGED effects
    /\ prep' = NoPrep
    /\ UNCHANGED <<att, disk, ctxDone, cleaner, life, crashes, faults, input, msg, replies>>

\* The turn is over; CompleteBatch, which wants a row that is processing, or
\* FailBatch; their errors are ignored.
EndBatch(e) ==
    /\ run[e].pc \in {"turn", "failing"}
    /\ \E s \in {"succeeded", "failed"} :
          /\ run[e].pc = "failing" => s = "failed"
          /\ Saved(IF s = "succeeded" /\ msg[e].status # "processing" THEN UNCHANGED msg
                   ELSE msg' = [msg EXCEPT ![e].status = s], Goto(e, "over"), Goto(e, "over"))
    /\ ctxDone' = FALSE
    /\ UNCHANGED <<att, disk, prep, cleaner, life, crashes, input, effects, replies>>

\* The process dies: nothing of what went on is taken up again.
Crash ==
    /\ AttCrash
    /\ run' = [e \in Events |-> IF msg[e].status = "none" THEN run[e] ELSE [run[e] EXCEPT !.pc = "over"]]
    /\ UNCHANGED <<input, msg, effects, replies>>

Handle(e) ==
    \/ SubmitControl(e) \/ AnswerCommand(e) \/ Accept(e) \/ Refuse(e)
    \/ SendStaticCard(e) \/ SendCommandText(e) \/ StoreReply(e)
    \/ RunControl(e) \/ LoseControl(e) \/ OnError(e) \/ StartBatch(e) \/ AfterPrepare(e) \/ EndBatch(e)

\* A step of Prepare, of the cleaner, or of the calendar.
FileStep == UNCHANGED inVars /\ (Prepare \/ CleanerRun \/ Expire)
Restart == UNCHANGED inVars /\ AttRestart

Next ==
    \/ \E e \in Events : Deliver(e) \/ Handle(e)
    \/ FileStep \/ Restart \/ Crash

Spec == Init /\ [][Next]_vars

\* Every call has a deadline, the turn too, the supervisor restarts the process,
\* and the ticker starts the cleaner again.  Nobody has to deliver anything.
FairSpec ==
    /\ Spec /\ WF_vars(Restart)
    /\ WF_vars(UNCHANGED inVars /\ Prepare) /\ WF_vars(UNCHANGED inVars /\ CleanerRun)
    /\ \A e \in Events : WF_vars(Handle(e))
-----------------------------------------------------------------------------
(* Properties.                                                             *)

MessageRows ==
    [status : {"none", "received", "processing", "succeeded", "failed"},
     effect : {"none", "pending", "succeeded", "failed"},
     reply : {"none", "pending", "sent", "rejected", "unknown"},
     code : {"", "cancelled_by_command", "worker_rejected", "command_failed", "command_reply",
             "command_control_failed"}]
Progress ==
    [pc : {"none", "route", "control", "card", "text", "store", "onerror", "refused", "queued",
           "prepare", "turn", "failing", "over", "dropped"},
     ok : BOOLEAN, outcome : {"", "sent", "rejected", "unknown"}, doubt : BOOLEAN]

\* Type invariant: the rows and the steps take only the values the code gives.
TypeOK ==
    /\ AttTypeOK
    /\ kind \in Inputs /\ deliveries \in 0 .. MaxDeliveries
    /\ msg \in [Events -> MessageRows] /\ run \in [Events -> Progress]
    /\ effects \in [Events -> Nat] /\ replies \in [Events -> Nat]

\* However often an event is delivered, before or after a failure or a restart, it
\* starts at most one turn, cuts the channel at most once, resets the session at
\* most once, and the user gets at most one answer: the text fallback never
\* follows a card that may be visible, except one accepted without an identifier.
OncePerEvent ==
    \A e \in Events : effects[e] <= 1 /\ replies[e] <= IF run[e].doubt THEN 2 ELSE 1

\* What the row of a command says of its effect and of its answer is what happened.
\* OnError is left out: its FailMessage claims a failed effect and a sent answer
\* whatever happened before.  A failed /new is left out too: the session may have
\* been reset although row and answer say that it was kept.
CommandRowsTrue ==
    \A e \in Events : Command(e) /\ msg[e].code # "command_control_failed" =>
        /\ msg[e].reply = "sent" => replies[e] >= 1
        /\ msg[e].reply = "rejected" => replies[e] = 0 \/ run[e].doubt
        /\ kind[e] \in {"cancel", "new"} /\ msg[e].effect = "succeeded" => effects[e] = 1

\* Unless a call failed or the process died, a message that is open is in
\* somebody's hands: Handle, the queue, the control, the turn.  The exception is a
\* /cancel or a /new that was refused or lost with its worker: its row stays
\* received, its answer pending, and a repeated delivery does not take it up.
OpenIsOwned ==
    \A e \in Events :
        (faults + crashes = 0 /\ msg[e].status \in {"received", "processing"}) =>
            \/ run[e].pc \notin {"none", "over", "dropped"}
            \/ /\ kind[e] \in {"cancel", "new"} /\ At(e, "dropped")
               /\ msg[e].status = "received" /\ msg[e].reply = "pending" /\ replies[e] = 0

\* The row of a message can be relied on: a command's tells what happened, an
\* open one has somebody who will end it, or is that of a dropped control.
RowsCanBeTrusted == CommandRowsTrue /\ OpenIsOwned

\* A turn never starts without its files: every attachment of its message is ready
\* (or past its deadline) and was on disk when Prepare returned.
TurnHasFiles ==
    \A e \in Events : At(e, "turn") =>
        \A f \in ToSet(Attached(e)) : att[f].path /\ (att[f].due = "future" => disk[f] = "payload")

\* The files are where the rows and the turn expect them.
FilesAreThere == FilesMatchRows /\ TurnHasFiles

\* Liveness: what Handle began comes to an end (for a control also that it is
\* dropped), the process is up again, and files past their deadline leave the table
\* (a row stays deleting when the run that marked it was cut short).
IngressSettles ==
    []<>(/\ \A e \in Events : run[e].pc \in {"none", "over", "dropped"}
         /\ life = "up"
         /\ \A f \in Files : att[f].due = "past" => att[f].state = "deleted" \/ faults + crashes > 0)
=============================================================================
