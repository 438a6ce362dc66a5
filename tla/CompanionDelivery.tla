-------------------------- MODULE CompanionDelivery --------------------------
(***************************************************************************)
(* One batch of a channel in companion mode: the turn, the segments of its  *)
(* final answer, and the three things that may interfere: a /cancel or /new *)
(* (submitControl), a shutdown (submitControl, then Manager.Cancel, then    *)
(* Close), and the death of the process followed by a restart.              *)
(*                                                                         *)
(* The worker goroutine (processCompanion) shares two small objects with    *)
(* them: the TerminalArbiter, which keeps the first reason claimed for the  *)
(* end of the batch, and the DeliverySlot, which publishes a context for    *)
(* the sends and lets a canceller wait.  The messages of the batch change   *)
(* in one transaction, so one row stands for them.                          *)
(***************************************************************************)
EXTENDS CompanionText, FiniteSets

CONSTANT Texts              \* final answers the turn may produce

\* Bounds that only keep the instance finite.
CONSTANTS
    MaxInterferences,   \* controls, shutdowns and crashes together
    MaxFailures         \* failed database calls and trace writes together

ASSUME CompanionAssumption ==
    /\ Texts \subseteq Seq(Tokens)
    /\ MaxInterferences \in Nat /\ MaxFailures \in Nat

\* The final answers with their segments.
Answers == {[text |-> text, segs |-> SplitCompanion(text)] : text \in Texts}

\* What the delivery needs of the splitting: a list of segments that, read one
\* after the other, are the text.
ASSUME SplittingAssumption ==
    \A text \in Texts :
        /\ SplitCompanion(text) \in Seq(Seq(Nat))
        /\ KeepsText(text, SplitCompanion(text))

VARIABLES
    w,              \* locals of processCompanion
    row,            \* the messages of the batch
    reason,         \* TerminalArbiter, "" while nobody claimed
    slot,           \* DeliverySlot
    closed,         \* Manager.Close: the context of the worker is cancelled
    stop,           \* the goroutine of Shutdown
    visible,        \* segments the user can see
    notices,        \* fixed texts the user can see
    controlAt,      \* how many segments were visible when a control came
    interferences, failures

vars == <<w, row, reason, slot, closed, stop, visible, notices, controlAt, interferences, failures>>
others == <<closed, stop, controlAt, interferences>>
shared == <<reason, slot, others>>
seen == <<visible, notices>>
-----------------------------------------------------------------------------
NoControl == 99

Init ==
    /\ w = [pc |-> "picked", err |-> "", marked |-> FALSE, text |-> <<>>, segs |-> <<>>,
            i |-> 0, tries |-> 0, last |-> "", rejected |-> 0, empty |-> FALSE]
    /\ row = [status |-> "received", stage |-> "none", code |-> ""]
    /\ reason = ""
    /\ slot = [set |-> FALSE, started |-> FALSE, cancelled |-> FALSE,
               ctx |-> "none", finished |-> FALSE]
    /\ closed = FALSE
    /\ stop = "idle"
    /\ visible = <<>> /\ notices = 0 /\ controlAt = NoControl
    /\ interferences = 0 /\ failures = 0

Interfere == interferences < MaxInterferences /\ interferences' = interferences + 1
Fault == failures < MaxFailures /\ failures' = failures + 1
Calm == UNCHANGED failures

At(p) == w.pc = p
Goto(p) == w' = [w EXCEPT !.pc = p]
\* err is set: the rest of the attempt is skipped.
Failed(e) == w' = [w EXCEPT !.pc = "settle", !.err = e]

\* TerminalArbiter.Claim
Claim(r) == reason' = IF reason = "" THEN r ELSE reason

\* A database call: made and answered, made although the answer is lost, or not
\* made, which is certain once its context is done.
Stored(done, made, next, failed) ==
    \/ ~done /\ made /\ next /\ Calm
    \/ ~done /\ Fault /\ made /\ failed
    \/ (IF done THEN Calm ELSE Fault) /\ UNCHANGED row /\ failed

Open == row.status \in {"received", "processing"}
Started == row.status = "processing" /\ row.stage = "started"
-----------------------------------------------------------------------------
(* processCompanion.                                                       *)

\* setCompanionControl, from here Manager.Cancel sees the slot.
SetCompanionControl ==
    /\ At("picked")
    /\ slot' = [slot EXCEPT !.set = TRUE]
    /\ Goto("mark")
    /\ UNCHANGED <<row, reason, others, seen, failures>>

\* outputFor failed: the batch is failed without a turn, unless that call fails
\* too.  clearActive is not deferred on this path.
OutputUnavailable ==
    /\ At("mark") /\ Fault
    /\ \/ ~closed /\ row' = [row EXCEPT !.status = "failed", !.code = "output_unavailable"]
       \/ UNCHANGED row
    /\ w' = [w EXCEPT !.pc = "finish", !.err = "output"]
    /\ UNCHANGED <<shared, seen>>

\* MarkProcessing, its error is ignored; setActive starts the turn.
StartTurn ==
    /\ At("mark")
    /\ Stored(closed, row' = [row EXCEPT !.status = "processing"], Goto("turn"), Goto("turn"))
    /\ UNCHANGED <<shared, seen>>

\* The processor returned.  A cancel that was claimed wins over its result.
TurnEnds ==
    /\ At("turn")
    /\ \/ /\ reason = "cancelled"
          /\ Failed("cancelled") /\ UNCHANGED reason
       \/ /\ reason = ""
          /\ \E a \in Answers :
                w' = [w EXCEPT !.pc = "marker", !.text = a.text, !.empty = a.segs = <<>>,
                               !.segs = IF a.segs = <<>> THEN << <<>> >> ELSE a.segs]
          /\ UNCHANGED reason
       \/ reason = "" /\ Failed("turn") /\ Claim("processor_failed")
       \/ reason = "" /\ w' = [w EXCEPT !.pc = "timeout", !.err = "deadline"] /\ Claim("processor_failed")
    /\ UNCHANGED <<row, slot, others, seen, failures>>

\* The turn ran into ProcessTimeout: a notice, then FailBatch.
TurnTimedOut ==
    /\ At("timeout")
    /\ notices' = IF closed THEN notices ELSE notices + 1
    /\ Stored(closed, IF Open THEN row' = [row EXCEPT !.status = "failed", !.code = "worker_timeout_stopped"]
              ELSE UNCHANGED row, Goto("settle"), Goto("settle"))
    /\ UNCHANGED <<shared, visible>>

\* Mutant of MarkStarted: the delivery begins without its durable marker.
MarkStartedLater ==
    /\ At("marker")
    /\ w' = [w EXCEPT !.pc = "publish", !.marked = TRUE]
    /\ slot' = [slot EXCEPT !.started = TRUE]
    /\ UNCHANGED <<row, reason, others, seen, failures>>

\* MarkCompanionDeliveryStarted and DeliverySlot.Begin.
MarkStarted ==
    /\ At("marker")
    /\ \/ /\ row.status = "processing" /\ row.stage = "none"
          /\ Stored(closed, row' = [row EXCEPT !.stage = "started"],
                    /\ w' = [w EXCEPT !.pc = "publish", !.marked = TRUE]
                    /\ slot' = [slot EXCEPT !.started = TRUE],
                    Failed("marker") /\ UNCHANGED slot)
       \/ /\ row.status # "processing"
          /\ Failed("marker") /\ Calm /\ UNCHANGED <<row, slot>>
    /\ UNCHANGED <<reason, others, seen>>

\* Mutant of Publish: a cancel that came before is forgotten.
PublishAnyway ==
    /\ At("publish")
    /\ slot' = [slot EXCEPT !.ctx = "live"]
    /\ w' = [w EXCEPT !.pc = "segment", !.i = 1]
    /\ UNCHANGED <<row, reason, others, seen, failures>>

\* DeliverySlot.Publish: refused when a canceller was first.
Publish ==
    /\ At("publish")
    /\ IF slot.cancelled \/ ~slot.started THEN Failed("cancelled") /\ UNCHANGED slot
       ELSE /\ slot' = [slot EXCEPT !.ctx = "live"]
            /\ w' = [w EXCEPT !.pc = "segment", !.i = 1]
    /\ UNCHANGED <<row, reason, others, seen, failures>>

\* The context of the sends: cancelled through the slot or with the worker.
DeliveryDone == slot.ctx = "done" \/ closed

\* The pause before a segment ends early when the context does.
PauseCut ==
    /\ At("segment") /\ DeliveryDone /\ w.i > 1 /\ w.tries = 0
    /\ Failed("cancelled")
    /\ UNCHANGED <<row, shared, seen, failures>>

Result(outcome) == w' = [w EXCEPT !.pc = "record", !.last = outcome]
Shown == visible' = Append(visible, w.i)

\* SendCompanionSegment, up to the request: none is made on a context that is done.
BeginSend ==
    /\ At("segment")
    /\ IF DeliveryDone THEN Result("cancelled") ELSE Goto("sending")
    /\ UNCHANGED <<row, shared, seen, failures>>

\* The answer of Feishu.  The request may be accepted although its answer is lost,
\* or not waited for because the context was cancelled meanwhile.
SegmentAnswered ==
    /\ At("sending")
    /\ \/ Shown /\ Result("sent")
       \/ Result("rejected") /\ UNCHANGED visible
       \/ Result("rate_limited") /\ UNCHANGED visible
       \/ (Shown \/ UNCHANGED visible) /\ Result("unknown")
       \/ DeliveryDone /\ (Shown \/ UNCHANGED visible) /\ Result("cancelled")
    /\ UNCHANGED <<row, shared, notices, failures>>

\* The next round of the loop over the segments.
NextSegment(r) == w' = [w EXCEPT !.pc = IF w.i = Len(w.segs) THEN "complete" ELSE "segment",
                                 !.i = @ + 1, !.tries = 0, !.rejected = @ + r]

\* Mutant of AfterSegment: a segment whose fate is unknown is sent once more.
AfterSegmentRetry ==
    \/ w.last \in {"rate_limited", "unknown"} /\ w.tries = 0
       /\ w' = [w EXCEPT !.pc = "segment", !.tries = 1] /\ UNCHANGED reason
    \/ w.last = "sent" /\ NextSegment(0) /\ UNCHANGED reason
    \/ w.last \in {"rejected", "rate_limited"} /\ (w.last = "rejected" \/ w.tries = 1)
       /\ NextSegment(1) /\ UNCHANGED reason
    \/ w.last = "unknown" /\ w.tries = 1 /\ Failed("unknown") /\ Claim("unknown_send")
    \/ w.last = "cancelled" /\ Failed("cancelled") /\ Claim("cancelled")

\* What the loop does with a recorded result; only a rate limit is tried again.
AfterSegment ==
    \/ w.last = "rate_limited" /\ w.tries = 0
       /\ w' = [w EXCEPT !.pc = "segment", !.tries = 1] /\ UNCHANGED reason
    \/ w.last = "sent" /\ NextSegment(0) /\ UNCHANGED reason
    \/ w.last \in {"rejected", "rate_limited"} /\ (w.last = "rejected" \/ w.tries = 1)
       /\ NextSegment(1) /\ UNCHANGED reason
    \/ w.last = "unknown" /\ Failed("unknown") /\ Claim("unknown_send")
    \/ w.last = "cancelled" /\ Failed("cancelled") /\ Claim("cancelled")

\* recordCompanionSegment: a trace that cannot be written ends the delivery.
RecordSegment ==
    /\ At("record")
    /\ \/ AfterSegment /\ Calm
       \/ Fault /\ Failed("trace") /\ Claim("workflow_trace_failed")
    /\ UNCHANGED <<row, slot, others, seen>>

SummaryCode ==
    IF w.empty THEN "companion_final_empty"
    ELSE IF w.rejected = 0 THEN ""
    ELSE IF w.rejected = Len(w.segs) THEN "companion_segment_delivery_none"
    ELSE "companion_segment_delivery_partial"

\* A shutdown or a control that claimed the end first leaves the summary out.
DecideCompletion ==
    /\ At("complete")
    /\ Goto(IF reason = "" THEN "summary" ELSE "plain")
    /\ UNCHANGED <<row, shared, seen, failures>>

\* CompleteCompanionDelivery, on the context of the delivery.
CompleteDelivery ==
    /\ At("summary")
    /\ Stored(DeliveryDone \/ ~Started,
              row' = [status |-> "succeeded", stage |-> "none", code |-> SummaryCode],
              Goto("finish") /\ Claim("completed"), 
              Failed(IF DeliveryDone THEN "cancelled" ELSE "complete") /\ UNCHANGED reason)
    /\ UNCHANGED <<slot, others, seen>>

\* lifecycle.Complete: CompleteBatch, which leaves delivery_stage and error_code.
CompletePlain ==
    /\ At("plain")
    /\ Stored(DeliveryDone \/ row.status # "processing",
              row' = [row EXCEPT !.status = "succeeded"], Goto("finish"), Goto("finish"))
    /\ UNCHANGED <<shared, seen>>

FailureCode ==
    IF w.err = "trace" THEN "companion_delivery_trace_incomplete"
    ELSE IF w.err = "unknown" THEN "companion_segment_delivery_unknown"
    ELSE IF w.err = "cancelled" THEN "companion_delivery_cancelled"
    ELSE "companion_delivery_failed"

\* FailCompanionDelivery, on the worker's context; its error is ignored.
SettleMarked ==
    /\ At("settle") /\ w.marked
    /\ Stored(closed \/ ~Started,
              row' = [status |-> "failed", stage |-> "none", code |-> FailureCode], Goto("finish"), Goto("finish"))
    /\ UNCHANGED <<shared, seen>>

\* Nothing of the delivery was marked: a notice, then FailBatch.
SettleUnmarked ==
    /\ At("settle") /\ ~w.marked
    /\ notices' = IF closed THEN notices ELSE notices + 1
    /\ Stored(closed \/ ~Open,
              row' = [row EXCEPT !.status = "failed", !.code = "companion_batch_failed"], Goto("finish"), Goto("finish"))
    /\ UNCHANGED <<shared, visible>>

\* Mutant of Finish: the slot is not finished on the way out.
FinishWithoutSlot ==
    /\ At("finish") /\ Goto("ended")
    /\ UNCHANGED <<row, shared, seen, failures>>

\* The deferred calls: clearActive (but see DoneOpen), DeliverySlot.Finish,
\* clearCompanionControl.
Finish ==
    /\ At("finish") /\ Goto("ended")
    /\ slot' = [slot EXCEPT !.finished = TRUE, !.ctx = IF @ = "live" THEN "done" ELSE @]
    /\ UNCHANGED <<row, reason, others, seen, failures>>
-----------------------------------------------------------------------------
(* Interference.                                                           *)

Alive == w.pc \notin {"ended", "dead", "restarted"}

\* activeDone, which nextBatch made, is open: clearActive closes it at the end of
\* the batch, and never that of a batch without output.
DoneOpen == Alive \/ (w.pc = "ended" /\ w.err = "output")

\* submitControl of /cancel or /new: claims the end and cancels the turn.
SubmitControl ==
    /\ Alive /\ stop = "idle" /\ controlAt = NoControl /\ Interfere
    /\ Claim("cancelled")
    /\ controlAt' = Len(visible)
    /\ UNCHANGED <<w, row, slot, closed, stop, seen, failures>>

\* Shutdown: submitControl in a goroutine of its own.
BeginShutdown ==
    /\ Alive /\ stop = "idle" /\ Interfere
    /\ Claim("cancelled") /\ stop' = "submitted"
    /\ UNCHANGED <<w, row, slot, closed, controlAt, seen, failures>>

\* Manager.Cancel, first part: claim, and cancel the slot if there is one.  Of a
\* batch that ended it finds neither, but perhaps its activeDone.
CancelSlot ==
    /\ stop = "submitted"
    /\ IF Alive
       THEN /\ Claim("cancelled")
            /\ stop' = IF slot.set THEN "slot" ELSE "turn"
            /\ slot' = IF slot.set THEN [slot EXCEPT !.cancelled = TRUE, !.ctx = IF @ = "live" THEN "done" ELSE @]
                       ELSE slot
       ELSE stop' = (IF DoneOpen THEN "turn" ELSE "acked") /\ UNCHANGED <<reason, slot>>
    /\ UNCHANGED <<w, row, closed, controlAt, interferences, seen, failures>>

\* Manager.Cancel, second part: the slot is finished and activeDone closed.
CancelReturns ==
    /\ stop \in {"slot", "turn"} /\ w.pc = "ended" /\ ~DoneOpen /\ (stop = "slot" => slot.finished)
    /\ stop' = "acked"
    /\ UNCHANGED <<w, row, reason, slot, closed, controlAt, interferences, seen, failures>>

\* Shutdown ran out of time or was answered by every worker: Close.
Close ==
    /\ stop # "idle" /\ ~closed
    /\ closed' = TRUE
    /\ stop' = IF stop = "acked" THEN stop ELSE "gaveup"
    /\ UNCHANGED <<w, row, reason, slot, controlAt, interferences, seen, failures>>

Crash ==
    /\ w.pc \notin {"dead", "restarted"} /\ Interfere
    /\ Goto("dead") /\ stop' = "idle"
    /\ UNCHANGED <<row, reason, slot, closed, controlAt, seen, failures>>

\* ReconcileAbandonedCompanionDeliveries, before anything else is started.
Restart ==
    /\ At("dead") /\ Goto("restarted")
    /\ row' = IF Started THEN [status |-> "failed", stage |-> "none", code |-> "companion_delivery_abandoned"]
              ELSE row
    /\ UNCHANGED <<shared, seen, failures>>

Work ==
    \/ SetCompanionControl \/ OutputUnavailable \/ StartTurn \/ TurnEnds \/ TurnTimedOut
    \/ MarkStarted \/ Publish \/ PauseCut \/ BeginSend \/ SegmentAnswered \/ RecordSegment
    \/ DecideCompletion \/ CompleteDelivery \/ CompletePlain \/ SettleMarked \/ SettleUnmarked \/ Finish

Next ==
    \/ Work \/ SubmitControl \/ BeginShutdown \/ CancelSlot \/ CancelReturns \/ Close
    \/ Crash \/ Restart

Spec == Init /\ [][Next]_vars

\* The turn has a deadline, a send five seconds, a pause its delay; the waiting
\* goroutine runs when what it waits for is over.  Nobody has to press /cancel,
\* and Shutdown's own deadline is not counted on.
FairSpec == Spec /\ WF_vars(Work) /\ WF_vars(CancelSlot) /\ WF_vars(CancelReturns) /\ WF_vars(Restart)
-----------------------------------------------------------------------------
(* Properties.                                                             *)

Places == {"picked", "mark", "turn", "timeout", "marker", "publish", "segment", "sending", "record", "complete",
           "summary", "plain", "settle", "finish", "ended", "dead", "restarted"}
Errors == {"", "output", "turn", "deadline", "marker", "cancelled", "unknown", "trace", "complete"}
Outcomes == {"", "sent", "rejected", "rate_limited", "unknown", "cancelled"}
Codes == {"", "output_unavailable", "worker_timeout_stopped", "companion_final_empty", "companion_segment_delivery_none",
          "companion_segment_delivery_partial", "companion_delivery_trace_incomplete", "companion_segment_delivery_unknown",
          "companion_delivery_cancelled", "companion_delivery_failed", "companion_batch_failed",
          "companion_delivery_abandoned"}

Workers == [pc : Places, err : Errors, marked : BOOLEAN, text : Texts \cup {<<>>}, segs : Seq(Seq(Nat)),
            i : Nat, tries : 0 .. 1, last : Outcomes, rejected : Nat, empty : BOOLEAN]
Rows == [status : {"received", "processing", "succeeded", "failed"}, stage : {"none", "started"}, code : Codes]
Reasons == {"", "cancelled", "processor_failed", "workflow_trace_failed", "unknown_send", "completed"}
Slots == [set : BOOLEAN, started : BOOLEAN, cancelled : BOOLEAN, ctx : {"none", "live", "done"}, finished : BOOLEAN]

Stops == {"idle", "submitted", "slot", "turn", "acked", "gaveup"}

\* Type invariant: the row, the arbiter, the slot and the worker take only the
\* values the code gives them.
TypeOK ==
    /\ w \in Workers /\ row \in Rows /\ reason \in Reasons /\ slot \in Slots
    /\ closed \in BOOLEAN
    /\ stop \in Stops
    /\ visible \in Seq(Nat) /\ notices \in Nat /\ controlAt \in Nat
    /\ interferences \in 0 .. MaxInterferences /\ failures \in 0 .. MaxFailures

\* Every segment is seen at most once and in its order, although one request may
\* be repeated and any of them may have been accepted without an answer.
SegmentsOnceInOrder ==
    \A a, b \in DOMAIN visible : a < b => visible[a] < visible[b]

\* A batch recorded as succeeded without a code showed the whole final answer:
\* splitting and sending lost no rune and moved none (a canceller that claimed the
\* end during the delivery makes lifecycle.Complete drop the code).
WholeAnswerShown ==
    (row.status = "succeeded" /\ row.code = "" /\ reason # "cancelled") =>
        KeepsText(w.text, [k \in DOMAIN visible |-> w.segs[visible[k]]])

\* The user sees the answer once, in order, and whole when it is recorded so.
AnswerShownOnce == SegmentsOnceInOrder /\ WholeAnswerShown

\* Whatever is visible is known to the database: at any point where the process
\* may die the batch carries the marker start-up looks for, or is finished.
VisibleIsMarked ==
    visible # <<>> => row.stage = "started" \/ row.status \in {"succeeded", "failed"}

\* A batch that ended without a failed database call before the manager was
\* closed left no message open, whatever cancelled it and whenever, with one
\* exception: a slot that is latched after the last segment was sent makes
\* lifecycle.Complete run on a context that is done, and its error is ignored.
EndedMeansSettled ==
    (w.pc = "ended" /\ failures = 0 /\ ~closed /\ ~(slot.cancelled /\ w.i > Len(w.segs))) =>
        row.status \in {"succeeded", "failed"}

\* The row tells the truth to whoever reads it next: start-up knows of everything
\* that became visible, and a batch that ended is not left open.
RowTellsTheTruth == VisibleIsMarked /\ EndedMeansSettled

\* A stop is quiet.  Once Manager.Cancel latched the slot, before or after its
\* context was published, no request for a segment is begun and only the one
\* under way may still become visible; when Manager.Cancel has returned, the batch
\* shows nothing more, neither a segment nor a notice.
StopsAreQuiet ==
    [][/\ slot.cancelled /\ ~At("sending") => w'.pc # "sending" /\ visible' = visible
       /\ stop = "acked" => UNCHANGED seen]_vars

\* Liveness: the batch ends or start-up deals with it, and a shutdown that waits
\* for the batch is released by it - unless the batch had no output: nobody closes
\* its activeDone, and only the deadline of Shutdown ends that wait.
BatchEnds ==
    []<>(/\ w.pc \in {"ended", "restarted"}
         /\ stop \in {"submitted", "slot", "turn"} => w.err = "output" /\ stop # "submitted")

\* What the design document asks of /cancel and /new: of a delivery that runs they
\* cancel what has not been sent; only the request under way may still be seen.
ControlCutsDelivery == controlAt # NoControl => Len(visible) <= controlAt + 1
=============================================================================
