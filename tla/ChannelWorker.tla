---------------------------- MODULE ChannelWorker ----------------------------
(***************************************************************************)
(* The worker of one conversation (internal/worker/manager.go): ingress    *)
(* puts messages into its queue, its goroutine takes them out in batches   *)
(* and runs one turn per batch, and /cancel and /new cut through both.     *)
(*                                                                         *)
(* A worker stops after a timeout or when it was idle for long, and the    *)
(* next message makes a new one: several instances may exist, at most one  *)
(* is registered.  Ingress first looks the worker up under the lock of the *)
(* manager and then talks to it under its own lock, so what it found may   *)
(* have stopped.  A critical section or a database call is one action; the *)
(* turn, the cards and the effect of a control are outside and take any    *)
(* time.  The App is one in work mode; companion delivery is not here.     *)
(***************************************************************************)
EXTENDS Naturals, Sequences, FiniteSets

CONSTANTS
    Messages,       \* ordinary messages and scheduled prompts of the channel
    Goals,          \* those with Goal
    Scheduled,      \* those with a ScheduledTaskRunID
    Attached,       \* those with HasRequiredAttachment
    Actor,          \* Actor[m]: OpenID of the sender
    Controls,       \* /cancel and /new commands
    Quit,           \* the control that Shutdown submits
    Workers,        \* instances of channelWorker
    NoWorker,
    QueueDepth,

    MaxShutdowns,   \* bound, 0 or 1
    MaxTimeouts,    \* bound: batches that reach ProcessTimeout
    MaxRecycles,    \* bound: idle timers that expire
    MaxFaults,      \* bound: failed database calls and goal pauses
    MaxDisturbances \* bound: all of these together

AllControls == Controls \cup {Quit}

ASSUME SetsAssumption ==
    /\ Goals \subseteq Messages /\ Scheduled \subseteq Messages /\ Attached \subseteq Messages
    /\ Goals \cap Scheduled = {} /\ Attached \cap (Goals \cup Scheduled) = {}
    /\ Quit \notin Controls /\ NoWorker \notin Workers /\ Messages \cap AllControls = {}
    /\ DOMAIN Actor = Messages
ASSUME LimitsAssumption ==
    /\ QueueDepth \in Nat \ {0} /\ MaxShutdowns \in {0, 1}
    /\ MaxTimeouts \in Nat /\ MaxRecycles \in Nat /\ MaxFaults \in Nat /\ MaxDisturbances \in Nat

VARIABLES
    w,          \* w[i]: fields of channelWorker i and the state of its goroutine
    registered, \* Manager.workers[key]
    closing,    \* "open", "shuttingDown", or "closed" (the context is cancelled)
    row,        \* row[m]: status of the message or run row, see Statuses
    ingress,    \* ingress[m]: progress of Accept(m)
    found,      \* found[m], found[c]: the instance that the lookup returned
    submit,     \* submit[c]: progress of SubmitControl(c)
    cut,        \* cut[c]: what submitControl(c) took from the worker
    effect,     \* effect[c]: "no", "running" or "ran"
    quitting,   \* progress of Shutdown
    waits,      \* the batch whose activeDone Cancel waits for
    timeouts, recycles, faults,
    order,      \* history: messages in the order in which they were accepted
    begun,      \* history: messages whose batch was taken
    lost        \* history: messages whose row a failed call left behind

client == <<ingress, found, submit, cut>>
stop   == <<closing, quitting, waits>>
limits == <<timeouts, recycles, faults>>
past   == <<order, begun, lost>>
vars   == <<w, registered, row, client, effect, stop, limits, past>>
-----------------------------------------------------------------------------
\* For a scheduled prompt "received" is the run state queued, "processing" is
\* running and "failed" stands for failed and cancelled.
Statuses == {"none", "received", "processing", "succeeded", "failed"}
Open     == {"received", "processing"}
States   == {"Idle", "CreatingCard", "InProcess", "Stopping", "Stopped"}
Leaving  == {"Stopping", "Stopped"}
\* Where the goroutine is; Busy is the field processing.
Busy == {"card", "start", "goal", "turn", "drain", "ended", "settle", "finish"}
PCs  == {"unborn", "select", "loop", "batch", "control", "remove", "clear", "gone"} \cup Busy

Unborn == [pc |-> "unborn", state |-> "Idle", queue |-> <<>>, controls |-> <<>>, barrier |-> FALSE,
           batch |-> <<>>, control |-> Quit, active |-> FALSE, cancelFn |-> FALSE, cancelled |-> FALSE,
           goal |-> FALSE, ctx |-> "live", err |-> "ok", wake |-> FALSE, stopped |-> FALSE,
           timer |-> "off"]

Init ==
    /\ w = [i \in Workers |-> Unborn]
    /\ registered = NoWorker /\ closing = "open"
    /\ row = [m \in Messages |-> "none"]
    /\ ingress = [m \in Messages |-> "new"]
    /\ found = [x \in Messages \cup AllControls |-> NoWorker]
    /\ submit = [c \in AllControls |-> "new"]
    /\ cut = [c \in AllControls |-> [queue |-> <<>>, batch |-> <<>>, goal |-> FALSE]]
    /\ effect = [c \in AllControls |-> "no"]
    /\ quitting = "no" /\ waits = <<>>
    /\ timeouts = 0 /\ recycles = 0 /\ faults = 0
    /\ order = <<>> /\ begun = {} /\ lost = {}

Elements(s) == {s[k] : k \in DOMAIN s}
Processing(i) == w[i].pc \in Busy
IsScheduled(b) == b[1] \in Scheduled

\* An UPDATE of the rows of ms that are still open.
Rows(ms, to) == [m \in Messages |-> IF m \in ms /\ row[m] \in Open THEN to ELSE row[m]]

\* The bound on everything that disturbs a behaviour.
Undisturbed ==
    timeouts + recycles + faults + (IF quitting = "no" THEN 0 ELSE 1) < MaxDisturbances

\* One more failed call.
Fault == Undisturbed /\ faults < MaxFaults /\ faults' = faults + 1 /\ UNCHANGED <<timeouts, recycles>>

\* A context is cancelled once; a deadline that passed first stays.
Cancelled(i) == IF w[i].ctx = "live" THEN "cancelled" ELSE w[i].ctx
-----------------------------------------------------------------------------
(* Ingress: Accept for messages, SubmitControl for /cancel and /new.       *)

\* The lookup of both, under the lock of the manager.
FindOrCreate(x) ==
    \/ /\ registered # NoWorker
       /\ found' = [found EXCEPT ![x] = registered]
       /\ UNCHANGED <<w, registered>>
    \/ /\ registered = NoWorker
       /\ \E i \in Workers :
             /\ w[i].pc = "unborn"
             /\ w' = [w EXCEPT ![i].pc = "select"]
             /\ registered' = i
             /\ found' = [found EXCEPT ![x] = i]

\* The row exists (PersistIncoming, MarkRunQueued); a refused message is failed
\* by the caller.  Other channels may have used up MaxWorkers.
Accept(m) ==
    /\ ingress[m] = "new"
    /\ \/ /\ closing = "open"
          /\ FindOrCreate(m)
          /\ ingress' = [ingress EXCEPT ![m] = "found"]
          /\ row' = [row EXCEPT ![m] = "received"]
       \/ /\ closing # "open" \/ registered = NoWorker    \* ErrClosed, ErrPoolSaturated
          /\ ingress' = [ingress EXCEPT ![m] = "refused"]
          /\ row' = [row EXCEPT ![m] = "failed"]
          /\ UNCHANGED <<w, registered, found>>
    /\ UNCHANGED <<submit, cut, effect, stop, limits, past>>

Refuses(i) == w[i].state \in Leaving \/ w[i].barrier \/ Len(w[i].queue) >= QueueDepth

\* Mutant of enqueue: the newest message goes first.
enqueueFirst(m) ==
    /\ ingress[m] = "found" /\ ~Refuses(found[m])
    /\ w' = [w EXCEPT ![found[m]] = [@ EXCEPT !.queue = <<m>> \o @, !.wake = TRUE]]
    /\ ingress' = [ingress EXCEPT ![m] = "accepted"]
    /\ order' = Append(order, m)
    /\ UNCHANGED <<row, registered, found, submit, cut, effect, stop, limits, begun, lost>>

enqueue(m) ==
    /\ ingress[m] = "found"
    /\ LET i == found[m] IN
       \/ /\ ~Refuses(i)
          /\ w' = [w EXCEPT ![i] = [@ EXCEPT !.queue = Append(w[i].queue, m), !.wake = TRUE]]
          /\ ingress' = [ingress EXCEPT ![m] = "accepted"]
          /\ order' = Append(order, m)
          /\ UNCHANGED row
       \/ /\ Refuses(i)
          /\ ingress' = [ingress EXCEPT ![m] = "refused"]
          /\ row' = Rows({m}, "failed")
          /\ UNCHANGED <<w, order>>
    /\ UNCHANGED <<registered, found, submit, cut, effect, stop, limits, begun, lost>>

SubmitControl(c) ==
    /\ c \in Controls /\ submit[c] = "new"
    /\ \/ /\ closing = "open"
          /\ FindOrCreate(c)
          /\ submit' = [submit EXCEPT ![c] = "found"]
       \/ /\ closing # "open" \/ registered = NoWorker
          /\ submit' = [submit EXCEPT ![c] = "refused"]
          /\ UNCHANGED <<w, registered, found>>
    /\ UNCHANGED <<row, ingress, cut, effect, stop, limits, past>>

\* Mutant of submitControl: the queue is copied and not emptied.
submitControlKeepsQueue(c) ==
    /\ submit[c] = "found" /\ w[found[c]].state \notin Leaving
    /\ cut' = [cut EXCEPT ![c].queue = w[found[c]].queue]
    /\ w' = [w EXCEPT ![found[c]] = [@ EXCEPT !.barrier = TRUE, !.cancelled = TRUE,
                                              !.controls = Append(@, c)]]
    /\ submit' = [submit EXCEPT ![c] = "cut"]
    /\ UNCHANGED <<registered, row, ingress, found, effect, stop, limits, past>>

\* The critical section of submitControl: the barrier is up, the queue is cut
\* off, the batch is marked cancelled (activeCancelled and the arbiter).
submitControl(c) ==
    /\ submit[c] = "found"
    /\ LET i == found[c] IN
       \/ /\ w[i].state \notin Leaving
          /\ cut' = [cut EXCEPT ![c] = [queue |-> w[i].queue, goal |-> w[i].goal,
                                        batch |-> IF w[i].cancelFn THEN w[i].batch ELSE <<>>]]
          /\ w' = [w EXCEPT ![i] = [@ EXCEPT !.queue = <<>>, !.barrier = TRUE, !.cancelled = TRUE,
                                             !.controls = Append(w[i].controls, c)]]
          /\ submit' = [submit EXCEPT ![c] = "cut"]
       \/ /\ w[i].state \in Leaving                        \* ErrStopping
          /\ submit' = [submit EXCEPT ![c] = "refused"]
          /\ UNCHANGED <<w, cut>>
    /\ UNCHANGED <<registered, row, ingress, found, effect, stop, limits, past>>

\* The goal is paused, or the context of the batch that was active is
\* cancelled.  When the pause fails, the queue that was cut off is forgotten.
interrupt(c) ==
    /\ submit[c] = "cut"
    /\ LET i == found[c] IN
       \/ /\ ~cut[c].goal
          /\ w' = IF cut[c].batch # <<>> /\ cut[c].batch = w[i].batch
                  THEN [w EXCEPT ![i].ctx = Cancelled(i)] ELSE w
          /\ submit' = [submit EXCEPT ![c] = "persist"]
          /\ UNCHANGED <<limits, lost>>
       \/ /\ cut[c].goal
          /\ submit' = [submit EXCEPT ![c] = "persist"]
          /\ UNCHANGED <<w, limits, lost>>
       \/ /\ cut[c].goal /\ Fault
          /\ submit' = [submit EXCEPT ![c] = "error"]
          /\ lost' = lost \cup Elements(cut[c].queue)
          /\ UNCHANGED w
    /\ UNCHANGED <<registered, row, ingress, found, cut, effect, stop, order, begun>>

\* Mutant of persist: no signal.
persistSilently(c) ==
    /\ submit[c] = "persist"
    /\ row' = Rows(Elements(cut[c].queue), "failed")
    /\ submit' = [submit EXCEPT ![c] = "done"]
    /\ UNCHANGED <<w, limits, lost, registered, ingress, found, cut, effect, stop, order, begun>>

\* What was cut off is failed or cancelled, and the worker is woken up.  A
\* failed call returns before the signal.
persist(c) ==
    /\ submit[c] = "persist"
    /\ \/ /\ row' = Rows(Elements(cut[c].queue), "failed")
          /\ w' = [w EXCEPT ![found[c]].wake = TRUE]
          /\ submit' = [submit EXCEPT ![c] = "done"]
          /\ UNCHANGED <<limits, lost>>
       \/ /\ cut[c].queue # <<>> /\ Fault
          /\ submit' = [submit EXCEPT ![c] = "error"]
          /\ lost' = lost \cup Elements(cut[c].queue)
          /\ UNCHANGED <<row, w>>
    /\ UNCHANGED <<registered, ingress, found, cut, effect, stop, order, begun>>
-----------------------------------------------------------------------------
(* The goroutine of worker i.                                              *)

Wake(i) ==
    /\ w[i].pc = "select" /\ w[i].wake
    /\ w' = [w EXCEPT ![i] = [@ EXCEPT !.pc = "loop", !.wake = FALSE]]
    /\ UNCHANGED <<registered, row, client, effect, stop, limits, past>>

Exit(i) ==
    /\ w[i].pc = "select" /\ (w[i].stopped \/ closing = "closed")
    /\ w' = [w EXCEPT ![i].pc = "gone"]
    /\ UNCHANGED <<registered, row, client, effect, stop, limits, past>>

\* Mutant of nextControl: after StopGrace the control is given up.
nextControlGivesUp(i) ==
    /\ w[i].pc = "loop"
    /\ \/ /\ w[i].controls = <<>>
          /\ w' = [w EXCEPT ![i].pc = "batch"]
          /\ UNCHANGED effect
       \/ /\ w[i].controls # <<>> /\ w[i].active
          /\ w' = [w EXCEPT ![i] = [@ EXCEPT !.controls = Tail(@), !.barrier = @ /\ Len(w[i].controls) > 1]]
          /\ UNCHANGED effect
       \/ /\ w[i].controls # <<>> /\ ~w[i].active
          /\ w' = [w EXCEPT ![i] = [@ EXCEPT !.pc = "control", !.control = Head(w[i].controls),
                                             !.controls = Tail(@)]]
          /\ effect' = [effect EXCEPT ![Head(w[i].controls)] = "running"]
    /\ UNCHANGED <<registered, row, client, stop, limits, past>>

\* A leaked activeDone only delays processControl by StopGrace.
nextControl(i) ==
    /\ w[i].pc = "loop"
    /\ \/ /\ w[i].controls = <<>>
          /\ w' = [w EXCEPT ![i].pc = "batch"]
          /\ UNCHANGED effect
       \/ /\ w[i].controls # <<>>
          /\ w' = [w EXCEPT ![i] = [@ EXCEPT !.pc = "control", !.control = Head(w[i].controls),
                                             !.controls = Tail(w[i].controls)]]
          /\ effect' = [effect EXCEPT ![Head(w[i].controls)] = "running"]
    /\ UNCHANGED <<registered, row, client, stop, limits, past>>

\* control.Run returned.
processControl(i) ==
    /\ w[i].pc = "control"
    /\ effect' = [effect EXCEPT ![w[i].control] = "ran"]
    /\ w' = [w EXCEPT ![i] = [@ EXCEPT !.pc = "loop", !.wake = TRUE,
                                       !.barrier = w[i].barrier /\ w[i].controls # <<>>]]
    /\ UNCHANGED <<registered, row, client, stop, limits, past>>

\* A batch is the longest prefix of one sender; goals, scheduled prompts and
\* messages with attachments are batches of their own.
Exclusive(m) == m \in Goals \cup Scheduled \cup Attached
Joins(q, k) == Actor[q[k]] = Actor[q[1]] /\ ~Exclusive(q[k]) /\ ~Exclusive(q[1])
IsBatch(q, n) == /\ \A k \in 2 .. n : Joins(q, k)
                 /\ n < Len(q) => ~Joins(q, n + 1)

nextBatch(i) ==
    /\ w[i].pc = "batch"
    /\ \/ /\ w[i].queue = <<>>
          /\ w' = [w EXCEPT ![i].pc = "select"]
          /\ UNCHANGED begun
       \/ \E n \in 1 .. Len(w[i].queue) :
             /\ IsBatch(w[i].queue, n)
             /\ w' = [w EXCEPT ![i] =
                        [@ EXCEPT !.pc = "card", !.batch = SubSeq(w[i].queue, 1, n),
                                  !.queue = SubSeq(w[i].queue, n + 1, Len(w[i].queue)),
                                  !.state = "CreatingCard", !.active = TRUE, !.cancelFn = FALSE,
                                  !.cancelled = FALSE, !.ctx = "live", !.err = "ok", !.timer = "off"]]
             /\ begun' = begun \cup Elements(SubSeq(w[i].queue, 1, n))
    /\ UNCHANGED <<registered, row, client, effect, stop, limits, order, lost>>

\* Database calls of the goroutine use the context of the manager.
Dead == closing = "closed"

\* Without output or card (or, for a prompt, without MarkScheduledRunning) the
\* batch fails at once, and activeDone stays open.
CreateCard(i) ==
    /\ w[i].pc = "card"
    /\ LET ms == Elements(w[i].batch) IN
       \/ /\ ~Dead /\ row' = Rows(ms, "processing")
          /\ w' = [w EXCEPT ![i] = [@ EXCEPT !.pc = "start",
                       !.state = IF IsScheduled(w[i].batch) THEN w[i].state ELSE "InProcess"]]
          /\ UNCHANGED <<limits, lost>>
       \/ /\ ~Dead /\ row' = Rows(ms, "failed")
          /\ w' = [w EXCEPT ![i] = [@ EXCEPT !.pc = "finish", !.err = "error"]]
          /\ UNCHANGED <<limits, lost>>
       \/ /\ Dead \/ faults < MaxFaults
          /\ IF Dead THEN UNCHANGED limits ELSE Fault
          /\ lost' = lost \cup ms
          /\ \/ w' = [w EXCEPT ![i] = [@ EXCEPT !.pc = "finish", !.err = "error"]]
             \/ /\ ~IsScheduled(w[i].batch) /\ ~Dead    \* the error of MarkProcessing is ignored
                /\ w' = [w EXCEPT ![i] = [@ EXCEPT !.pc = "start", !.state = "InProcess"]]
          /\ UNCHANGED row
    /\ UNCHANGED <<registered, client, effect, stop, order, begun>>

setActive(i) ==
    /\ w[i].pc = "start"
    /\ w' = [w EXCEPT ![i] = [@ EXCEPT !.cancelFn = TRUE,
                 !.ctx = IF w[i].cancelled \/ Dead THEN "cancelled" ELSE "live",
                 !.pc = IF IsScheduled(w[i].batch) THEN "turn" ELSE "goal"]]
    /\ UNCHANGED <<registered, row, client, effect, stop, limits, past>>

setGoalBatch(i) ==
    /\ w[i].pc = "goal"
    /\ w' = [w EXCEPT ![i] = [@ EXCEPT !.goal = (w[i].batch[1] \in Goals), !.pc = "turn"]]
    /\ UNCHANGED <<registered, row, client, effect, stop, limits, past>>

\* ProcessTimeout passes.
Timeout(i) ==
    /\ w[i].pc = "turn" /\ w[i].ctx = "live"
    /\ timeouts < MaxTimeouts /\ Undisturbed
    /\ timeouts' = timeouts + 1
    /\ w' = [w EXCEPT ![i].ctx = "deadline"]
    /\ UNCHANGED <<registered, row, client, effect, stop, recycles, faults, past>>

\* Mutant of ContextDone: the worker leaves the registry while it drains.
ContextDoneAndRemove(i) ==
    /\ w[i].pc = "turn" /\ ~IsScheduled(w[i].batch) /\ w[i].ctx # "live"
    /\ w' = [w EXCEPT ![i] = [@ EXCEPT !.state = "Stopping", !.pc = "drain"]]
    /\ registered' = NoWorker
    /\ UNCHANGED <<row, client, effect, stop, limits, past>>

\* The select of process sees the context before the result; a scheduled
\* prompt has no such select.
ContextDone(i) ==
    /\ w[i].pc = "turn" /\ ~IsScheduled(w[i].batch) /\ w[i].ctx # "live"
    /\ w' = [w EXCEPT ![i] = [@ EXCEPT !.state = "Stopping", !.pc = "drain"]]
    /\ UNCHANGED <<registered, row, client, effect, stop, limits, past>>

\* The processor returns; a passed deadline may show as its error.
TurnEnds(i) ==
    /\ w[i].pc \in {"turn", "drain"}
    /\ \E e \in {"ok", "error", "deadline"} :
          /\ e = "deadline" => w[i].ctx = "deadline"
          /\ w' = [w EXCEPT ![i] = [@ EXCEPT !.err = e, !.pc = "ended"]]
    /\ UNCHANGED <<registered, row, client, effect, stop, limits, past>>

\* The arbiter is read: a cancelled batch failed, whatever its turn returned.
\* A scheduled prompt keeps its own error.
ReadTerminal(i) ==
    /\ w[i].pc = "ended"
    /\ w' = [w EXCEPT ![i] = [@ EXCEPT !.pc = "settle",
                 !.err = IF /\ w[i].cancelled
                            /\ ~IsScheduled(w[i].batch) \/ w[i].err = "ok" THEN "error" ELSE w[i].err]]
    /\ UNCHANGED <<registered, row, client, effect, stop, limits, past>>

\* Card, fallback text and the row.  Complete needs rows in processing; a good
\* turn whose card and fallback both fail is failed.  A card update that ends with
\* DeadlineExceeded itself passes for a timeout of the turn, and no row is written.
Settle(i) ==
    /\ w[i].pc = "settle" /\ ~IsScheduled(w[i].batch)
    /\ LET ms == Elements(w[i].batch)
           goOn(err) == w' = [w EXCEPT ![i] = [@ EXCEPT !.pc = "finish", !.err = err]] IN
       \/ /\ ~Dead /\ w[i].err = "ok" /\ \A m \in ms : row[m] = "processing"
          /\ row' = Rows(ms, "succeeded") /\ goOn(w[i].err)
          /\ UNCHANGED <<limits, lost>>
       \/ /\ ~Dead
          /\ row' = Rows(ms, "failed") /\ goOn(w[i].err)
          /\ UNCHANGED <<limits, lost>>
       \/ /\ IF Dead \/ (w[i].err = "ok" /\ \E m \in ms : row[m] # "processing")
             THEN UNCHANGED limits ELSE Fault
          /\ lost' = lost \cup ms /\ goOn(w[i].err)
          /\ UNCHANGED row
       \/ /\ ~Dead /\ w[i].err = "ok" /\ Fault
          /\ lost' = lost \cup ms /\ goOn("deadline")
          /\ UNCHANGED row
    /\ UNCHANGED <<registered, client, effect, stop, order, begun>>

\* The run row of a prompt says what its turn returned.
finishScheduled(i) ==
    /\ w[i].pc = "settle" /\ IsScheduled(w[i].batch)
    /\ \/ /\ ~Dead
          /\ row' = Rows(Elements(w[i].batch), IF w[i].err = "ok" THEN "succeeded" ELSE "failed")
          /\ UNCHANGED <<limits, lost>>
       \/ /\ IF Dead THEN UNCHANGED limits ELSE Fault
          /\ lost' = lost \cup Elements(w[i].batch)
          /\ UNCHANGED row
    /\ w' = [w EXCEPT ![i].pc = "finish"]
    /\ UNCHANGED <<registered, client, effect, stop, order, begun>>

\* Mutant of Finish: the queue of a worker that stops is dropped.
FinishForgetsQueue(i) ==
    /\ w[i].pc = "finish"
    /\ w' = [w EXCEPT ![i] = IF w[i].err = "deadline"
                THEN [@ EXCEPT !.pc = "remove", !.state = "Stopped", !.queue = <<>>]
                ELSE [@ EXCEPT !.pc = "clear", !.state = "Idle"]]
    /\ UNCHANGED <<row, registered, client, effect, stop, limits, past>>

\* What a timeout settles of the queue: a prompt's fails message and run rows,
\* an ordinary batch's fails message rows only.
GivenUp(i) == {m \in Elements(w[i].queue) : m \notin Scheduled \/ IsScheduled(w[i].batch)}

\* After a timeout the worker stops and its queue is given up.  Otherwise the
\* worker is idle, and the idle timer starts when nothing waits.
Finish(i) ==
    /\ w[i].pc = "finish"
    /\ \/ /\ w[i].err = "deadline"
          /\ row' = IF Dead THEN row ELSE Rows(GivenUp(i), "failed")
          /\ lost' = IF Dead THEN lost \cup GivenUp(i) ELSE lost
          /\ w' = [w EXCEPT ![i] = [@ EXCEPT !.pc = "remove", !.state = "Stopped", !.queue = <<>>]]
       \/ /\ w[i].err # "deadline"
          /\ w' = [w EXCEPT ![i] = [@ EXCEPT !.pc = "clear", !.state = "Idle",
                       !.wake = w[i].wake \/ w[i].queue # <<>>,
                       !.timer = IF w[i].queue = <<>> THEN "armed" ELSE w[i].timer]]
          /\ UNCHANGED <<row, lost>>
    /\ UNCHANGED <<registered, client, effect, stop, limits, order, begun>>

Unregister(i) == registered' = IF registered = i THEN NoWorker ELSE registered

removeFromManager(i) ==
    /\ w[i].pc = "remove"
    /\ Unregister(i)
    /\ w' = [w EXCEPT ![i] = [@ EXCEPT !.pc = "clear", !.stopped = TRUE]]
    /\ UNCHANGED <<row, client, effect, stop, limits, past>>

\* Deferred where setActive was reached; elsewhere nothing is cleared.
clearActive(i) ==
    /\ w[i].pc = "clear"
    /\ w' = [w EXCEPT ![i] = IF w[i].cancelFn
                THEN [@ EXCEPT !.pc = "loop", !.active = FALSE, !.cancelFn = FALSE,
                               !.cancelled = FALSE, !.goal = FALSE]
                ELSE [@ EXCEPT !.pc = "loop"]]
    /\ UNCHANGED <<registered, row, client, effect, stop, limits, past>>

\* The timer of scheduleIdleRecycle; it looks at the queue, not at controls.
IdleTimer(i) ==
    /\ w[i].timer = "armed"
    /\ recycles < MaxRecycles /\ Undisturbed
    /\ recycles' = recycles + 1
    /\ w' = [w EXCEPT ![i] =
                IF w[i].state = "Idle" /\ ~Processing(i) /\ w[i].queue = <<>>
                THEN [@ EXCEPT !.state = "Stopped", !.timer = "fired"]
                ELSE [@ EXCEPT !.timer = "off"]]
    /\ UNCHANGED <<registered, row, client, effect, stop, timeouts, faults, past>>

IdleRemove(i) ==
    /\ w[i].timer = "fired"
    /\ Unregister(i)
    /\ w' = [w EXCEPT ![i] = [@ EXCEPT !.stopped = TRUE, !.timer = "off"]]
    /\ UNCHANGED <<row, client, effect, stop, limits, past>>
-----------------------------------------------------------------------------
(* Shutdown: a control of its own, Cancel, and Close.                      *)

Shutdown ==
    /\ MaxShutdowns = 1 /\ quitting = "no" /\ Undisturbed
    /\ closing' = "shuttingDown"
    /\ IF registered = NoWorker
       THEN quitting' = "close" /\ UNCHANGED <<found, submit>>
       ELSE /\ quitting' = "submit"
            /\ found' = [found EXCEPT ![Quit] = registered]
            /\ submit' = [submit EXCEPT ![Quit] = "found"]
    /\ UNCHANGED <<w, registered, row, ingress, cut, effect, waits, limits, past>>

\* Cancel looks the worker up again.
Cancel ==
    /\ quitting = "submit" /\ submit[Quit] \in {"done", "refused"}
    /\ IF registered = NoWorker
       THEN quitting' = "close" /\ UNCHANGED <<w, waits>>
       ELSE LET i == registered IN
            /\ w' = [w EXCEPT ![i] = [@ EXCEPT !.cancelled = TRUE,
                         !.ctx = IF w[i].cancelFn THEN Cancelled(i) ELSE w[i].ctx]]
            /\ waits' = IF w[i].active THEN w[i].batch ELSE <<>>
            /\ quitting' = "wait"
    /\ UNCHANGED <<registered, closing, row, client, effect, limits, past>>

\* activeDone of the batch is closed, or there was none.
CancelReturns ==
    /\ quitting = "wait"
    /\ \A i \in Workers : waits = <<>> \/ w[i].batch # waits \/ ~w[i].active
    /\ quitting' = "close"
    /\ UNCHANGED <<w, registered, closing, row, client, effect, waits, limits, past>>

\* Mutant of ShutdownGivesUp: only the submission is bounded in time.
ShutdownGivesUpEarly ==
    /\ quitting = "submit"
    /\ quitting' = "close"
    /\ UNCHANGED <<w, registered, closing, row, client, effect, waits, limits, past>>

\* The 30 seconds of the caller are over, or submitControl failed.
ShutdownGivesUp ==
    /\ quitting \in {"submit", "wait"}
    /\ quitting' = "close"
    /\ UNCHANGED <<w, registered, closing, row, client, effect, waits, limits, past>>

\* Mutant of Close: the queue is failed and kept.
CloseKeepsQueue ==
    /\ quitting = "close" /\ registered # NoWorker
    /\ quitting' = "cancel"
    /\ row' = Rows(Elements(w[registered].queue), "failed")
    /\ UNCHANGED <<w, registered, closing, client, effect, waits, limits, past>>

\* discardQueuedForShutdown of the registered worker ...
Close ==
    /\ quitting = "close"
    /\ quitting' = "cancel"
    /\ IF registered = NoWorker THEN UNCHANGED <<w, row>>
       ELSE /\ row' = Rows(Elements(w[registered].queue), "failed")
            /\ w' = [w EXCEPT ![registered].queue = <<>>]
    /\ UNCHANGED <<registered, closing, client, effect, waits, limits, past>>

\* ... and then the context of everything.
CancelAll ==
    /\ quitting = "cancel"
    /\ quitting' = "done"
    /\ closing' = "closed"
    /\ w' = [i \in Workers |-> [w[i] EXCEPT !.ctx = Cancelled(i)]]
    /\ UNCHANGED <<registered, row, client, effect, waits, limits, past>>
-----------------------------------------------------------------------------
Ingress(m) == Accept(m) \/ enqueue(m)
Command(c) == submitControl(c) \/ interrupt(c) \/ persist(c)
Goroutine(i) ==
    \/ Wake(i) \/ Exit(i) \/ nextControl(i) \/ processControl(i) \/ nextBatch(i) \/ CreateCard(i)
    \/ setActive(i) \/ setGoalBatch(i) \/ ContextDone(i) \/ TurnEnds(i) \/ ReadTerminal(i)
    \/ Settle(i) \/ finishScheduled(i) \/ Finish(i) \/ removeFromManager(i) \/ clearActive(i)
Stops == Cancel \/ CancelReturns \/ ShutdownGivesUp \/ Close \/ CancelAll

Next ==
    \/ \E m \in Messages : Ingress(m)
    \/ \E c \in AllControls : SubmitControl(c) \/ Command(c)
    \/ \E i \in Workers : Goroutine(i) \/ Timeout(i) \/ IdleTimer(i) \/ IdleRemove(i)
    \/ Shutdown \/ Stops

Spec == Init /\ [][Next]_vars

\* Goroutines run; turns end (ProcessTimeout cancels them) and so do controls.
\* Nobody has to send a message, and no timer has to expire.
FairSpec ==
    /\ Spec
    /\ \A m \in Messages : WF_vars(enqueue(m))
    /\ \A c \in AllControls : WF_vars(Command(c))
    /\ \A i \in Workers : WF_vars(Goroutine(i)) /\ WF_vars(IdleRemove(i))
    /\ WF_vars(Stops)
-----------------------------------------------------------------------------
WorkerRecords ==
    [pc : PCs, state : States, queue : Seq(Messages), controls : Seq(AllControls), barrier : BOOLEAN,
     batch : Seq(Messages), control : AllControls, active : BOOLEAN, cancelFn : BOOLEAN,
     cancelled : BOOLEAN, goal : BOOLEAN, ctx : {"live", "cancelled", "deadline"},
     err : {"ok", "error", "deadline"}, wake : BOOLEAN, stopped : BOOLEAN,
     timer : {"off", "armed", "fired"}]

\* Type invariant: workers, requests, controls and rows.
TypeOK ==
    /\ w \in [Workers -> WorkerRecords]
    /\ registered \in Workers \cup {NoWorker}
    /\ closing \in {"open", "shuttingDown", "closed"}
    /\ row \in [Messages -> Statuses]
    /\ ingress \in [Messages -> {"new", "found", "accepted", "refused"}]
    /\ found \in [Messages \cup AllControls -> Workers \cup {NoWorker}]
    /\ submit \in [AllControls -> {"new", "found", "cut", "persist", "done", "error", "refused"}]
    /\ cut \in [AllControls -> [queue : Seq(Messages), batch : Seq(Messages), goal : BOOLEAN]]
    /\ effect \in [AllControls -> {"no", "running", "ran"}]
    /\ quitting \in {"no", "submit", "wait", "close", "cancel", "done"}
    /\ waits \in Seq(Messages)
    /\ timeouts \in Nat /\ recycles \in Nat /\ faults \in Nat
    /\ order \in Seq(Messages) /\ begun \subseteq Messages /\ lost \subseteq Messages

Waiting(m) == \E i \in Workers : m \in Elements(w[i].queue)

\* Two turns of one conversation never overlap, although instances of the
\* worker come and go: a worker leaves the registry only when it can take no
\* further batch.
OneTurnAtATime ==
    \A i, j \in Workers : Processing(i) /\ Processing(j) => i = j

\* No message is overtaken: when a batch is taken, nothing that was accepted
\* earlier still waits, in this worker or in one that was replaced.
NoOvertaking ==
    \A a, b \in DOMAIN order : a < b /\ order[b] \in begun => ~Waiting(order[a])

\* A batch has one sender, and goals, scheduled prompts and attachments are
\* alone: nextBatch never merges what needs a turn of its own.
BatchesAreUniform ==
    \A i \in Workers : Processing(i) =>
        \A m, n \in Elements(w[i].batch) : Actor[m] = Actor[n] /\ (Exclusive(m) => m = n)

\* Turns take the messages in the order of their arrival and merge only what may
\* share a turn, also across the instances of a worker.
BatchesKeepOrder == NoOvertaking /\ BatchesAreUniform

\* A message is in one place, and one that waits is still unanswered: what a
\* control cut off, or a timeout gave up, is never run as well.
OnePlace ==
    \A m \in Messages :
        LET queues  == {i \in Workers : m \in Elements(w[i].queue)}
            batches == {i \in Workers : Processing(i) /\ m \in Elements(w[i].batch)}
            cuts    == {c \in AllControls : submit[c] \in {"cut", "persist"}
                                            /\ m \in Elements(cut[c].queue)}
        IN  /\ Cardinality(queues) + Cardinality(batches) + Cardinality(cuts) <= 1
            /\ queues # {} => row[m] = "received"

\* Between the submission of a control and the end of its effect the worker
\* takes nothing in: ingress does not cross a /new or /cancel boundary.
BarrierHolds ==
    \A i \in Workers :
        w[i].controls # <<>> \/ w[i].pc = "control" => w[i].barrier /\ w[i].queue = <<>>

\* The effect of a control of the registered worker overlaps no turn.
ControlRunsAlone ==
    \A i, j \in Workers : w[i].pc = "control" /\ registered = i => ~Processing(j)

\* A control cuts cleanly: what it detached is run by nobody, ingress does not
\* cross it, and no turn overlaps its effect.
ControlsCutCleanly == OnePlace /\ BarrierHolds /\ ControlRunsAlone

\* A sleeping worker with work has a token in its wake channel, so that no
\* message and no control that was submitted is forgotten.
NoLostWakeup ==
    \A i \in Workers :
        /\ w[i].pc = "select" /\ w[i].state # "Stopped"
        /\ w[i].queue # <<>> \/ \E c \in Elements(w[i].controls) : submit[c] = "done"
        => w[i].wake

\* Every message that was taken over is answered: its row becomes terminal,
\* unless a database call or a goal pause failed or the process shuts down.
\* (Scheduled prompts: see NoQueuedRunLeft.)
\* A row leaves the open states for good, so one formula serves for all.
MessagesSettle ==
    []<>(\A m \in Messages \ Scheduled :
            row[m] \in Open => m \in lost \/ closing # "open")

\* A control that was submitted takes effect, unless its worker was stopped
\* meanwhile or the process shuts down.
ControlsTakeEffect ==
    []<>(\A c \in Controls :
            submit[c] = "done" => \/ effect[c] = "ran" \/ closing # "open"
                                  \/ \E i \in Workers : found[c] = i /\ w[i].stopped)

\* Shutdown ends, whatever the workers do.
ShutdownEnds == []<>(quitting \in {"no", "done"})
-----------------------------------------------------------------------------
(* What comments and documents say and the code does not do.               *)

\* "Its Run function executes only after any active batch has released the
\* channel, so thread mutations cannot race a turn": the idle timer does not
\* see a control that runs, removes the worker, and the next message starts
\* a turn in a new one.
NoTurnDuringControl ==
    \A i, j \in Workers : ~(w[i].pc = "control" /\ Processing(j))

\* "worker timeout ... 绝不留下 queued run": a scheduled prompt that is queued is with
\* somebody.  After the timeout of an ordinary batch nobody has it.
NoQueuedRunLeft ==
    \A m \in Scheduled :
        ingress[m] = "accepted" /\ row[m] = "received" =>
            \/ Waiting(m)
            \/ \E i \in Workers : Processing(i) /\ m \in Elements(w[i].batch)
            \/ \E c \in AllControls : submit[c] \in {"cut", "persist"} /\ m \in Elements(cut[c].queue)
=============================================================================
