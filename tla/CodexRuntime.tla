---------------------------- MODULE CodexRuntime ----------------------------
(***************************************************************************)
(* The runtime of internal/codexapp: one owned App Server process at a     *)
(* time (a generation), the attempts that channel workers run on it, and   *)
(* the tool calls that App Server sends back while a turn runs.            *)
(*                                                                         *)
(* Actors: the caller of each attempt (StartTurn, or PrepareGoal and       *)
(* GoalAttempt.Start), the reader that dispatches what App Server writes,  *)
(* one goroutine per tool call, the control that stops a goal, and the     *)
(* goroutine that replaces a generation.  A critical section of the        *)
(* runtime or of one attempt is one action.  App Server is external: it    *)
(* accepts turns, emits events in order, may ignore an interrupt and may   *)
(* die.  An event is dispatched when it is emitted, because the reader     *)
(* takes the stream in order; answers wait for the caller to be scheduled. *)
(***************************************************************************)
EXTENDS Naturals, Sequences, FiniteSets, Functions

CONSTANTS
    NumAttempts,    \* one attempt per batch, numbered in the order of arrival
    GoalAttempts,   \* the ones that run a goal
    ThreadOf,       \* ThreadOf[a]: the conversation's App Server thread
    Calls,          \* tool requests of App Server
    ActionSlots,    \* tool handlers of one attempt that may run at once
    MaxPending      \* maxPresentationEvents: kept while the turn id is unknown

\* Bounds that only keep the instance finite.
CONSTANTS
    ItemsPerTurn,       \* agent messages of a plain turn
    MaxContinuations,   \* turns App Server adds to a goal
    MaxDisturbances     \* MaxDisturbances[a]: exits, Close, cancelled contexts, goal stops,
                        \* refused items, failing goal calls and added turns, all together,
                        \* once attempt a has come

Attempts == 1 .. NumAttempts

ASSUME RuntimeAssumption ==
    /\ NumAttempts \in Nat
    /\ GoalAttempts \subseteq Attempts /\ DOMAIN ThreadOf = Attempts
    /\ ActionSlots \in Nat \ {0} /\ ItemsPerTurn \in Nat /\ MaxPending \in Nat
    /\ MaxContinuations \in Nat /\ MaxDisturbances \in [Attempts -> Nat]

Turns == Attempts \X (1 .. 1 + MaxContinuations)
First(a) == <<a, 1>>
NoTurn == <<>>
Threads == Range(ThreadOf)
IsGoal(a) == a \in GoalAttempts
Stoppers == {"control", "caller"}
Terminal == {"paused", "complete", "limited"}     \* of a goal

VARIABLES
    gen,        \* Runtime.current and its recovery
    at,         \* the attempts and the goroutines of their callers
    call,       \* the goroutines of handleServerRequest
    stopper,    \* BeginStop of a goal, run by a control or by the caller itself
    early,      \* earlyGoalUpdates: a terminal status nobody was registered for
    turn,       \* App Server: the turns
    goal,       \* App Server: the goal of each thread and the attempt that set it
    interrupted,\* the turns App Server was asked to interrupt
    disturbed

vars == <<gen, at, call, stopper, early, turn, goal, interrupted, disturbed>>
runtime == <<call, stopper, early>>
server == <<turn, goal, interrupted>>
-----------------------------------------------------------------------------
NewAttempt ==
    [pc |-> "new", gen |-> 0, reg |-> FALSE, turn |-> NoTurn, pending |-> <<>>, replay |-> <<>>,
     finished |-> FALSE, done |-> "none", stopping |-> FALSE, cancelled |-> FALSE,
     boundClosed |-> FALSE, over |-> FALSE, known |-> {}, terminal |-> FALSE,
     goalErr |-> "ok", awaiting |-> FALSE, paused |-> FALSE, stopReq |-> FALSE, items |-> <<>>,
     result |-> "none", misled |-> FALSE]

Init ==
    /\ gen = [id |-> 1, open |-> TRUE, state |-> "ready", failing |-> {}]
    /\ at = [a \in Attempts |-> NewAttempt]
    /\ call = [c \in Calls |-> [pc |-> "none", turn |-> NoTurn, owner |-> {}]]
    /\ stopper = [x \in GoalAttempts \X Stoppers |-> [pc |-> "none", turn |-> NoTurn]]
    /\ early = [h \in Threads |-> "none"]
    /\ turn = [t \in Turns |-> [state |-> "none", sent |-> 0, announced |-> FALSE]]
    /\ goal = [h \in Threads |-> [by |-> {}, status |-> "none"]]
    /\ interrupted = {}
    /\ disturbed = 0

\* One more disturbance.
Disturb ==
    /\ \A a \in Attempts : a = 1 \/ at[a].pc # "new" => disturbed < MaxDisturbances[a]
    /\ disturbed' = disturbed + 1

\* The client of generation g still works.
Open(g) == gen.state = "ready" /\ gen.id = g /\ gen.open
Running(t) == turn[t].state = "running"
\* The attempts that App Server's events of turn t concern; at most one.
Owner(t) == {a \in Attempts : at[a].reg /\ ThreadOf[a] = ThreadOf[t[1]]}

\* Turn t is over; whether it was announced does not matter any more.
Over(t, status) == [turn[t] EXCEPT !.state = status, !.announced = TRUE]

\* App Server is gone, and the turns it ran with it.
Killed == [t \in Turns |-> IF Running(t) THEN Over(t, "dead") ELSE turn[t]]

\* client.Close(); closing twice does nothing.
CloseClient(g) ==
    IF Open(g) THEN gen' = [gen EXCEPT !.open = FALSE] /\ turn' = Killed
               ELSE UNCHANGED <<gen, turn>>

\* turn/interrupt on the generation of a; it reaches an open client only.
Interrupt(a, t) ==
    interrupted' = IF t # NoTurn /\ Open(at[a].gen) THEN interrupted \cup {t} ELSE interrupted
-----------------------------------------------------------------------------
(* Transitions of one attempt's record, each under its mutex.              *)

\* Mutant of Finished: the context of the tool handlers is left alone.
FinishedQuietly(r, err) ==
    IF r.finished THEN r
    ELSE [r EXCEPT !.finished = TRUE, !.done = err, !.boundClosed = TRUE]

\* Mutant of Finished: the waiters of bound are forgotten.
FinishedUnheard(r, err) ==
    IF r.finished THEN r
    ELSE [r EXCEPT !.finished = TRUE, !.done = err, !.cancelled = TRUE]

\* finish: once; wakes the waiters of bound and fills the channel done.
Finished(r, err) ==
    IF r.finished THEN r
    ELSE [r EXCEPT !.finished = TRUE, !.done = err, !.cancelled = TRUE, !.boundClosed = TRUE]

MayBind(a, t) ==
    /\ ~at[a].finished
    /\ IsGoal(a) => /\ ~at[a].terminal /\ ~at[a].stopping
                    /\ at[a].turn \in {NoTurn, t} \/ t \notin at[a].known

Bound(a, t) ==
    [at[a] EXCEPT !.turn = t, !.boundClosed = TRUE, !.pending = <<>>,
                  !.known = IF IsGoal(a) THEN @ \cup {t} ELSE @,
                  !.awaiting = @ /\ ~IsGoal(a)]

\* Mutant of Mine: whatever was kept.
MineAll(t, e) == TRUE

\* An event that was kept and belongs to turn t.
Mine(t, e) == e.turn = t

\* turn/started of a goal routes at once what was kept for the turn: an end among
\* it leaves the goal waiting for a continuation (MayBind: no terminal status yet).
Rebound(a, t) ==
    [Bound(a, t) EXCEPT !.awaiting = \E k \in DOMAIN at[a].pending :
        Mine(t, at[a].pending[k]) /\ at[a].pending[k].kind \in {"completed", "failed"}]

\* Mutant of Routed: the end of a turn is the end of a goal.
RoutedAsPlain(a, r, e) ==
    IF e.kind = "started" THEN r
    ELSE IF e.kind = "item"
         THEN IF r.finished \/ IsGoal(a) THEN r ELSE [r EXCEPT !.items = Append(@, <<e.turn, e.n>>)]
    ELSE Finished(r, IF e.kind = "completed" THEN "ok" ELSE "error")

\* What one event does to the attempt it belongs to.  (Only the items of plain
\* attempts are kept track of.)
Routed(a, r, e) ==
    IF e.kind = "started" THEN r
    ELSE IF e.kind = "item"
         THEN IF r.finished \/ IsGoal(a) THEN r ELSE [r EXCEPT !.items = Append(@, <<e.turn, e.n>>)]
    ELSE IF ~IsGoal(a) THEN Finished(r, IF e.kind = "completed" THEN "ok" ELSE "error")
    ELSE IF r.terminal THEN Finished(r, r.goalErr) ELSE [r EXCEPT !.awaiting = TRUE]

\* interruptAttempt, after the output refused an item: the attempt is finished
\* at once and its turn interrupted.
Presses(r) == gen.state = "ready" /\ gen.id = r.gen /\ ~r.finished /\ ~r.stopping /\ r.turn # NoTurn
interruptAttempt(a, r) ==
    IF Presses(r)
    THEN /\ at' = [at EXCEPT ![a] = Finished([r EXCEPT !.stopping = TRUE], "error")]
         /\ Interrupt(a, r.turn)
    ELSE at' = [at EXCEPT ![a] = r] /\ UNCHANGED interrupted

routeAttempt(a, r, e) ==
    \/ at' = [at EXCEPT ![a] = Routed(a, r, e)] /\ UNCHANGED <<interrupted, disturbed>>
    \/ e.kind = "item" /\ Presses(r) /\ Disturb /\ interruptAttempt(a, r)

\* A terminal status of the thread's goal is no news of the attempt's own goal when
\* another attempt set that one.  (misled is a history: the code cannot tell.)
Misleads(a) == goal[ThreadOf[a]].by # {a}

\* thread/goal/updated with a terminal status.
GoalEnds(a, r, err) ==
    LET q == [r EXCEPT !.terminal = TRUE, !.goalErr = err, !.misled = @ \/ Misleads(a)]
    IN  IF r.turn = NoTurn \/ r.awaiting THEN Finished(q, err) ELSE q

\* dispatch of that notification.  It carries no turn id, so that it goes to
\* the thread's attempt; with none that is unfinished it is kept.
GoalUpdated(h, err) ==
    LET live == {a \in Attempts : at[a].reg /\ ThreadOf[a] = h /\ ~at[a].finished}
    IN  /\ at' = [a \in Attempts |-> IF a \in live /\ IsGoal(a) THEN GoalEnds(a, at[a], err) ELSE at[a]]
        /\ early' = IF live = {} THEN [early EXCEPT ![h] = err] ELSE early
-----------------------------------------------------------------------------
(* Generations.                                                            *)

AppServerExits ==
    /\ gen.state = "ready" /\ gen.open /\ Disturb
    /\ gen' = [gen EXCEPT !.open = FALSE]
    /\ turn' = Killed
    /\ UNCHANGED <<at, runtime, goal, interrupted>>

onGenerationExit ==
    /\ gen.state = "ready" /\ ~gen.open
    /\ gen' = [gen EXCEPT !.state = "failing",
                          !.failing = {a \in Attempts : at[a].reg /\ at[a].gen = gen.id}]
    /\ UNCHANGED <<at, runtime, server, disturbed>>

failAttempts(a) ==
    /\ a \in gen.failing
    /\ gen' = [gen EXCEPT !.failing = @ \ {a}]
    /\ at' = [at EXCEPT ![a] = Finished(@, "error")]
    /\ UNCHANGED <<runtime, server, disturbed>>

\* One replacement; when it cannot be started the runtime stays unavailable.
startGeneration ==
    /\ gen.state = "failing" /\ gen.failing = {}
    /\ \/ gen' = [gen EXCEPT !.state = "ready", !.open = TRUE, !.id = @ + 1]
       \/ gen' = [gen EXCEPT !.state = "unavailable"]
    /\ UNCHANGED <<at, runtime, server, disturbed>>

Close ==
    /\ gen.state # "closed" /\ Disturb
    /\ gen' = [gen EXCEPT !.state = "closed", !.open = FALSE, !.failing = {a \in Attempts : at[a].reg}]
    /\ turn' = Killed
    /\ UNCHANGED <<at, runtime, goal, interrupted>>
-----------------------------------------------------------------------------
(* The caller: startAttempt, or startGoal with PrepareGoal, Start, Close.  *)

Leave(a, result) == [at[a] EXCEPT !.pc = "leave", !.result = result]

\* Runtime.client(); the conversation's worker runs its batches one by one.
client(a) ==
    /\ at[a].pc = "new" /\ disturbed <= MaxDisturbances[a]
    /\ \A b \in 1 .. a - 1 : ThreadOf[b] = ThreadOf[a] => at[b].pc = "returned"
    /\ at' = [at EXCEPT ![a] = IF gen.state = "ready" THEN [@ EXCEPT !.gen = gen.id, !.pc = "client"]
                               ELSE [@ EXCEPT !.pc = "returned", !.result = "error"]]
    /\ UNCHANGED <<gen, runtime, server, disturbed>>

\* A stop that was asked for before the goal was registered is found now, and
\* so is a terminal status that came when the thread had no unfinished attempt.
Register(a) ==
    /\ at[a].pc = "client"
    /\ LET h == ThreadOf[a]
           r == [at[a] EXCEPT !.reg = TRUE, !.pc = IF IsGoal(a) THEN "set" ELSE "call",
                     !.stopReq = IsGoal(a) /\ stopper[<<a, "control">>].pc = "pending"]
       IN  IF IsGoal(a) /\ early[h] # "none"
           THEN at' = [at EXCEPT ![a] = GoalEnds(a, r, early[h])] /\ early' = [early EXCEPT ![h] = "none"]
           ELSE at' = [at EXCEPT ![a] = r] /\ UNCHANGED early
    /\ stopper' = [x \in DOMAIN stopper |->
                      IF x = <<a, "control">> /\ stopper[x].pc = "pending"
                      THEN [stopper[x] EXCEPT !.pc = "done"] ELSE stopper[x]]
    /\ UNCHANGED <<gen, call, server, disturbed>>

\* thread/goal/set active, through whatever generation is current.  After an
\* error startGoal only closes the attempt, although the answer may have been
\* lost after the goal was set.
SetGoal(a) ==
    /\ at[a].pc = "set"
    /\ \/ /\ Open(gen.id)
          /\ goal' = [goal EXCEPT ![ThreadOf[a]] = [by |-> {a}, status |-> "active"]]
          /\ at' = [at EXCEPT ![a].pc = "start"]
          /\ UNCHANGED disturbed
       \/ /\ IF Open(gen.id) THEN Disturb ELSE UNCHANGED disturbed
          /\ at' = [at EXCEPT ![a] = [@ EXCEPT !.pc = "close", !.result = "error"]]
          /\ \/ UNCHANGED goal
             \/ Open(gen.id) /\ goal' = [goal EXCEPT ![ThreadOf[a]] = [by |-> {a}, status |-> "active"]]
    /\ UNCHANGED <<gen, runtime, turn, interrupted>>

\* GoalAttempt.Start up to turn/start.
Start(a) ==
    /\ at[a].pc = "start"
    /\ at' = [at EXCEPT ![a] =
                IF at[a].finished THEN Leave(a, at[a].done)
                ELSE IF at[a].stopReq THEN [@ EXCEPT !.pc = "stop", !.result = "error"]
                ELSE [@ EXCEPT !.pc = "call"]]
    /\ UNCHANGED <<gen, runtime, server, disturbed>>

\* An error, a timeout or a closed client: the whole generation is closed.
TurnStartFails(a) ==
    /\ at[a].pc = "call"
    /\ CloseClient(at[a].gen)
    /\ at' = [at EXCEPT ![a] = Leave(a, "error")]
    /\ UNCHANGED <<runtime, goal, interrupted, disturbed>>

\* turn/start was answered and the caller, scheduled some time later, binds the
\* turn.  Events that were kept are routed afterwards, without the mutex, while
\* the reader goes on.
bindAttempt(a) ==
    LET t == First(a)
        r == [Bound(a, t) EXCEPT !.pc = "replay"]
    IN  /\ at[a].pc = "call" /\ turn[t].state # "none"
        /\ \/ ~MayBind(a, t) /\ at' = [at EXCEPT ![a].pc = "replay"] /\ UNCHANGED interrupted
           \/ MayBind(a, t) /\ at[a].over /\ interruptAttempt(a, r)
           \/ /\ MayBind(a, t) /\ ~at[a].over
              /\ at' = [at EXCEPT ![a] = [r EXCEPT !.replay = at[a].pending]] /\ UNCHANGED interrupted
        /\ UNCHANGED <<gen, runtime, turn, goal, disturbed>>

Replay(a) ==
    LET e == Head(at[a].replay)
        r == [at[a] EXCEPT !.replay = Tail(@)]
    IN  /\ at[a].pc = "replay" /\ at[a].replay # <<>>
        /\ \/ Mine(First(a), e) /\ routeAttempt(a, r, e)
           \/ ~Mine(First(a), e) /\ at' = [at EXCEPT ![a] = r] /\ UNCHANGED <<interrupted, disturbed>>
        /\ UNCHANGED <<gen, runtime, turn, goal>>

\* interruptAndFail: the first one interrupts and waits for the end; when
\* somebody else is already stopping the attempt the caller does not wait.
interruptAndFail(a) ==
    IF at[a].stopping THEN at' = [at EXCEPT ![a] = Leave(a, "error")] /\ UNCHANGED interrupted
    ELSE /\ at' = [at EXCEPT ![a] = [@ EXCEPT !.stopping = TRUE, !.cancelled = TRUE, !.pc = "grace"]]
         /\ Interrupt(a, at[a].turn)

\* A goal that ended meanwhile interrupts the turn that came too late.  (A plain
\* attempt whose context is done goes to interruptAndFail: waitAttemptTimer.)
BoundAndOn(a) ==
    /\ at[a].pc = "replay" /\ at[a].replay = <<>>
    /\ IF IsGoal(a) /\ at[a].finished
       THEN at' = [at EXCEPT ![a] = Leave(a, at[a].done)] /\ Interrupt(a, First(a))
       ELSE at' = [at EXCEPT ![a].pc = "wait"] /\ UNCHANGED interrupted
    /\ UNCHANGED <<gen, runtime, turn, goal, disturbed>>

waitAttemptDone(a) ==
    /\ at[a].pc \in {"wait", "grace"} /\ at[a].done # "none"
    /\ at' = [at EXCEPT ![a] = Leave(a, at[a].done)]
    /\ UNCHANGED <<gen, runtime, server, disturbed>>

\* Mutant of waitAttemptTimer: goals have no timer.
waitAttemptTimerPlain(a) ==
    /\ at[a].pc = "wait" /\ ~IsGoal(a)
    /\ interruptAndFail(a)
    /\ UNCHANGED <<gen, runtime, turn, goal, disturbed>>

\* The total timer, the idle timer or the context; select picks any case that
\* is ready.
waitAttemptTimer(a) ==
    /\ at[a].pc = "wait"
    /\ interruptAndFail(a)
    /\ UNCHANGED <<gen, runtime, turn, goal, disturbed>>

\* Mutant of GraceExpires: there is no timer.
GraceWaits(a) ==
    /\ at[a].pc = "grace" /\ at[a].done # "none"
    /\ at' = [at EXCEPT ![a] = Leave(a, at[a].done)]
    /\ UNCHANGED <<gen, runtime, server, disturbed>>

\* The attempt is left unfinished.
GraceExpires(a) ==
    /\ at[a].pc = "grace"
    /\ at' = [at EXCEPT ![a] = Leave(a, "error")]
    /\ UNCHANGED <<gen, runtime, server, disturbed>>

\* The worker cancels the batch.
CancelContext(a) ==
    /\ at[a].pc \notin {"new", "returned"} /\ ~at[a].cancelled /\ Disturb
    /\ at' = [at EXCEPT ![a].cancelled = TRUE]
    /\ UNCHANGED <<gen, runtime, server>>

\* Deferred: the attempt is unregistered.  Its buffers are garbage from now on.
Return(a) ==
    /\ \/ at[a].pc = "leave" /\ (IsGoal(a) => at[a].result = "ok")
       \/ at[a].pc = "close"
       \/ at[a].pc = "stop" /\ stopper[<<a, "caller">>].pc = "done"
    /\ at' = [at EXCEPT ![a] = [@ EXCEPT !.pc = "returned", !.reg = FALSE, !.cancelled = TRUE,
                 !.pending = <<>>, !.replay = <<>>, !.known = {}, !.items = <<>>,
                 !.awaiting = FALSE, !.over = FALSE, !.done = "none", !.goalErr = "ok"]]
    /\ UNCHANGED <<gen, runtime, server, disturbed>>
-----------------------------------------------------------------------------
(* Stopping a goal.                                                        *)

RequestGoalStop(a) ==
    /\ stopper[<<a, "control">>].pc = "none" /\ at[a].pc # "returned" /\ Disturb
    /\ stopper' = [stopper EXCEPT ![<<a, "control">>].pc = IF at[a].reg THEN "begin" ELSE "pending"]
    /\ UNCHANGED <<gen, at, call, early, server>>

\* startGoal stops a goal that failed before it closes it.
StopByCaller(a) ==
    /\ IsGoal(a) /\ at[a].result = "error" /\ at[a].pc \in {"leave", "stop"}
    /\ stopper[<<a, "caller">>].pc = "none"
    /\ at' = [at EXCEPT ![a].pc = "stop"]
    /\ stopper' = [stopper EXCEPT ![<<a, "caller">>].pc = "begin"]
    /\ UNCHANGED <<gen, call, early, server, disturbed>>

StopOver == [pc |-> "done", turn |-> NoTurn]

BeginStop(a, who) ==
    /\ stopper[<<a, who>>].pc = "begin"
    /\ IF at[a].paused \/ at[a].terminal
       THEN stopper' = [stopper EXCEPT ![<<a, who>>].pc = "done"] /\ UNCHANGED at
       ELSE /\ stopper' = [stopper EXCEPT ![<<a, who>>] = [pc |-> "pause", turn |-> at[a].turn]]
            /\ at' = [at EXCEPT ![a].stopping = TRUE]
    /\ UNCHANGED <<gen, call, early, server, disturbed>>

\* thread/goal/set paused, of whatever goal the thread has now; the
\* notification precedes the answer.
PauseGoal(a, who) ==
    LET h == ThreadOf[a] IN
    /\ stopper[<<a, who>>].pc = "pause" /\ Open(gen.id)
    /\ IF goal[h].status = "active"
       THEN goal' = [goal EXCEPT ![h].status = "paused"] /\ GoalUpdated(h, "error")
       ELSE UNCHANGED <<goal, at, early>>
    /\ stopper' = [stopper EXCEPT ![<<a, who>>].pc = "confirm"]
    /\ UNCHANGED <<gen, call, turn, interrupted, disturbed>>

\* thread/goal/get and what follows from a terminal status.
ConfirmPause(a, who) ==
    LET t == stopper[<<a, who>>].turn
        s == goal[ThreadOf[a]].status
        q == [at[a] EXCEPT !.terminal = TRUE, !.paused = @ \/ s = "paused", !.misled = @ \/ Misleads(a),
                           !.goalErr = IF s = "complete" THEN "ok" ELSE "error"]
    IN  /\ stopper[<<a, who>>].pc = "confirm" /\ Open(gen.id) /\ s \in Terminal
        /\ at' = [at EXCEPT ![a] = IF t = NoTurn THEN Finished(q, q.goalErr) ELSE q]
        /\ IF s = "paused" THEN Interrupt(a, t) ELSE UNCHANGED interrupted
        /\ stopper' = [stopper EXCEPT ![<<a, who>>] = StopOver]
        /\ UNCHANGED <<gen, call, early, turn, goal, disturbed>>

\* Mutant of StopFails: the error is only reported.
StopFailsQuietly(a, who) ==
    /\ stopper[<<a, who>>].pc \in {"pause", "confirm"} /\ Disturb
    /\ stopper' = [stopper EXCEPT ![<<a, who>>] = StopOver]
    /\ UNCHANGED <<gen, turn, at, call, early, goal, interrupted>>

\* Any failure, or a goal that is active again, closes the generation the goal
\* was started on.
StopFails(a, who) ==
    /\ stopper[<<a, who>>].pc \in {"pause", "confirm"}
    /\ IF Open(gen.id) /\ (stopper[<<a, who>>].pc = "confirm" => goal[ThreadOf[a]].status \in Terminal)
       THEN Disturb ELSE UNCHANGED disturbed
    /\ CloseClient(at[a].gen)
    /\ stopper' = [stopper EXCEPT ![<<a, who>>] = StopOver]
    /\ UNCHANGED <<at, call, early, goal, interrupted>>
-----------------------------------------------------------------------------
(* App Server and the reader of its output.                                *)

AcceptTurn(a) ==
    /\ at[a].pc = "call" /\ Open(at[a].gen) /\ turn[First(a)].state = "none"
    /\ turn' = [turn EXCEPT ![First(a)].state = "running"]
    /\ UNCHANGED <<gen, at, runtime, goal, interrupted, disturbed>>

\* dispatch of an event of a plain attempt's thread.  Until the turn id is
\* known events are kept; an item beyond the limit is dropped.
DispatchPlain(a, e) ==
    LET r == at[a] IN
    \/ /\ r.turn = NoTurn
       /\ at' = [at EXCEPT ![a] = IF e.kind = "item" /\ Len(r.pending) >= MaxPending
                                  THEN [r EXCEPT !.over = TRUE]
                                  ELSE [r EXCEPT !.pending = Append(r.pending, e)]]
       /\ UNCHANGED <<interrupted, disturbed>>
    \/ r.turn = e.turn /\ routeAttempt(a, r, e)
    \/ r.turn \notin {NoTurn, e.turn} /\ UNCHANGED <<at, interrupted, disturbed>>

\* The same for a goal, which owns the continuation turns too: turn/started
\* binds a turn and replays what was kept for it; without it, an item or an
\* end does that follows the end of a known turn.  (What is kept twice, or for an
\* attempt that will not bind a turn any more, makes no difference.)
DispatchGoal(a, e) ==
    LET r      == at[a]
        starts == e.kind = "started" /\ MayBind(a, e.turn)
        known  == e.turn \in r.known
        goesOn == e.kind # "started" /\ r.awaiting /\ MayBind(a, e.turn)
    IN  \/ r.finished /\ UNCHANGED <<at, interrupted, disturbed>>
        \/ ~r.finished /\ starts /\ at' = [at EXCEPT ![a] = Rebound(a, e.turn)] /\ UNCHANGED <<interrupted, disturbed>>
        \/ /\ ~r.finished /\ ~starts
           /\ \/ /\ r.turn = NoTurn
                 /\ at' = IF e \in Range(r.pending) \/ ~MayBind(a, e.turn) THEN at
                          ELSE [at EXCEPT ![a] = [r EXCEPT !.pending = Append(r.pending, e)]]
                 /\ UNCHANGED <<interrupted, disturbed>>
              \/ r.turn # NoTurn /\ known /\ routeAttempt(a, r, e)
              \/ r.turn # NoTurn /\ ~known /\ goesOn /\ routeAttempt(a, Bound(a, e.turn), e)
              \/ r.turn # NoTurn /\ ~known /\ ~goesOn /\ UNCHANGED <<at, interrupted, disturbed>>

dispatch(t, kind, n) ==
    LET e == [kind |-> kind, turn |-> t, n |-> n] IN
    /\ \A a \in Owner(t) : IF IsGoal(a) THEN DispatchGoal(a, e) ELSE DispatchPlain(a, e)
    /\ Owner(t) = {} => UNCHANGED <<at, interrupted, disturbed>>                   \* unrouted

\* turn/started, which some versions omit or send late.  Only a goal minds.
EmitStarted(t) ==
    /\ Running(t) /\ IsGoal(t[1]) /\ ~turn[t].announced
    /\ turn' = [turn EXCEPT ![t].announced = TRUE]
    /\ dispatch(t, "started", 0)
    /\ UNCHANGED <<gen, runtime, goal>>

\* item/completed of an agent message.  Those of a goal are not counted.
EmitItem(t) ==
    /\ Running(t) /\ (IsGoal(t[1]) \/ turn[t].sent < ItemsPerTurn)
    /\ turn' = IF IsGoal(t[1]) THEN turn ELSE [turn EXCEPT ![t].sent = @ + 1]
    /\ dispatch(t, "item", turn[t].sent + 1)
    /\ UNCHANGED <<gen, runtime, goal>>

\* turn/completed; an interrupted turn may still complete.  A goal does not
\* look at the status.
EmitEnd(t, status) ==
    /\ Running(t) /\ (IsGoal(t[1]) => status = "completed")
    /\ turn' = [turn EXCEPT ![t] = Over(t, status)]
    /\ dispatch(t, status, 0)
    /\ UNCHANGED <<gen, runtime, goal>>

\* A goal that is active goes on with another turn.
Continue(a) ==
    \E k \in 1 .. MaxContinuations :
        /\ goal[ThreadOf[a]] = [by |-> {a}, status |-> "active"] /\ Open(gen.id)
        /\ turn[<<a, k>>].state \in {"completed", "failed"} /\ turn[<<a, k + 1>>].state = "none"
        /\ turn' = [turn EXCEPT ![<<a, k + 1>>].state = "running"]
        /\ Disturb
        /\ UNCHANGED <<gen, at, runtime, goal, interrupted>>

\* A turn of the goal declares it complete, or the budget is spent.
GoalTerminates(h, status) ==
    /\ goal[h].status = "active" /\ \E t \in Turns : t[1] \in goal[h].by /\ Running(t)
    /\ goal' = [goal EXCEPT ![h].status = status]
    /\ GoalUpdated(h, IF status = "complete" THEN "ok" ELSE "error")
    /\ UNCHANGED <<gen, call, stopper, turn, interrupted, disturbed>>
-----------------------------------------------------------------------------
(* handleServerRequest, one goroutine per call.                            *)

CallTo(c, pc) == call' = [call EXCEPT ![c].pc = pc]
Quiet == UNCHANGED <<gen, at, stopper, early, server, disturbed>>

\* The attempts of the thread are copied; with none the call is refused.
CallArrives(c, t) ==
    /\ call[c].pc = "none" /\ Running(t)
    /\ call' = [call EXCEPT ![c] = [pc |-> IF Owner(t) = {} THEN "done" ELSE "look",
                                    turn |-> t, owner |-> Owner(t)]]
    /\ Quiet

\* The turn is the attempt's and not over.
Matches(c, a) == at[a].turn = call[c].turn /\ ~at[a].finished

\* An attempt that does not know its turn yet is waited for.
LookUp(c, a) ==
    /\ call[c].pc = "look"
    /\ CallTo(c, IF at[a].turn = NoTurn THEN "bound" ELSE IF Matches(c, a) THEN "slot" ELSE "done")
    /\ Quiet

AwaitBound(c, a) ==
    /\ call[c].pc = "bound" /\ at[a].boundClosed
    /\ CallTo(c, IF Matches(c, a) THEN "slot" ELSE "done")
    /\ Quiet

\* One of the attempt's slots, or the end of its context.
TakeSlot(c, a) ==
    /\ call[c].pc = "slot"
    /\ \/ /\ Cardinality({d \in Calls : a \in call[d].owner /\ call[d].pc \in {"permit", "running"}}) < ActionSlots
          /\ CallTo(c, "permit")
       \/ at[a].cancelled /\ CallTo(c, "done")
    /\ Quiet

\* The permit: under the mutex of finish.
StartHandler(c, a) ==
    /\ call[c].pc = "permit"
    /\ CallTo(c, IF Matches(c, a) THEN "running" ELSE "done")
    /\ Quiet

HandlerReturns(c, a) ==
    /\ call[c].pc = "running"
    /\ CallTo(c, "done")
    /\ Quiet

Handler(c) == \E a \in call[c].owner :
    LookUp(c, a) \/ AwaitBound(c, a) \/ TakeSlot(c, a) \/ StartHandler(c, a) \/ HandlerReturns(c, a)
-----------------------------------------------------------------------------
Caller(a) ==
    \/ Register(a) \/ SetGoal(a) \/ Start(a) \/ TurnStartFails(a)
    \/ bindAttempt(a) \/ Replay(a) \/ BoundAndOn(a) \/ waitAttemptDone(a) \/ waitAttemptTimer(a)
    \/ GraceExpires(a) \/ Return(a) \/ StopByCaller(a)
Stopper(a, who) == BeginStop(a, who) \/ PauseGoal(a, who) \/ ConfirmPause(a, who) \/ StopFails(a, who)
Recovery == onGenerationExit \/ startGeneration \/ \E a \in Attempts : failAttempts(a)

Next ==
    \/ AppServerExits \/ Recovery \/ Close
    \/ \E a \in Attempts : client(a) \/ Caller(a) \/ CancelContext(a) \/ AcceptTurn(a)
    \/ \E a \in GoalAttempts : RequestGoalStop(a) \/ Continue(a) \/ \E who \in Stoppers : Stopper(a, who)
    \/ \E t \in Turns : EmitStarted(t) \/ EmitItem(t) \/ \E s \in {"completed", "failed"} : EmitEnd(t, s)
    \/ \E h \in Threads, s \in {"complete", "limited"} : GoalTerminates(h, s)
    \/ \E c \in Calls : Handler(c) \/ \E t \in Turns : CallArrives(c, t)

Spec == Init /\ [][Next]_vars

\* Goroutines run, calls and timers have a deadline, handlers end.  App Server
\* owes nothing: it need not answer, emit or die.
FairSpec ==
    /\ Spec
    /\ \A a \in Attempts : WF_vars(Caller(a))
    /\ \A a \in GoalAttempts, who \in Stoppers : WF_vars(Stopper(a, who))
    /\ \A c \in Calls : WF_vars(Handler(c))
    /\ WF_vars(Recovery)
-----------------------------------------------------------------------------
Verdicts == {"none", "ok", "error"}
Events == [kind : {"started", "item", "completed", "failed"}, turn : Turns, n : Nat]
Generations == [id : Nat \ {0}, open : BOOLEAN, state : {"ready", "failing", "unavailable", "closed"},
                failing : SUBSET Attempts]
AttemptRecords ==
    [pc : {"new", "client", "set", "start", "call", "replay", "wait", "grace", "leave", "stop", "close", "returned"},
     gen : Nat, reg : BOOLEAN, turn : Turns \cup {NoTurn}, pending : Seq(Events), replay : Seq(Events),
     finished : BOOLEAN, done : Verdicts, stopping : BOOLEAN, cancelled : BOOLEAN,
     boundClosed : BOOLEAN, over : BOOLEAN, known : SUBSET Turns, terminal : BOOLEAN,
     goalErr : {"ok", "error"}, awaiting : BOOLEAN, paused : BOOLEAN, stopReq : BOOLEAN, items : Seq(Turns \X Nat),
     result : Verdicts, misled : BOOLEAN]
CallRecords == [pc : {"none", "look", "bound", "slot", "permit", "running", "done"},
                turn : Turns \cup {NoTurn}, owner : SUBSET Attempts]
StopRecords == [pc : {"none", "pending", "begin", "pause", "confirm", "done"}, turn : Turns \cup {NoTurn}]
TurnRecords == [state : {"none", "running", "completed", "failed", "dead"}, sent : Nat, announced : BOOLEAN]
GoalRecords == [by : SUBSET Attempts, status : {"none", "active"} \cup Terminal]

\* Type invariant: generations, attempts, callers, stoppers and tool calls take only
\* the values the code gives them.
TypeOK ==
    /\ gen \in Generations
    /\ at \in [Attempts -> AttemptRecords]
    /\ call \in [Calls -> CallRecords]
    /\ stopper \in [GoalAttempts \X Stoppers -> StopRecords]
    /\ early \in [Threads -> Verdicts]
    /\ turn \in [Turns -> TurnRecords]
    /\ goal \in [Threads -> GoalRecords]
    /\ interrupted \subseteq Turns /\ disturbed \in Nat

\* Whoever reports success has it: a plain attempt's own turn completed, and the goal
\* this attempt set was declared complete by App Server, whatever timers, stops,
\* exits and stray events of the thread's older turns and goals came in between.
\* The one exception is an attempt that took the end of a goal another attempt had
\* set for its own (misled; GoalEndsByItsOwnStatus below).
SuccessIsReal ==
    \A a \in Attempts :
        at[a].pc = "leave" /\ at[a].result = "ok" =>
            IF IsGoal(a) THEN at[a].misled \/ goal[ThreadOf[a]] = [by |-> {a}, status |-> "complete"]
                         ELSE turn[First(a)].state = "completed"

\* A plain attempt shows items of its own turn only, none of them twice.
OwnItems ==
    \A a \in Attempts \ GoalAttempts :
        /\ \A k \in DOMAIN at[a].items : at[a].items[k][1] = First(a)
        /\ \A j, k \in DOMAIN at[a].items : at[a].items[j] = at[a].items[k] => j = k

\* What an attempt reports is its own: its success and its items.
ResultsAreOwn == SuccessIsReal /\ OwnItems

\* Nothing is left running unasked: when the caller of a plain attempt has
\* returned, a turn of it that goes on was told to stop.
NoStrayTurn ==
    \A a \in Attempts \ GoalAttempts :
        at[a].pc = "returned" /\ Running(First(a)) => First(a) \in interrupted

\* No goal is left to App Server: one that is still active when its caller has
\* returned was started on a generation that is gone, whatever other goals the
\* thread had.  Two exceptions: the attempt took the end of another goal for its
\* own (misled), or the answer to the call that set the goal was lost; startGoal
\* then returns the error without stopping it, but no turn was started for it.
NoOrphanGoal ==
    \A a \in GoalAttempts :
        at[a].pc = "returned" /\ goal[ThreadOf[a]] = [by |-> {a}, status |-> "active"] =>
            \/ at[a].misled \/ ~Open(at[a].gen)
            \/ at[a].result = "error" /\ turn[First(a)].state = "none" /\ stopper[<<a, "caller">>].pc = "none"

\* A tool handler that runs beyond the end of its attempt does so with a
\* cancelled context.
ToolsStopWithTheirTurn ==
    \A c \in Calls : \A a \in call[c].owner :
        call[c].pc = "running" /\ (at[a].finished \/ at[a].pc \in {"grace", "returned"}) => at[a].cancelled

\* Nothing of an attempt goes on after it uncontrolled, neither its turn nor its
\* tool handlers.
NothingRunsOn == NoStrayTurn /\ ToolsStopWithTheirTurn

\* Every caller gets an answer, whatever App Server does.
CallersReturn == []<>(\A a \in Attempts : at[a].pc \in {"new", "returned"})

\* Every tool call is answered, unless it waits for the turn id of an attempt
\* whose turn/start failed: nobody closes that channel.
HandlersEnd ==
    []<>(\A c \in Calls : call[c].pc # "none" =>
            \/ call[c].pc = "done"
            \/ call[c].pc = "bound" /\ \A a \in call[c].owner : at[a].pc = "returned" /\ ~at[a].finished)
-----------------------------------------------------------------------------
(* What comments and documents say and the code does not do.               *)

\* "finishes only when the Goal reports a terminal status (or a local failure
\* occurs)": a terminal status that came for an older goal of the thread, when
\* its attempt had finished, waits in earlyGoalUpdates and ends the next goal.
GoalEndsByItsOwnStatus ==
    \A a \in GoalAttempts : at[a].reg /\ at[a].terminal => goal[ThreadOf[a]].by = {a}
=============================================================================
