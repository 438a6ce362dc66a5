-------------------------- MODULE CodexRuntimeProofs --------------------------
(***************************************************************************)
(* Proofs about CodexRuntime, for any number of attempts, threads, tool     *)
(* calls, continuation turns, items and disturbances.                      *)
(***************************************************************************)
EXTENDS CodexRuntime, SequenceTheorems, TLAPS

Plain == Attempts \ GoalAttempts

-----------------------------------------------------------------------------
(* The inductive invariant.                                                *)

\* Turns run on the current generation only, and a first turn on the generation
\* its attempt took; attempts are registered between Register and Return.
GenInv ==
    /\ gen.failing # {} => gen.state \in {"failing", "closed"}
    /\ \A t \in Turns : Running(t) => gen.state = "ready" /\ gen.open
    /\ \A a \in Attempts :
          /\ at[a].gen <= gen.id
          /\ Running(First(a)) => at[a].gen = gen.id
          /\ at[a].pc \in {"new", "client"} => turn[First(a)].state = "none"

\* A finished attempt and one nobody waits for have a cancelled context; calls
\* belong to attempts that were registered.
ToolInv ==
    /\ \A a \in Attempts :
          /\ at[a].reg => at[a].pc \notin {"new", "client", "returned"}
          /\ at[a].pc = "new" => at[a].gen = 0
          /\ at[a].pc = "client" \/ at[a].reg => at[a].gen # 0
          /\ at[a].finished \/ at[a].pc = "grace" => at[a].cancelled
          /\ at[a].pc = "returned" /\ at[a].gen # 0 => at[a].cancelled
    /\ \A a \in gen.failing : at[a].pc \notin {"new", "client"}
    /\ \A c \in Calls : \A a \in call[c].owner : at[a].gen # 0

\* A turn that is over, or that App Server was told to stop.
Told(a) == ~Running(First(a)) \/ First(a) \in interrupted
Unbound == {"new", "client", "call"}
PlainPlaces == {"new", "client", "call", "replay", "wait", "grace", "leave", "returned"}
PlainOf(a, r) ==
    /\ r.pc \in PlainPlaces
    /\ r.turn \in {NoTurn, First(a)}
    /\ r.pc \in Unbound => r.turn = NoTurn /\ ~r.stopping
    /\ r.pc \in {"replay", "wait"} => (r.turn = First(a) \/ r.finished) /\ (r.stopping => r.finished)
    /\ r.finished \/ r.pc \in {"grace", "leave", "returned"} => Told(a)
    /\ r.finished => r.pc \notin {"new", "client"}
    /\ r.finished /\ r.pc = "call" => ~Open(r.gen)
    /\ r.done # "none" => r.finished
    /\ r.done = "ok" \/ r.result = "ok" => turn[First(a)].state = "completed"
PlainInv == \A a \in Plain : PlainOf(a, at[a])

\* An end that was kept is the end the turn had.
TrueEnds(s) == \A k \in DOMAIN s : s[k].kind \in {"completed", "failed"} => turn[s[k].turn].state = s[k].kind
EndsInv == \A a \in Plain : TrueEnds(at[a].pending) /\ TrueEnds(at[a].replay)

\* The items of a turn are kept, replayed or shown, each in one place and once.
ItemOf(t, e) == e.kind = "item" /\ e.turn = t
Distinct(t, s, sent) ==
    /\ \A k \in DOMAIN s : ItemOf(t, s[k]) => s[k].n <= sent
    /\ \A j, k \in DOMAIN s : ItemOf(t, s[j]) /\ ItemOf(t, s[k]) /\ s[j].n = s[k].n => j = k
ItemsOf(a, r, sent) ==
    /\ r.turn = NoTurn => r.items = <<>> /\ r.replay = <<>>
    /\ r.turn # NoTurn => r.pending = <<>>
    /\ Distinct(First(a), r.pending, sent) /\ Distinct(First(a), r.replay, sent)
    /\ \A k \in DOMAIN r.items : r.items[k][1] = First(a) /\ r.items[k][2] <= sent
    /\ \A j, k \in DOMAIN r.items : r.items[j] = r.items[k] => j = k
    /\ \A j \in DOMAIN r.replay, k \in DOMAIN r.items :
          ItemOf(First(a), r.replay[j]) => r.items[k] # <<First(a), r.replay[j].n>>
ItemsInv == \A a \in Plain : ItemsOf(a, at[a], turn[First(a)].sent)

\* Attempts of one thread run one after the other.
SerInv ==
    \A a, b \in Attempts : b < a /\ ThreadOf[b] = ThreadOf[a] /\ at[a].pc # "new" => at[b].pc = "returned"

\* The goal of the thread is the attempt's.  It is until the attempt has returned and another
\* one has set a goal of its own.
StatusOf(a) == goal[ThreadOf[a]].status
Own(a) == goal[ThreadOf[a]].by = {a}
OwnIn(a, r, S) == (r.pc # "returned" => Own(a)) /\ (Own(a) => StatusOf(a) \in S)
\* What an attempt believes of its goal is so, unless the end of another goal misled it.
GoalOf(a, r) ==
    /\ r.pc \in {"new", "client", "set"} => ~Own(a)
    /\ r.terminal => r.misled \/ OwnIn(a, r, Terminal)
    /\ r.terminal /\ r.goalErr = "ok" /\ r.pc # "returned" => r.misled \/ OwnIn(a, r, {"complete"})
    /\ r.paused => r.terminal
    /\ r.done = "ok" \/ r.result = "ok" => r.misled \/ OwnIn(a, r, {"complete"})
\* The stop that the caller itself runs: it is over when the caller returns, and then
\* the goal has ended or the client it was started on is closed.
StopOf(a, r) ==
    LET stop == stopper[<<a, "caller">>].pc IN
    /\ stop # "none" => r.pc \in {"stop", "returned"}
    /\ r.pc = "returned" => stop \in {"none", "done"}
    /\ stop = "done" => r.misled \/ (Own(a) => StatusOf(a) \in Terminal) \/ ~Open(r.gen)
\* No turn before turn/start; a caller that fails without a stop has not come that far.
EarlyOf(a, r) ==
    /\ r.pc \in {"set", "start", "close"} => turn[First(a)].state = "none"
    /\ r.pc = "close" => r.result = "error"
    /\ r.pc = "returned" /\ stopper[<<a, "caller">>].pc = "none" =>
          r.result = "ok" \/ (r.result = "error" /\ turn[First(a)].state = "none")
GoalInv == \A a \in GoalAttempts : GoalOf(a, at[a]) /\ StopOf(a, at[a]) /\ EarlyOf(a, at[a])

IInv == TypeOK /\ GenInv /\ ToolInv /\ SerInv /\ PlainInv /\ EndsInv /\ ItemsInv /\ GoalInv
-----------------------------------------------------------------------------
(* What the transitions of an attempt's record do, field by field.         *)

SameCore(r, q) ==
    /\ q.gen = r.gen /\ q.reg = r.reg
    /\ q.terminal = r.terminal /\ q.goalErr = r.goalErr /\ q.paused = r.paused /\ q.misled = r.misled
SameBuffers(r, q) == q.turn = r.turn /\ q.pending = r.pending /\ q.replay = r.replay /\ q.items = r.items
SameEnd(r, q) ==
    q.finished = r.finished /\ q.done = r.done /\ q.stopping = r.stopping /\ q.cancelled = r.cancelled
\* A record that moved on without anything else having happened.
Went(r, q, pc) == q \in AttemptRecords /\ SameCore(r, q) /\ SameBuffers(r, q) /\ SameEnd(r, q) /\ q.pc = pc

Places == {"new", "client", "set", "start", "call", "replay", "wait", "grace", "leave", "stop", "close", "returned"}

LEMMA WentFacts ==
    ASSUME NEW r \in AttemptRecords, NEW p \in Places, NEW v \in Verdicts
    PROVE  /\ Went(r, [r EXCEPT !.pc = p], p) /\ [r EXCEPT !.pc = p].result = r.result
           /\ Went(r, [r EXCEPT !.pc = p, !.result = v], p)
           /\ [r EXCEPT !.pc = p, !.result = v].result = v
<1>1. [r EXCEPT !.pc = p] \in AttemptRecords BY DEF AttemptRecords, Places
<1>2. [r EXCEPT !.pc = p, !.result = v] \in AttemptRecords BY DEF AttemptRecords, Places
<1> QED BY <1>1, <1>2 DEF AttemptRecords, Went, SameCore, SameBuffers, SameEnd

\* finish changes what is recorded of the end, once.
Ended(r, q, err) ==
    /\ q \in AttemptRecords /\ SameCore(r, q) /\ SameBuffers(r, q)
    /\ q.pc = r.pc /\ q.result = r.result /\ q.stopping = r.stopping
    /\ \/ r.finished /\ q = r
       \/ ~r.finished /\ q.finished /\ q.cancelled /\ q.done = err

LEMMA FinishedFacts ==
    ASSUME NEW r \in AttemptRecords, NEW err \in Verdicts
    PROVE  Ended(r, Finished(r, err), err)
<1> DEFINE q == [r EXCEPT !.finished = TRUE, !.done = err, !.cancelled = TRUE, !.boundClosed = TRUE]
<1>1. q \in AttemptRecords BY DEF AttemptRecords
<1>2. SameCore(r, q) /\ SameBuffers(r, q) BY DEF AttemptRecords, SameCore, SameBuffers
<1>3. q.pc = r.pc /\ q.result = r.result /\ q.stopping = r.stopping /\ q.done = err
  BY DEF AttemptRecords
<1>4. q.finished /\ q.cancelled BY DEF AttemptRecords
<1>5. CASE r.finished BY <1>5 DEF Ended, Finished, SameCore, SameBuffers
<1>6. CASE ~r.finished
  <2>1. Finished(r, err) = q BY <1>6 DEF Finished
  <2> HIDE DEF q
  <2> QED BY <1>1, <1>2, <1>3, <1>4, <1>6, <2>1 DEF Ended
<1> QED BY <1>5, <1>6

\* Binding a turn clears what was kept.
LEMMA BoundFacts ==
    ASSUME TypeOK, NEW a \in Attempts, NEW t \in Turns, NEW q, q = Bound(a, t)
    PROVE  /\ q \in AttemptRecords /\ SameCore(at[a], q) /\ SameEnd(at[a], q)
           /\ q.turn = t /\ q.pending = <<>> /\ q.replay = at[a].replay /\ q.items = at[a].items
           /\ q.pc = at[a].pc /\ q.result = at[a].result
<1> DEFINE r == at[a]
           k == IF IsGoal(a) THEN r.known \cup {t} ELSE r.known
           w == r.awaiting /\ ~IsGoal(a)
<1>1. r \in AttemptRecords BY DEF TypeOK
<1>2. <<>> \in Seq(Events) BY EmptySeq
<1>3. k \in SUBSET Turns BY <1>1 DEF AttemptRecords
<1>4. w \in BOOLEAN OBVIOUS
<1>5. q = [r EXCEPT !.turn = t, !.boundClosed = TRUE, !.pending = <<>>, !.known = k, !.awaiting = w]
  BY DEF Bound
<1> HIDE DEF r, k, w
<1>6. q \in AttemptRecords BY ONLY <1>1, <1>2, <1>3, <1>4, <1>5, t \in Turns DEF AttemptRecords
<1>7. /\ SameCore(r, q) /\ SameEnd(r, q)
      /\ q.turn = t /\ q.pending = <<>> /\ q.replay = r.replay /\ q.items = r.items
      /\ q.pc = r.pc /\ q.result = r.result
  BY ONLY <1>1, <1>5 DEF AttemptRecords, SameCore, SameEnd
<1> QED BY <1>6, <1>7 DEF r

LEMMA ReboundFacts ==
    ASSUME TypeOK, NEW a \in Attempts, NEW t \in Turns, NEW q, q = Rebound(a, t)
    PROVE  /\ q \in AttemptRecords /\ SameCore(at[a], q) /\ SameEnd(at[a], q)
           /\ q.turn = t /\ q.pending = <<>> /\ q.replay = at[a].replay /\ q.items = at[a].items
           /\ q.pc = at[a].pc /\ q.result = at[a].result
<1> DEFINE b == Bound(a, t)
           w == \E k \in DOMAIN at[a].pending :
                    Mine(t, at[a].pending[k]) /\ at[a].pending[k].kind \in {"completed", "failed"}
<1>1. /\ b \in AttemptRecords /\ SameCore(at[a], b) /\ SameEnd(at[a], b)
      /\ b.turn = t /\ b.pending = <<>> /\ b.replay = at[a].replay /\ b.items = at[a].items
      /\ b.pc = at[a].pc /\ b.result = at[a].result
  BY BoundFacts
<1>2. w \in BOOLEAN OBVIOUS
<1>3. q = [b EXCEPT !.awaiting = w] BY DEF Rebound
<1> HIDE DEF b, w
<1>4. q \in AttemptRecords BY ONLY <1>1, <1>2, <1>3 DEF AttemptRecords
<1>5. /\ SameCore(b, q) /\ SameEnd(b, q)
      /\ q.turn = b.turn /\ q.pending = b.pending /\ q.replay = b.replay /\ q.items = b.items
      /\ q.pc = b.pc /\ q.result = b.result
  BY ONLY <1>1, <1>3 DEF AttemptRecords, SameCore, SameEnd
<1> QED BY <1>1, <1>4, <1>5 DEF SameCore, SameEnd

\* An item that was shown.
Added(r, q, e) ==
    /\ q \in AttemptRecords /\ SameCore(r, q) /\ SameEnd(r, q) /\ q.pc = r.pc /\ q.result = r.result
    /\ q.turn = r.turn /\ q.pending = r.pending /\ q.replay = r.replay
    /\ q.items = Append(r.items, <<e.turn, e.n>>)

LEMMA RoutedPlain ==
    ASSUME NEW a \in Plain, NEW r \in AttemptRecords, NEW e \in Events, NEW q, q = Routed(a, r, e)
    PROVE  \/ q = r
           \/ e.kind = "item" /\ ~r.finished /\ Added(r, q, e)
           \/ e.kind = "completed" /\ Ended(r, q, "ok")
           \/ e.kind = "failed" /\ Ended(r, q, "error")
<1>1. ~IsGoal(a) BY DEF Plain, IsGoal
<1>2. e.kind \in {"started", "item", "completed", "failed"} /\ e.turn \in Turns /\ e.n \in Nat BY DEF Events
<1>3. CASE e.kind = "item" /\ ~r.finished
  <2> DEFINE s == Append(r.items, <<e.turn, e.n>>)
  <2>1. r.items \in Seq(Turns \X Nat) /\ <<e.turn, e.n>> \in Turns \X Nat BY <1>2 DEF AttemptRecords
  <2>2. s \in Seq(Turns \X Nat) BY <2>1
  <2>3. q = [r EXCEPT !.items = s] BY <1>1, <1>3 DEF Routed
  <2> HIDE DEF s
  <2>4. q \in AttemptRecords BY ONLY r \in AttemptRecords, <2>2, <2>3 DEF AttemptRecords
  <2>5. /\ SameCore(r, q) /\ SameEnd(r, q) /\ q.pc = r.pc /\ q.result = r.result
        /\ q.turn = r.turn /\ q.pending = r.pending /\ q.replay = r.replay /\ q.items = s
    BY ONLY r \in AttemptRecords, <2>3 DEF AttemptRecords, SameCore, SameEnd
  <2> QED BY <1>3, <2>4, <2>5 DEF Added, s
<1>4. CASE e.kind = "completed"
  <2>1. q = Finished(r, "ok") BY <1>1, <1>4 DEF Routed
  <2> QED BY <1>4, <2>1, FinishedFacts DEF Verdicts
<1>5. CASE e.kind = "failed"
  <2>1. q = Finished(r, "error") BY <1>1, <1>5 DEF Routed
  <2> QED BY <1>5, <2>1, FinishedFacts DEF Verdicts
<1>6. CASE e.kind = "started" \/ (e.kind = "item" /\ r.finished) BY <1>6 DEF Routed
<1> QED BY <1>2, <1>3, <1>4, <1>5, <1>6

LEMMA RoutedGoal ==
    ASSUME NEW a \in GoalAttempts, NEW r \in AttemptRecords, NEW e \in Events, NEW q, q = Routed(a, r, e)
    PROVE  \/ Went(r, q, r.pc) /\ q.result = r.result
           \/ r.terminal /\ Ended(r, q, r.goalErr)
<1>1. IsGoal(a) BY DEF IsGoal
<1>2. e.kind \in {"started", "item", "completed", "failed"} BY DEF Events
<1>3. CASE e.kind \in {"started", "item"}
  <2>1. q = r BY <1>1, <1>3 DEF Routed
  <2> QED BY <2>1 DEF Went, SameCore, SameBuffers, SameEnd
<1>4. CASE e.kind \in {"completed", "failed"} /\ r.terminal
  <2>1. q = Finished(r, r.goalErr) BY <1>1, <1>4 DEF Routed
  <2>2. r.goalErr \in Verdicts BY DEF AttemptRecords, Verdicts
  <2> QED BY <1>4, <2>1, <2>2, FinishedFacts
<1>5. CASE e.kind \in {"completed", "failed"} /\ ~r.terminal
  <2>1. q = [r EXCEPT !.awaiting = TRUE] BY <1>1, <1>5 DEF Routed
  <2>2. q \in AttemptRecords BY ONLY r \in AttemptRecords, <2>1 DEF AttemptRecords
  <2>3. SameCore(r, q) /\ SameBuffers(r, q) /\ SameEnd(r, q) /\ q.pc = r.pc /\ q.result = r.result
    BY ONLY r \in AttemptRecords, <2>1 DEF AttemptRecords, SameCore, SameBuffers, SameEnd
  <2> QED BY <2>2, <2>3 DEF Went
<1> QED BY <1>2, <1>3, <1>4, <1>5

\* interruptAttempt finishes the attempt together with the interrupt.
Stopped(r, q) ==
    /\ q \in AttemptRecords /\ SameCore(r, q) /\ SameBuffers(r, q) /\ q.pc = r.pc /\ q.result = r.result
    /\ q.finished /\ q.cancelled /\ q.done = "error"

LEMMA StoppedFacts ==
    ASSUME NEW r \in AttemptRecords, ~r.finished, NEW q, q = Finished([r EXCEPT !.stopping = TRUE], "error")
    PROVE  Stopped(r, q)
<1> DEFINE s == [r EXCEPT !.stopping = TRUE]
<1>1. s \in AttemptRecords BY DEF AttemptRecords
<1>2. SameCore(r, s) /\ SameBuffers(r, s) /\ s.pc = r.pc /\ s.result = r.result /\ s.finished = r.finished
  BY DEF AttemptRecords, SameCore, SameBuffers
<1> HIDE DEF s
<1>3. q = Finished(s, "error") BY DEF s
<1>4. Ended(s, q, "error") BY <1>1, <1>3, FinishedFacts DEF Verdicts
<1>5. ~s.finished BY <1>2
<1> QED BY <1>2, <1>4, <1>5 DEF Ended, Stopped, SameCore, SameBuffers

\* A terminal status of the goal.
Terminated(r, q, err) ==
    /\ q \in AttemptRecords /\ SameBuffers(r, q) /\ q.pc = r.pc /\ q.result = r.result
    /\ q.gen = r.gen /\ q.reg = r.reg /\ q.paused = r.paused /\ q.stopping = r.stopping
    /\ q.terminal /\ q.goalErr = err
    /\ \/ q.finished = r.finished /\ q.done = r.done /\ q.cancelled = r.cancelled
       \/ q.finished /\ q.cancelled /\ q.done = err

\* Only the end of its own goal does not mislead an attempt.
Informed(a, r, q) == q.misled \/ (~r.misled /\ Own(a))

LEMMA GoalEndsFacts ==
    ASSUME NEW a, NEW r \in AttemptRecords, NEW err \in {"ok", "error"}, NEW q, q = GoalEnds(a, r, err)
    PROVE  Terminated(r, q, err) /\ Informed(a, r, q)
<1> DEFINE m == r.misled \/ Misleads(a)
           s == [r EXCEPT !.terminal = TRUE, !.goalErr = err, !.misled = m]
<1>0. m \in BOOLEAN /\ (m \/ (~r.misled /\ Own(a))) BY DEF Misleads, Own
<1>4. q = s \/ q = Finished(s, err) BY DEF GoalEnds
<1> HIDE DEF m
<1>1. s \in AttemptRecords BY <1>0 DEF AttemptRecords
<1>2. /\ SameBuffers(r, s) /\ s.pc = r.pc /\ s.result = r.result
      /\ s.gen = r.gen /\ s.reg = r.reg /\ s.paused = r.paused
      /\ s.goalErr = err /\ s.finished = r.finished /\ s.done = r.done /\ s.cancelled = r.cancelled
      /\ s.stopping = r.stopping /\ s.misled = m
  BY DEF AttemptRecords, SameBuffers
<1>3. s.terminal BY DEF AttemptRecords
<1> HIDE DEF s
<1>7. Informed(a, r, s) BY <1>0, <1>2 DEF Informed
<1>5. CASE q = s BY <1>1, <1>2, <1>3, <1>5, <1>7 DEF Terminated
<1>6. CASE q = Finished(s, err)
  <2>1. Ended(s, q, err) BY <1>1, <1>6, FinishedFacts DEF Verdicts
  <2>2. q = s \/ (q.finished /\ q.cancelled /\ q.done = err) BY <2>1 DEF Ended
  <2>3. Informed(a, r, q) BY <1>7, <2>1 DEF Informed, Ended, SameCore
  <2> QED BY <1>2, <1>3, <1>5, <2>1, <2>2, <2>3 DEF Ended, Terminated, SameCore, SameBuffers
<1> QED BY <1>4, <1>5, <1>6
-----------------------------------------------------------------------------
(* What the actions do to the attempts: a step changes at most one of them,  *)
(* except that a terminal status goes to the attempt of its thread.          *)

Only(a) ==
    /\ at' \in [Attempts -> AttemptRecords]
    /\ \A b \in Attempts : b # a => at'[b] = at[b]

LEMMA Update ==
    ASSUME TypeOK, NEW a \in Attempts, NEW q \in AttemptRecords, at' = [at EXCEPT ![a] = q]
    PROVE  Only(a) /\ at'[a] = q
BY DEF TypeOK, Only

LEMMA Attempt == ASSUME TypeOK, NEW a \in Attempts PROVE at[a] \in AttemptRecords
BY DEF TypeOK

LEMMA FirstTurn == ASSUME NEW a \in Attempts PROVE First(a) \in Turns /\ First(a) # NoTurn
BY RuntimeAssumption DEF First, Turns, NoTurn

LEMMA NoTurnIsNone == ASSUME NEW t \in Turns PROVE t # NoTurn
<1>1. PICK a \in Attempts, k \in 1 .. 1 + MaxContinuations : t = <<a, k>> BY DEF Turns
<1> QED BY <1>1 DEF NoTurn

LEMMA InterruptFacts ==
    ASSUME TypeOK, NEW a \in Attempts, NEW t \in Turns \cup {NoTurn}, Interrupt(a, t)
    PROVE  /\ interrupted' \subseteq Turns /\ interrupted \subseteq interrupted'
           /\ t # NoTurn /\ Open(at[a].gen) => t \in interrupted'
BY DEF TypeOK, Interrupt

LEMMA clientShape ==
    ASSUME TypeOK, NEW a \in Attempts, client(a)
    PROVE  /\ Only(a) /\ at[a].pc = "new" /\ SameBuffers(at[a], at'[a]) /\ SameEnd(at[a], at'[a])
           /\ at'[a].reg = at[a].reg /\ at'[a].terminal = at[a].terminal
           /\ at'[a].goalErr = at[a].goalErr /\ at'[a].paused = at[a].paused /\ at'[a].misled = at[a].misled
           /\ \/ gen.state = "ready" /\ at'[a].pc = "client" /\ at'[a].gen = gen.id /\ at'[a].result = at[a].result
              \/ at'[a].pc = "returned" /\ at'[a].gen = at[a].gen /\ at'[a].result = "error"
<1> DEFINE r == at[a]
           q1 == [r EXCEPT !.gen = gen.id, !.pc = "client"]
           q2 == [r EXCEPT !.pc = "returned", !.result = "error"]
<1>1. r \in AttemptRecords BY Attempt
<1>2. gen.id \in Nat BY DEF TypeOK, Generations
<1>3. at' = [at EXCEPT ![a] = IF gen.state = "ready" THEN q1 ELSE q2] BY DEF client
<1>4. r.pc = "new" BY DEF client
<1>5. CASE gen.state = "ready"
  <2>1. at' = [at EXCEPT ![a] = q1] BY <1>3, <1>5
  <2> HIDE DEF r
  <2>2. q1 \in AttemptRecords BY ONLY <1>1, <1>2 DEF AttemptRecords
  <2>3. /\ SameBuffers(r, q1) /\ SameEnd(r, q1) /\ q1.reg = r.reg /\ q1.terminal = r.terminal
        /\ q1.goalErr = r.goalErr /\ q1.paused = r.paused /\ q1.misled = r.misled
        /\ q1.pc = "client" /\ q1.gen = gen.id /\ q1.result = r.result
    BY ONLY <1>1, <1>2 DEF AttemptRecords, SameBuffers, SameEnd
  <2> HIDE DEF q1
  <2>4. Only(a) /\ at'[a] = q1 BY <2>1, <2>2, Update
  <2> QED BY <1>4, <1>5, <2>3, <2>4 DEF r
<1>6. CASE gen.state # "ready"
  <2>1. at' = [at EXCEPT ![a] = q2] BY <1>3, <1>6
  <2> HIDE DEF r
  <2>2. Went(r, q2, "returned") /\ q2.result = "error" BY <1>1, WentFacts DEF Places, Verdicts
  <2> HIDE DEF q2
  <2>3. Only(a) /\ at'[a] = q2 BY <2>1, <2>2, Update DEF Went
  <2> QED BY <1>4, <2>2, <2>3 DEF Went, SameCore, r
<1> QED BY <1>5, <1>6

LEMMA RegisterShape ==
    ASSUME TypeOK, NEW a \in Attempts, Register(a)
    PROVE  /\ Only(a) /\ at[a].pc = "client" /\ SameBuffers(at[a], at'[a])
           /\ at'[a].reg /\ at'[a].gen = at[a].gen /\ at'[a].paused = at[a].paused
           /\ at'[a].result = at[a].result /\ at'[a].stopping = at[a].stopping
           /\ at'[a].pc = IF IsGoal(a) THEN "set" ELSE "call"
           /\ \/ /\ at'[a].terminal = at[a].terminal /\ at'[a].goalErr = at[a].goalErr
                 /\ at'[a].misled = at[a].misled /\ SameEnd(at[a], at'[a]) /\ early' = early
              \/ /\ IsGoal(a) /\ at'[a].terminal /\ Informed(a, at[a], at'[a])
                 /\ \/ at'[a].finished = at[a].finished /\ at'[a].cancelled = at[a].cancelled
                    \/ at'[a].finished /\ at'[a].cancelled
<1> DEFINE h == ThreadOf[a]
           p == IF IsGoal(a) THEN "set" ELSE "call"
           x == IsGoal(a) /\ stopper[<<a, "control">>].pc = "pending"
           r == at[a]
           s == [r EXCEPT !.reg = TRUE, !.pc = p, !.stopReq = x]
<1>1. r \in AttemptRecords BY Attempt
<1>2. x \in BOOLEAN /\ p \in Places BY DEF Places
<1>3. \/ IsGoal(a) /\ early[h] # "none" /\ at' = [at EXCEPT ![a] = GoalEnds(a, s, early[h])]
      \/ at' = [at EXCEPT ![a] = s] /\ early' = early
  BY DEF Register
<1>4. r.pc = "client" BY DEF Register
<1> HIDE DEF r, x, p
<1>5. s \in AttemptRecords BY ONLY <1>1, <1>2 DEF AttemptRecords, Places
<1>6. /\ SameBuffers(r, s) /\ SameEnd(r, s) /\ s.gen = r.gen /\ s.terminal = r.terminal
      /\ s.goalErr = r.goalErr /\ s.paused = r.paused /\ s.result = r.result /\ s.pc = p /\ s.misled = r.misled
  BY ONLY <1>1, <1>2 DEF AttemptRecords, SameBuffers, SameEnd
<1>7. s.reg BY ONLY <1>1, <1>2 DEF AttemptRecords
<1> HIDE DEF s
<1>8. CASE at' = [at EXCEPT ![a] = s] /\ early' = early
  <2>1. Only(a) /\ at'[a] = s BY <1>5, <1>8, Update
  <2> QED BY <1>4, <1>6, <1>7, <1>8, <2>1 DEF r, p, SameEnd
<1>9. CASE IsGoal(a) /\ early[h] # "none" /\ at' = [at EXCEPT ![a] = GoalEnds(a, s, early[h])]
  <2>1. early[h] \in {"ok", "error"}
    <3>1. h \in Threads BY RuntimeAssumption DEF Threads, Range
    <3> QED BY <1>9, <3>1 DEF TypeOK, Verdicts
  <2> DEFINE q == GoalEnds(a, s, early[h])
  <2>2. Terminated(s, q, early[h]) /\ Informed(a, s, q) BY <1>5, <2>1, GoalEndsFacts
  <2> HIDE DEF q
  <2>3. Only(a) /\ at'[a] = q BY <1>9, <2>2, Update DEF Terminated, q
  <2>4. /\ SameBuffers(r, q) /\ q.reg = s.reg /\ q.gen = r.gen /\ q.paused = r.paused
        /\ q.result = r.result /\ q.stopping = r.stopping /\ q.pc = p
    BY <1>6, <2>2 DEF Terminated, SameBuffers, SameEnd
  <2>5. \/ q.finished = r.finished /\ q.cancelled = r.cancelled
        \/ q.finished /\ q.cancelled
    BY <1>6, <2>2 DEF Terminated, SameEnd
  <2>6. q.terminal /\ Informed(a, r, q) BY <1>6, <2>2 DEF Terminated, Informed
  <2> QED BY <1>4, <1>7, <1>9, <2>3, <2>4, <2>5, <2>6 DEF r, p
<1> QED BY <1>3, <1>8, <1>9

\* The moves of a caller that change only where it is and what it will return.
LEMMA Going ==
    ASSUME TypeOK, NEW a \in Attempts, NEW p \in Places
    PROVE  /\ at' = [at EXCEPT ![a].pc = p] =>
                 Only(a) /\ Went(at[a], at'[a], p) /\ at'[a].result = at[a].result
           /\ \A v \in Verdicts : at' = [at EXCEPT ![a] = [at[a] EXCEPT !.pc = p, !.result = v]] =>
                 Only(a) /\ Went(at[a], at'[a], p) /\ at'[a].result = v
<1> DEFINE r == at[a]
<1>1. r \in AttemptRecords BY Attempt
<1>2. ASSUME at' = [at EXCEPT ![a].pc = p]
      PROVE  Only(a) /\ Went(at[a], at'[a], p) /\ at'[a].result = at[a].result
  <2> DEFINE q == [r EXCEPT !.pc = p]
  <2>1. at' = [at EXCEPT ![a] = q] BY <1>2
  <2> HIDE DEF r
  <2>2. Went(r, q, p) /\ q.result = r.result BY <1>1, WentFacts, Zenon DEF Verdicts
  <2> HIDE DEF q
  <2>3. Only(a) /\ at'[a] = q BY <2>1, <2>2, Update DEF Went
  <2> QED BY <2>2, <2>3 DEF r
<1>3. ASSUME NEW v \in Verdicts, at' = [at EXCEPT ![a] = [at[a] EXCEPT !.pc = p, !.result = v]]
      PROVE  Only(a) /\ Went(at[a], at'[a], p) /\ at'[a].result = v
  <2> DEFINE q == [r EXCEPT !.pc = p, !.result = v]
  <2>1. at' = [at EXCEPT ![a] = q] BY <1>3
  <2> HIDE DEF r
  <2>4. v \in Verdicts BY <1>3
  <2>5. q \in AttemptRecords BY ONLY <1>1, <2>4, p \in Places DEF AttemptRecords, Places
  <2>6. SameCore(r, q) /\ SameBuffers(r, q) /\ SameEnd(r, q) /\ q.pc = p /\ q.result = v
    BY ONLY <1>1, <2>4 DEF AttemptRecords, SameCore, SameBuffers, SameEnd
  <2>2. Went(r, q, p) /\ q.result = v BY <2>5, <2>6 DEF Went
  <2> HIDE DEF q
  <2>3. Only(a) /\ at'[a] = q BY <2>1, <2>2, Update DEF Went
  <2> QED BY <2>2, <2>3 DEF r
<1> QED BY <1>2, <1>3

LEMMA SetGoalShape ==
    ASSUME TypeOK, NEW a \in Attempts, SetGoal(a)
    PROVE  /\ Only(a) /\ at[a].pc = "set"
           /\ \/ Went(at[a], at'[a], "start") /\ at'[a].result = at[a].result
              \/ Went(at[a], at'[a], "close") /\ at'[a].result = "error"
BY Going DEF SetGoal, Places, Verdicts

LEMMA StartShape ==
    ASSUME TypeOK, NEW a \in Attempts, Start(a)
    PROVE  /\ Only(a) /\ at[a].pc = "start"
           /\ \/ at[a].finished /\ Went(at[a], at'[a], "leave") /\ at'[a].result = at[a].done
              \/ Went(at[a], at'[a], "stop") /\ at'[a].result = "error"
              \/ Went(at[a], at'[a], "call") /\ at'[a].result = at[a].result
<1>1. at[a].done \in Verdicts BY Attempt DEF AttemptRecords
<1>2. CASE at[a].finished
  <2>1. at' = [at EXCEPT ![a] = [at[a] EXCEPT !.pc = "leave", !.result = at[a].done]] BY <1>2 DEF Start, Leave
  <2> QED BY <1>1, <1>2, <2>1, Going DEF Places, Start
<1>3. CASE ~at[a].finished /\ at[a].stopReq
  <2>1. at' = [at EXCEPT ![a] = [at[a] EXCEPT !.pc = "stop", !.result = "error"]] BY <1>3 DEF Start
  <2> QED BY <2>1, Going DEF Places, Verdicts, Start
<1>4. CASE ~at[a].finished /\ ~at[a].stopReq
  <2>1. at' = [at EXCEPT ![a].pc = "call"] BY <1>4 DEF Start
  <2> QED BY <2>1, Going DEF Places, Start
<1> QED BY <1>2, <1>3, <1>4

LEMMA LeaveShape ==
    ASSUME TypeOK, NEW a \in Attempts, NEW v \in Verdicts, at' = [at EXCEPT ![a] = Leave(a, v)]
    PROVE  Only(a) /\ Went(at[a], at'[a], "leave") /\ at'[a].result = v
BY Going DEF Leave, Places

LEMMA LeavesShape ==
    ASSUME TypeOK, NEW a \in Attempts
    PROVE  /\ TurnStartFails(a) => at[a].pc = "call" /\ Only(a) /\ Went(at[a], at'[a], "leave") /\ at'[a].result = "error"
           /\ waitAttemptDone(a) => /\ at[a].pc \in {"wait", "grace"} /\ at[a].done # "none"
                                    /\ Only(a) /\ Went(at[a], at'[a], "leave") /\ at'[a].result = at[a].done
           /\ GraceExpires(a) => at[a].pc = "grace" /\ Only(a) /\ Went(at[a], at'[a], "leave") /\ at'[a].result = "error"
           /\ StopByCaller(a) => /\ at[a].pc \in {"leave", "stop"} /\ at[a].result = "error" /\ IsGoal(a)
                                 /\ Only(a) /\ Went(at[a], at'[a], "stop") /\ at'[a].result = at[a].result
<1>1. at[a].done \in Verdicts BY Attempt DEF AttemptRecords
<1>2. "error" \in Verdicts BY DEF Verdicts
<1>3. TurnStartFails(a) => at[a].pc = "call" /\ Only(a) /\ Went(at[a], at'[a], "leave") /\ at'[a].result = "error"
  BY <1>2, LeaveShape DEF TurnStartFails
<1>4. waitAttemptDone(a) => /\ at[a].pc \in {"wait", "grace"} /\ at[a].done # "none"
                            /\ Only(a) /\ Went(at[a], at'[a], "leave") /\ at'[a].result = at[a].done
  BY <1>1, LeaveShape DEF waitAttemptDone
<1>5. GraceExpires(a) => at[a].pc = "grace" /\ Only(a) /\ Went(at[a], at'[a], "leave") /\ at'[a].result = "error"
  BY <1>2, LeaveShape DEF GraceExpires
<1>6. StopByCaller(a) => /\ at[a].pc \in {"leave", "stop"} /\ at[a].result = "error" /\ IsGoal(a)
                         /\ Only(a) /\ Went(at[a], at'[a], "stop") /\ at'[a].result = at[a].result
  BY Going DEF StopByCaller, Places
<1> QED BY <1>3, <1>4, <1>5, <1>6

\* interruptAndFail: either the caller leaves, or it asks App Server to stop the turn and
\* grants it a grace period.
LEMMA TimerShape ==
    ASSUME TypeOK, NEW a \in Attempts, waitAttemptTimer(a)
    PROVE  /\ Only(a) /\ at[a].pc = "wait"
           /\ \/ at[a].stopping /\ Went(at[a], at'[a], "leave") /\ at'[a].result = "error" /\ interrupted' = interrupted
              \/ /\ at'[a].pc = "grace" /\ at'[a].cancelled /\ at'[a].result = at[a].result
                 /\ SameCore(at[a], at'[a]) /\ SameBuffers(at[a], at'[a])
                 /\ at'[a].finished = at[a].finished /\ at'[a].done = at[a].done
                 /\ Interrupt(a, at[a].turn)
<1>1. CASE at[a].stopping
  <2>1. at' = [at EXCEPT ![a] = Leave(a, "error")] /\ interrupted' = interrupted
    BY <1>1 DEF waitAttemptTimer, interruptAndFail
  <2> QED BY <1>1, <2>1, LeaveShape DEF Verdicts, waitAttemptTimer
<1>2. CASE ~at[a].stopping
  <2> DEFINE r == at[a]
             q == [r EXCEPT !.stopping = TRUE, !.cancelled = TRUE, !.pc = "grace"]
  <2>1. r \in AttemptRecords BY Attempt
  <2>2. at' = [at EXCEPT ![a] = q] /\ Interrupt(a, r.turn) /\ r.pc = "wait"
    BY <1>2 DEF waitAttemptTimer, interruptAndFail
  <2> HIDE DEF r
  <2>3. q \in AttemptRecords BY ONLY <2>1 DEF AttemptRecords
  <2>4. /\ q.pc = "grace" /\ q.result = r.result /\ SameCore(r, q) /\ SameBuffers(r, q)
        /\ q.finished = r.finished /\ q.done = r.done
    BY ONLY <2>1 DEF AttemptRecords, SameCore, SameBuffers
  <2>5. q.cancelled BY ONLY <2>1 DEF AttemptRecords
  <2> HIDE DEF q
  <2>6. Only(a) /\ at'[a] = q BY <2>2, <2>3, Update
  <2> QED BY <2>2, <2>4, <2>5, <2>6 DEF r
<1> QED BY <1>1, <1>2

LEMMA BoundAndOnShape ==
    ASSUME TypeOK, NEW a \in Attempts, BoundAndOn(a)
    PROVE  /\ Only(a) /\ at[a].pc = "replay"
           /\ \/ Went(at[a], at'[a], "wait") /\ at'[a].result = at[a].result /\ interrupted' = interrupted
              \/ /\ IsGoal(a) /\ Went(at[a], at'[a], "leave") /\ at'[a].result = at[a].done
                 /\ Interrupt(a, First(a))
<1>1. at[a].done \in Verdicts BY Attempt DEF AttemptRecords
<1>2. CASE IsGoal(a) /\ at[a].finished
  <2>1. at' = [at EXCEPT ![a] = Leave(a, at[a].done)] /\ Interrupt(a, First(a)) BY <1>2 DEF BoundAndOn
  <2> QED BY <1>1, <1>2, <2>1, LeaveShape DEF BoundAndOn
<1>3. CASE ~(IsGoal(a) /\ at[a].finished)
  <2>1. at' = [at EXCEPT ![a].pc = "wait"] /\ interrupted' = interrupted BY <1>3 DEF BoundAndOn
  <2> QED BY <2>1, Going DEF BoundAndOn, Places
<1> QED BY <1>2, <1>3

LEMMA CancelContextShape ==
    ASSUME TypeOK, NEW a \in Attempts, CancelContext(a)
    PROVE  /\ Only(a) /\ at[a].pc \notin {"new", "returned"} /\ at'[a].pc = at[a].pc /\ at'[a].result = at[a].result
           /\ SameCore(at[a], at'[a]) /\ SameBuffers(at[a], at'[a]) /\ at'[a].stopping = at[a].stopping
           /\ at'[a].finished = at[a].finished /\ at'[a].done = at[a].done /\ at'[a].cancelled
<1> DEFINE r == at[a]
           q == [r EXCEPT !.cancelled = TRUE]
<1>1. r \in AttemptRecords BY Attempt
<1>2. at' = [at EXCEPT ![a] = q] /\ r.pc \notin {"new", "returned"} BY DEF CancelContext
<1> HIDE DEF r
<1>3. q \in AttemptRecords BY ONLY <1>1 DEF AttemptRecords
<1>4. /\ q.pc = r.pc /\ q.result = r.result /\ SameCore(r, q) /\ SameBuffers(r, q) /\ q.stopping = r.stopping
      /\ q.finished = r.finished /\ q.done = r.done
  BY ONLY <1>1 DEF AttemptRecords, SameCore, SameBuffers
<1>5. q.cancelled BY ONLY <1>1 DEF AttemptRecords
<1> HIDE DEF q
<1>6. Only(a) /\ at'[a] = q BY <1>2, <1>3, Update
<1> QED BY <1>2, <1>4, <1>5, <1>6 DEF r

LEMMA ReturnShape ==
    ASSUME TypeOK, NEW a \in Attempts, Return(a)
    PROVE  /\ Only(a) /\ at[a].pc \in {"leave", "close", "stop"}
           /\ at[a].pc = "leave" /\ IsGoal(a) => at[a].result = "ok"
           /\ at[a].pc = "stop" => stopper[<<a, "caller">>].pc = "done"
           /\ at'[a].pc = "returned" /\ ~at'[a].reg /\ at'[a].cancelled /\ at'[a].gen = at[a].gen
           /\ at'[a].turn = at[a].turn /\ at'[a].pending = <<>> /\ at'[a].replay = <<>> /\ at'[a].items = <<>>
           /\ at'[a].finished = at[a].finished /\ at'[a].done = "none" /\ at'[a].stopping = at[a].stopping
           /\ at'[a].terminal = at[a].terminal /\ at'[a].paused = at[a].paused /\ at'[a].result = at[a].result
           /\ at'[a].misled = at[a].misled
<1> DEFINE r == at[a]
           q == [r EXCEPT !.pc = "returned", !.reg = FALSE, !.cancelled = TRUE,
                    !.pending = <<>>, !.replay = <<>>, !.known = {}, !.items = <<>>,
                    !.awaiting = FALSE, !.over = FALSE, !.done = "none", !.goalErr = "ok"]
<1>1. r \in AttemptRecords BY Attempt
<1>2. /\ at' = [at EXCEPT ![a] = q]
      /\ r.pc \in {"leave", "close", "stop"} /\ (r.pc = "leave" /\ IsGoal(a) => r.result = "ok")
      /\ r.pc = "stop" => stopper[<<a, "caller">>].pc = "done"
  BY DEF Return
<1>3. <<>> \in Seq(Events) /\ <<>> \in Seq(Turns \X Nat) BY EmptySeq
<1>8. "none" \in Verdicts /\ {} \in SUBSET Turns BY DEF Verdicts
<1> HIDE DEF r
<1>4. q \in AttemptRecords
  <2> DEFINE u == [r EXCEPT !.reg = FALSE, !.cancelled = TRUE, !.pending = <<>>, !.replay = <<>>, !.items = <<>>]
             v == [u EXCEPT !.pc = "returned", !.known = {}, !.awaiting = FALSE, !.over = FALSE,
                            !.done = "none", !.goalErr = "ok"]
  <2>1. u \in AttemptRecords BY ONLY <1>1, <1>3 DEF AttemptRecords
  <2>2. q = v BY ONLY <1>1 DEF AttemptRecords
  <2> HIDE DEF u, q
  <2>3. v \in AttemptRecords BY ONLY <1>8, <2>1 DEF AttemptRecords
  <2> QED BY ONLY <2>2, <2>3
<1>5. /\ q.pc = "returned" /\ q.gen = r.gen /\ q.turn = r.turn /\ q.pending = <<>> /\ q.replay = <<>>
      /\ q.items = <<>> /\ q.finished = r.finished /\ q.done = "none" /\ q.stopping = r.stopping
      /\ q.terminal = r.terminal /\ q.paused = r.paused /\ q.result = r.result /\ q.misled = r.misled
  BY ONLY <1>1 DEF AttemptRecords
<1>6. ~q.reg /\ q.cancelled BY ONLY <1>1 DEF AttemptRecords
<1> HIDE DEF q
<1>7. Only(a) /\ at'[a] = q BY <1>2, <1>4, Update
<1> QED BY <1>2, <1>5, <1>6, <1>7 DEF r

LEMMA failAttemptsShape ==
    ASSUME TypeOK, NEW a \in Attempts, failAttempts(a)
    PROVE  Only(a) /\ a \in gen.failing /\ Ended(at[a], at'[a], "error")
<1> DEFINE q == Finished(at[a], "error")
<1>1. Ended(at[a], q, "error") BY Attempt, FinishedFacts DEF Verdicts
<1>2. at' = [at EXCEPT ![a] = q] /\ a \in gen.failing BY DEF failAttempts
<1> HIDE DEF q
<1>3. Only(a) /\ at'[a] = q BY <1>1, <1>2, Update DEF Ended
<1> QED BY <1>1, <1>2, <1>3

LEMMA BeginStopShape ==
    ASSUME TypeOK, NEW a \in GoalAttempts, NEW who \in Stoppers, BeginStop(a, who)
    PROVE  /\ stopper[<<a, who>>].pc = "begin"
           /\ \/ /\ at' = at /\ (at[a].paused \/ at[a].terminal)
                 /\ stopper' = [stopper EXCEPT ![<<a, who>>].pc = "done"]
              \/ /\ Only(a) /\ at'[a].pc = at[a].pc /\ at'[a].result = at[a].result
                 /\ SameCore(at[a], at'[a]) /\ SameBuffers(at[a], at'[a])
                 /\ at'[a].finished = at[a].finished /\ at'[a].done = at[a].done
                 /\ at'[a].cancelled = at[a].cancelled
                 /\ stopper' = [stopper EXCEPT ![<<a, who>>] = [pc |-> "pause", turn |-> at[a].turn]]
<1> DEFINE r == at[a]
           q == [r EXCEPT !.stopping = TRUE]
<1>0. a \in Attempts BY RuntimeAssumption
<1>1. r \in AttemptRecords BY <1>0, Attempt
<1>2. stopper[<<a, who>>].pc = "begin" BY DEF BeginStop
<1>3. \/ /\ at' = at /\ (r.paused \/ r.terminal)
         /\ stopper' = [stopper EXCEPT ![<<a, who>>].pc = "done"]
      \/ /\ at' = [at EXCEPT ![a] = q]
         /\ stopper' = [stopper EXCEPT ![<<a, who>>] = [pc |-> "pause", turn |-> r.turn]]
  BY DEF BeginStop
<1> HIDE DEF r
<1>4. q \in AttemptRecords BY ONLY <1>1 DEF AttemptRecords
<1>5. /\ q.pc = r.pc /\ q.result = r.result /\ SameCore(r, q) /\ SameBuffers(r, q)
      /\ q.finished = r.finished /\ q.done = r.done /\ q.cancelled = r.cancelled
  BY ONLY <1>1 DEF AttemptRecords, SameCore, SameBuffers
<1> HIDE DEF q
<1>6. at' = [at EXCEPT ![a] = q] => Only(a) /\ at'[a] = q BY <1>0, <1>4, Update
<1> QED BY <1>2, <1>3, <1>5, <1>6 DEF r

\* The status a stop reads is the goal's.
LEMMA ConfirmPauseShape ==
    ASSUME TypeOK, NEW a \in GoalAttempts, NEW who \in Stoppers, ConfirmPause(a, who)
    PROVE  /\ Only(a) /\ at'[a].pc = at[a].pc /\ at'[a].result = at[a].result
           /\ at'[a].gen = at[a].gen /\ at'[a].reg = at[a].reg
           /\ StatusOf(a) \in Terminal /\ at'[a].terminal /\ (at'[a].goalErr = "ok" => StatusOf(a) = "complete")
           /\ \/ at'[a].finished = at[a].finished /\ at'[a].done = at[a].done /\ at'[a].cancelled = at[a].cancelled
              \/ at'[a].finished /\ at'[a].cancelled /\ (at'[a].done = "ok" => StatusOf(a) = "complete")
           /\ Informed(a, at[a], at'[a]) /\ stopper' = [stopper EXCEPT ![<<a, who>>] = StopOver]
           /\ interrupted \subseteq interrupted' /\ interrupted' \subseteq Turns
<1> DEFINE r == at[a]
           t == stopper[<<a, who>>].turn
           s == goal[ThreadOf[a]].status
           p == r.paused \/ s = "paused"
           g == IF s = "complete" THEN "ok" ELSE "error"
           m == r.misled \/ Misleads(a)
           q == [r EXCEPT !.terminal = TRUE, !.paused = p, !.misled = m, !.goalErr = g]
<1>0. a \in Attempts BY RuntimeAssumption
<1>1. r \in AttemptRecords BY <1>0, Attempt
<1>2. /\ at' = [at EXCEPT ![a] = IF t = NoTurn THEN Finished(q, q.goalErr) ELSE q]
      /\ s \in Terminal /\ stopper' = [stopper EXCEPT ![<<a, who>>] = StopOver]
      /\ interrupted' = interrupted \/ Interrupt(a, t)
  BY DEF ConfirmPause
<1>3. t \in Turns \cup {NoTurn} BY DEF TypeOK, StopRecords
<1>4. interrupted \subseteq interrupted' /\ interrupted' \subseteq Turns
  BY <1>0, <1>2, <1>3, InterruptFacts DEF TypeOK
<1>5. p \in BOOLEAN /\ g \in {"ok", "error"} /\ (g = "ok" => s = "complete") BY <1>1 DEF AttemptRecords
<1>6. s = StatusOf(a) BY DEF StatusOf
<1>15. m \in BOOLEAN /\ (m \/ (~r.misled /\ Own(a))) BY DEF Misleads, Own
<1> HIDE DEF r, p, g, t, s, m
<1>7. q \in AttemptRecords BY ONLY <1>1, <1>5, <1>15 DEF AttemptRecords
<1>8. /\ q.pc = r.pc /\ q.result = r.result /\ q.gen = r.gen /\ q.reg = r.reg /\ q.goalErr = g
      /\ q.finished = r.finished /\ q.done = r.done /\ q.cancelled = r.cancelled /\ q.misled = m
  BY ONLY <1>1, <1>5, <1>15 DEF AttemptRecords
<1>9. q.terminal BY ONLY <1>1 DEF AttemptRecords
<1>16. Informed(a, r, q) BY <1>8, <1>15 DEF Informed
<1> HIDE DEF q
<1> DEFINE f == Finished(q, g)
<1>10. Ended(q, f, g) BY <1>5, <1>7, FinishedFacts DEF Verdicts
<1>11. f \in AttemptRecords BY <1>10 DEF Ended
<1>12. at' = [at EXCEPT ![a] = f] \/ at' = [at EXCEPT ![a] = q] BY <1>2, <1>8
<1> HIDE DEF f
<1>13. CASE at' = [at EXCEPT ![a] = q]
  <2>1. Only(a) /\ at'[a] = q BY <1>0, <1>7, <1>13, Update
  <2> QED BY <1>2, <1>4, <1>5, <1>6, <1>8, <1>9, <1>16, <2>1 DEF r
<1>14. CASE at' = [at EXCEPT ![a] = f]
  <2>1. Only(a) /\ at'[a] = f BY <1>0, <1>11, <1>14, Update
  <2>2. f = q \/ (f.finished /\ f.cancelled /\ f.done = g) BY <1>10 DEF Ended
  <2>3. f.pc = q.pc /\ f.result = q.result /\ f.gen = q.gen /\ f.reg = q.reg /\ f.terminal = q.terminal /\ f.goalErr = q.goalErr
    BY <1>10 DEF Ended, SameCore
  <2>4. Informed(a, r, f) BY <1>10, <1>16 DEF Informed, Ended, SameCore
  <2> QED BY <1>2, <1>4, <1>5, <1>6, <1>8, <1>9, <2>1, <2>2, <2>3, <2>4 DEF r
<1> QED BY <1>12, <1>13, <1>14
-----------------------------------------------------------------------------
(* What routing an event does.                                             *)

\* The output refused an item: the attempt is finished and its turn interrupted.
Refused(a, r, q) == Presses(r) /\ Stopped(r, q) /\ Interrupt(a, r.turn)

LEMMA interruptAttemptShape ==
    ASSUME TypeOK, NEW a \in Attempts, NEW r \in AttemptRecords, interruptAttempt(a, r)
    PROVE  /\ Only(a)
           /\ \/ at'[a] = r /\ ~Presses(r) /\ interrupted' = interrupted
              \/ Refused(a, r, at'[a])
<1>1. CASE Presses(r)
  <2> DEFINE q == Finished([r EXCEPT !.stopping = TRUE], "error")
  <2>1. Stopped(r, q) BY <1>1, StoppedFacts DEF Presses
  <2>2. at' = [at EXCEPT ![a] = q] /\ Interrupt(a, r.turn) BY <1>1 DEF interruptAttempt
  <2> HIDE DEF q
  <2>3. Only(a) /\ at'[a] = q BY <2>1, <2>2, Update DEF Stopped
  <2> QED BY <1>1, <2>1, <2>2, <2>3 DEF Refused
<1>2. CASE ~Presses(r)
  <2>1. at' = [at EXCEPT ![a] = r] /\ interrupted' = interrupted BY <1>2 DEF interruptAttempt
  <2> QED BY <1>2, <2>1, Update
<1> QED BY <1>1, <1>2

RoutedTo(a, r, q, e) ==
    \/ /\ interrupted' = interrupted
       /\ \/ q = r
          \/ e.kind = "item" /\ ~r.finished /\ Added(r, q, e)
          \/ e.kind = "completed" /\ Ended(r, q, "ok")
          \/ e.kind = "failed" /\ Ended(r, q, "error")
    \/ e.kind = "item" /\ Refused(a, r, q)
GoalRoutedTo(a, r, q) ==
    \/ /\ interrupted' = interrupted
       /\ \/ Went(r, q, r.pc) /\ q.result = r.result
          \/ r.terminal /\ Ended(r, q, r.goalErr)
    \/ Refused(a, r, q)

LEMMA DisturbFacts ==
    ASSUME TypeOK, Disturb \/ UNCHANGED disturbed PROVE disturbed' \in Nat
BY DEF TypeOK, Disturb

LEMMA routeAttemptShape ==
    ASSUME TypeOK, NEW a \in Attempts, NEW r \in AttemptRecords, NEW e \in Events, routeAttempt(a, r, e)
    PROVE  /\ Only(a) /\ disturbed' \in Nat
           /\ a \in Plain => RoutedTo(a, r, at'[a], e)
           /\ a \in GoalAttempts => GoalRoutedTo(a, r, at'[a])
<1> DEFINE q == Routed(a, r, e)
<1>1. a \in Plain \/ a \in GoalAttempts BY DEF Plain
<1>2. a \in Plain => /\ q \in AttemptRecords
                     /\ \/ q = r
                        \/ e.kind = "item" /\ ~r.finished /\ Added(r, q, e)
                        \/ e.kind = "completed" /\ Ended(r, q, "ok")
                        \/ e.kind = "failed" /\ Ended(r, q, "error")
  BY RoutedPlain DEF Added, Ended
<1>3. a \in GoalAttempts => /\ q \in AttemptRecords
                            /\ \/ Went(r, q, r.pc) /\ q.result = r.result
                               \/ r.terminal /\ Ended(r, q, r.goalErr)
  BY RoutedGoal DEF Went, Ended
<1>4. \/ at' = [at EXCEPT ![a] = q] /\ interrupted' = interrupted /\ disturbed' = disturbed
      \/ e.kind = "item" /\ Presses(r) /\ Disturb /\ interruptAttempt(a, r)
  BY DEF routeAttempt
<1> HIDE DEF q
<1>5. disturbed' \in Nat BY <1>4, DisturbFacts
<1>6. CASE at' = [at EXCEPT ![a] = q] /\ interrupted' = interrupted
  <2>1. Only(a) /\ at'[a] = q BY <1>1, <1>2, <1>3, <1>6, Update
  <2> QED BY <1>2, <1>3, <1>5, <1>6, <2>1 DEF RoutedTo, GoalRoutedTo
<1>7. CASE e.kind = "item" /\ Presses(r) /\ interruptAttempt(a, r)
  <2>1. Only(a) /\ Refused(a, r, at'[a]) BY <1>7, interruptAttemptShape
  <2> QED BY <1>5, <1>7, <2>1 DEF RoutedTo, GoalRoutedTo
<1> QED BY <1>4, <1>6, <1>7

\* A record whose turn is known now; s is what waits to be replayed.
BoundTo(r, q, t, s) ==
    /\ q \in AttemptRecords /\ SameCore(r, q) /\ SameEnd(r, q)
    /\ q.turn = t /\ q.pending = <<>> /\ q.replay = s /\ q.items = r.items /\ q.result = r.result

LEMMA bindAttemptShape ==
    ASSUME TypeOK, NEW a \in Attempts, bindAttempt(a)
    PROVE  /\ Only(a) /\ at[a].pc = "call" /\ at'[a].pc = "replay" /\ turn[First(a)].state # "none"
           /\ \/ ~MayBind(a, First(a)) /\ Went(at[a], at'[a], "replay") /\ at'[a].result = at[a].result
                 /\ interrupted' = interrupted
              \/ MayBind(a, First(a)) /\ BoundTo(at[a], at'[a], First(a), at[a].pending)
                 /\ interrupted' = interrupted
              \/ MayBind(a, First(a)) /\ \E s \in AttemptRecords :
                    /\ BoundTo(at[a], s, First(a), at[a].replay) /\ s.pc = "replay"
                    /\ \/ at'[a] = s /\ interrupted' = interrupted
                       \/ Refused(a, s, at'[a])
<1> DEFINE t == First(a)
           b == Bound(a, t)
           s == [b EXCEPT !.pc = "replay"]
           q == [s EXCEPT !.replay = at[a].pending]
<1>1. /\ at[a].pc = "call" /\ turn[t].state # "none"
      /\ \/ ~MayBind(a, t) /\ at' = [at EXCEPT ![a].pc = "replay"] /\ interrupted' = interrupted
         \/ MayBind(a, t) /\ interruptAttempt(a, s)
         \/ MayBind(a, t) /\ at' = [at EXCEPT ![a] = q] /\ interrupted' = interrupted
  BY DEF bindAttempt
<1>2. /\ b \in AttemptRecords /\ SameCore(at[a], b) /\ SameEnd(at[a], b)
      /\ b.turn = t /\ b.pending = <<>> /\ b.replay = at[a].replay /\ b.items = at[a].items
      /\ b.pc = at[a].pc /\ b.result = at[a].result
  BY BoundFacts, FirstTurn
<1>3. at[a].pending \in Seq(Events) BY Attempt DEF AttemptRecords
<1> HIDE DEF b
<1>4. s \in AttemptRecords BY ONLY <1>2 DEF AttemptRecords
<1>5. /\ SameCore(b, s) /\ SameEnd(b, s) /\ s.turn = b.turn /\ s.pending = b.pending /\ s.replay = b.replay
      /\ s.items = b.items /\ s.pc = "replay" /\ s.result = b.result
  BY ONLY <1>2 DEF AttemptRecords, SameCore, SameEnd
<1> HIDE DEF s
<1>6. BoundTo(at[a], s, t, at[a].replay) BY <1>2, <1>4, <1>5 DEF BoundTo, SameCore, SameEnd
<1>7. q \in AttemptRecords BY ONLY <1>3, <1>4 DEF AttemptRecords
<1>8. /\ SameCore(s, q) /\ SameEnd(s, q) /\ q.turn = s.turn /\ q.pending = s.pending /\ q.replay = at[a].pending
      /\ q.items = s.items /\ q.pc = s.pc /\ q.result = s.result
  BY ONLY <1>4 DEF AttemptRecords, SameCore, SameEnd
<1> HIDE DEF q
<1>9. BoundTo(at[a], q, t, at[a].pending) BY <1>6, <1>7, <1>8 DEF BoundTo, SameCore, SameEnd
<1>10. CASE ~MayBind(a, t) /\ at' = [at EXCEPT ![a].pc = "replay"] /\ interrupted' = interrupted
  <2>1. Only(a) /\ Went(at[a], at'[a], "replay") /\ at'[a].result = at[a].result BY <1>10, Going DEF Places
  <2> QED BY <1>1, <1>10, <2>1 DEF Went
<1>11. CASE MayBind(a, t) /\ interruptAttempt(a, s)
  <2>1. Only(a) /\ ((at'[a] = s /\ interrupted' = interrupted) \/ Refused(a, s, at'[a]))
    BY <1>4, <1>11, interruptAttemptShape
  <2>2. at'[a].pc = "replay" BY <1>5, <2>1 DEF Refused, Stopped
  <2> QED BY <1>1, <1>4, <1>5, <1>6, <1>11, <2>1, <2>2
<1>12. CASE MayBind(a, t) /\ at' = [at EXCEPT ![a] = q] /\ interrupted' = interrupted
  <2>1. Only(a) /\ at'[a] = q BY <1>7, <1>12, Update
  <2> QED BY <1>1, <1>5, <1>8, <1>9, <1>12, <2>1
<1> QED BY <1>1, <1>10, <1>11, <1>12

\* A record whose next kept event was taken.
Shifted(r, s) ==
    /\ s \in AttemptRecords /\ SameCore(r, s) /\ SameEnd(r, s) /\ s.pc = r.pc /\ s.result = r.result
    /\ s.turn = r.turn /\ s.pending = r.pending /\ s.items = r.items /\ s.replay = Tail(r.replay)

LEMMA ReplayShape ==
    ASSUME TypeOK, NEW a \in Attempts, Replay(a)
    PROVE  /\ Only(a) /\ at[a].pc = "replay" /\ at[a].replay # <<>> /\ Head(at[a].replay) \in Events
           /\ disturbed' \in Nat
           /\ \E s \in AttemptRecords :
                 /\ Shifted(at[a], s)
                 /\ \/ at'[a] = s /\ interrupted' = interrupted
                    \/ /\ Head(at[a].replay).turn = First(a)
                       /\ a \in Plain => RoutedTo(a, s, at'[a], Head(at[a].replay))
                       /\ a \in GoalAttempts => GoalRoutedTo(a, s, at'[a])
<1> DEFINE r == at[a]
           e == Head(r.replay)
           s == [r EXCEPT !.replay = Tail(r.replay)]
<1>1. r \in AttemptRecords BY Attempt
<1>2. /\ r.pc = "replay" /\ r.replay # <<>>
      /\ \/ e.turn = First(a) /\ routeAttempt(a, s, e)
         \/ at' = [at EXCEPT ![a] = s] /\ interrupted' = interrupted /\ disturbed' = disturbed
  BY DEF Replay, Mine
<1>3. r.replay \in Seq(Events) BY <1>1 DEF AttemptRecords
<1>4. e \in Events /\ Tail(r.replay) \in Seq(Events) BY <1>2, <1>3
<1> HIDE DEF r
<1>5. s \in AttemptRecords BY ONLY <1>1, <1>4 DEF AttemptRecords
<1>6. Shifted(r, s)
  <2>1. /\ SameCore(r, s) /\ SameEnd(r, s) /\ s.pc = r.pc /\ s.result = r.result
        /\ s.turn = r.turn /\ s.pending = r.pending /\ s.items = r.items /\ s.replay = Tail(r.replay)
    BY ONLY <1>1 DEF AttemptRecords, SameCore, SameEnd
  <2> QED BY <1>5, <2>1 DEF Shifted
<1> HIDE DEF s, e
<1>7. CASE e.turn = First(a) /\ routeAttempt(a, s, e)
  <2>1. /\ Only(a) /\ disturbed' \in Nat
        /\ a \in Plain => RoutedTo(a, s, at'[a], e)
        /\ a \in GoalAttempts => GoalRoutedTo(a, s, at'[a])
    BY <1>4, <1>5, <1>7, routeAttemptShape
  <2> QED BY <1>2, <1>4, <1>5, <1>6, <1>7, <2>1 DEF r, e
<1>8. CASE at' = [at EXCEPT ![a] = s] /\ interrupted' = interrupted /\ disturbed' = disturbed
  <2>1. Only(a) /\ at'[a] = s BY <1>5, <1>8, Update
  <2>2. disturbed' \in Nat BY <1>8 DEF TypeOK
  <2> QED BY <1>2, <1>4, <1>5, <1>6, <1>8, <2>1, <2>2 DEF r, e
<1> QED BY <1>2, <1>7, <1>8

\* What every event leaves alone: only the end of the attempt may come.
Steady(r, q) ==
    /\ q \in AttemptRecords /\ q.gen = r.gen /\ q.reg = r.reg /\ q.pc = r.pc
    /\ \/ q.finished = r.finished /\ q.cancelled = r.cancelled
       \/ q.finished /\ q.cancelled
\* The same of a goal, with the reason of the end.
GoalSteady(r, q) ==
    /\ q \in AttemptRecords /\ SameCore(r, q) /\ q.pc = r.pc /\ q.result = r.result
    /\ \/ q.finished = r.finished /\ q.cancelled = r.cancelled /\ q.done = r.done
       \/ q.finished /\ q.cancelled /\ (q.done = "error" \/ (r.terminal /\ q.done = r.goalErr))

LEMMA RoutedSteady ==
    ASSUME NEW a \in Attempts, NEW r \in AttemptRecords, NEW s \in AttemptRecords, NEW q, NEW e,
           SameCore(r, s), SameEnd(r, s), s.pc = r.pc, s.result = r.result
    PROVE  /\ s = q \/ RoutedTo(a, s, q, e) => Steady(r, q)
           /\ s = q \/ GoalRoutedTo(a, s, q) => GoalSteady(r, q)
<1>1. s = q \/ RoutedTo(a, s, q, e) => Steady(r, q)
  BY DEF RoutedTo, Refused, Stopped, Added, Ended, Steady, SameCore, SameEnd
<1>2. s = q \/ GoalRoutedTo(a, s, q) => GoalSteady(r, q)
  <2>1. CASE s = q BY <2>1 DEF GoalSteady, SameCore, SameEnd
  <2>2. CASE Went(s, q, s.pc) /\ q.result = s.result BY <2>2 DEF Went, GoalSteady, SameCore, SameEnd
  <2>3. CASE s.terminal /\ Ended(s, q, s.goalErr)
    <3>1. q = s \/ (q.finished /\ q.cancelled /\ q.done = s.goalErr) BY <2>3 DEF Ended
    <3> QED BY <2>1, <2>3, <3>1 DEF Ended, GoalSteady, SameCore, SameEnd
  <2>4. CASE Refused(a, s, q) BY <2>4 DEF Refused, Stopped, GoalSteady, SameCore, SameEnd
  <2> QED BY <2>1, <2>2, <2>3, <2>4 DEF GoalRoutedTo
<1> QED BY <1>1, <1>2

\* An event that came before the turn id was known.
Kept(r, q, e) ==
    /\ q \in AttemptRecords /\ SameCore(r, q) /\ SameEnd(r, q) /\ q.pc = r.pc /\ q.result = r.result
    /\ r.turn = NoTurn /\ q.turn = r.turn /\ q.replay = r.replay /\ q.items = r.items
    /\ q.pending = r.pending \/ q.pending = Append(r.pending, e)

LEMMA KeptFacts ==
    ASSUME NEW r \in AttemptRecords, NEW e \in Events, r.turn = NoTurn
    PROVE  /\ Kept(r, [r EXCEPT !.over = TRUE], e)
           /\ Kept(r, [r EXCEPT !.pending = Append(r.pending, e)], e)
<1> DEFINE p == Append(r.pending, e)
           q1 == [r EXCEPT !.over = TRUE]
           q2 == [r EXCEPT !.pending = p]
<1>1. r.pending \in Seq(Events) BY DEF AttemptRecords
<1>2. p \in Seq(Events) BY <1>1
<1> HIDE DEF p
<1>3. q1 \in AttemptRecords /\ q2 \in AttemptRecords BY ONLY r \in AttemptRecords, <1>2 DEF AttemptRecords
<1>4. /\ SameCore(r, q1) /\ SameEnd(r, q1) /\ q1.pc = r.pc /\ q1.result = r.result
      /\ q1.turn = r.turn /\ q1.replay = r.replay /\ q1.items = r.items /\ q1.pending = r.pending
  BY ONLY r \in AttemptRecords DEF AttemptRecords, SameCore, SameEnd
<1>5. /\ SameCore(r, q2) /\ SameEnd(r, q2) /\ q2.pc = r.pc /\ q2.result = r.result
      /\ q2.turn = r.turn /\ q2.replay = r.replay /\ q2.items = r.items /\ q2.pending = p
  BY ONLY r \in AttemptRecords DEF AttemptRecords, SameCore, SameEnd
<1> HIDE DEF q1, q2
<1>6. Kept(r, q1, e) /\ Kept(r, q2, e) BY <1>3, <1>4, <1>5 DEF Kept, p
<1> QED BY <1>6 DEF q1, q2, p

LEMMA DispatchPlainShape ==
    ASSUME TypeOK, NEW a \in Plain, NEW e \in Events, DispatchPlain(a, e)
    PROVE  /\ disturbed' \in Nat
           /\ \/ at' = at /\ interrupted' = interrupted
              \/ /\ Only(a)
                 /\ \/ Kept(at[a], at'[a], e) /\ interrupted' = interrupted
                    \/ at[a].turn = e.turn /\ RoutedTo(a, at[a], at'[a], e)
<1>0. a \in Attempts BY DEF Plain
<1>1. at[a] \in AttemptRecords BY <1>0, Attempt
<1>2. CASE /\ at[a].turn = NoTurn /\ interrupted' = interrupted /\ disturbed' = disturbed
           /\ at' = [at EXCEPT ![a] = IF e.kind = "item" /\ Len(at[a].pending) >= MaxPending
                                      THEN [at[a] EXCEPT !.over = TRUE]
                                      ELSE [at[a] EXCEPT !.pending = Append(at[a].pending, e)]]
  <2> DEFINE q1 == [at[a] EXCEPT !.over = TRUE]
             q2 == [at[a] EXCEPT !.pending = Append(at[a].pending, e)]
  <2>1. Kept(at[a], q1, e) /\ Kept(at[a], q2, e) BY <1>1, <1>2, KeptFacts
  <2>2. at' = [at EXCEPT ![a] = q1] \/ at' = [at EXCEPT ![a] = q2] BY <1>2
  <2> HIDE DEF q1, q2
  <2>3. \E q \in {q1, q2} : Only(a) /\ at'[a] = q BY <1>0, <2>1, <2>2, Update DEF Kept
  <2>4. disturbed' \in Nat BY <1>2 DEF TypeOK
  <2> QED BY <1>2, <2>1, <2>3, <2>4
<1>3. CASE at[a].turn = e.turn /\ routeAttempt(a, at[a], e)
  BY <1>0, <1>1, <1>3, routeAttemptShape
<1>4. CASE UNCHANGED <<at, interrupted, disturbed>> BY <1>4 DEF TypeOK
<1> QED BY <1>2, <1>3, <1>4 DEF DispatchPlain

LEMMA DispatchGoalShape ==
    ASSUME TypeOK, NEW a \in GoalAttempts, NEW e \in Events, DispatchGoal(a, e)
    PROVE  /\ disturbed' \in Nat
           /\ interrupted \subseteq interrupted' /\ interrupted' \subseteq Turns
           /\ \/ at' = at
              \/ Only(a) /\ GoalSteady(at[a], at'[a])
<1>0. a \in Attempts BY RuntimeAssumption
<1>1. at[a] \in AttemptRecords /\ e.turn \in Turns BY <1>0, Attempt DEF Events
<1>2. CASE UNCHANGED <<at, interrupted, disturbed>> BY <1>2 DEF TypeOK
<1>3. ASSUME NEW q \in AttemptRecords, SameCore(at[a], q), SameEnd(at[a], q), q.pc = at[a].pc, q.result = at[a].result,
             at' = [at EXCEPT ![a] = q], interrupted' = interrupted, disturbed' = disturbed
      PROVE  /\ disturbed' \in Nat
             /\ interrupted \subseteq interrupted' /\ interrupted' \subseteq Turns
             /\ Only(a) /\ GoalSteady(at[a], at'[a])
  <2>1. Only(a) /\ at'[a] = q BY <1>0, <1>3, Update
  <2>2. GoalSteady(at[a], q) BY <1>0, <1>1, <1>3, RoutedSteady
  <2> QED BY <1>3, <2>1, <2>2 DEF TypeOK
<1>4. ASSUME NEW s \in AttemptRecords, SameCore(at[a], s), SameEnd(at[a], s), s.pc = at[a].pc, s.result = at[a].result,
             routeAttempt(a, s, e)
      PROVE  /\ disturbed' \in Nat
             /\ interrupted \subseteq interrupted' /\ interrupted' \subseteq Turns
             /\ Only(a) /\ GoalSteady(at[a], at'[a])
  <2>1. Only(a) /\ disturbed' \in Nat /\ GoalRoutedTo(a, s, at'[a])
    BY <1>0, <1>4, routeAttemptShape
  <2>2. GoalSteady(at[a], at'[a]) BY <1>0, <1>1, <1>4, <2>1, RoutedSteady
  <2>3. interrupted' = interrupted \/ Interrupt(a, s.turn) BY <2>1 DEF GoalRoutedTo, Refused
  <2>4. s.turn \in Turns \cup {NoTurn} BY DEF AttemptRecords
  <2>5. interrupted \subseteq interrupted' /\ interrupted' \subseteq Turns
    BY <1>0, <2>3, <2>4, InterruptFacts DEF TypeOK
  <2> QED BY <2>1, <2>2, <2>5
<1>5. CASE at' = [at EXCEPT ![a] = Rebound(a, e.turn)] /\ UNCHANGED <<interrupted, disturbed>>
  <2> DEFINE q == Rebound(a, e.turn)
  <2>1. q \in AttemptRecords /\ SameCore(at[a], q) /\ SameEnd(at[a], q) /\ q.pc = at[a].pc /\ q.result = at[a].result
    BY <1>0, <1>1, ReboundFacts
  <2> HIDE DEF q
  <2> QED BY <1>3, <1>5, <2>1 DEF q
<1>6. CASE /\ at[a].turn = NoTurn /\ UNCHANGED <<interrupted, disturbed>>
           /\ at' = [at EXCEPT ![a] = [at[a] EXCEPT !.pending = Append(at[a].pending, e)]]
  <2> DEFINE q == [at[a] EXCEPT !.pending = Append(at[a].pending, e)]
  <2>1. q \in AttemptRecords /\ SameCore(at[a], q) /\ SameEnd(at[a], q) /\ q.pc = at[a].pc /\ q.result = at[a].result
    BY <1>1, <1>6, KeptFacts DEF Kept
  <2> HIDE DEF q
  <2> QED BY <1>3, <1>6, <2>1 DEF q
<1>7. CASE routeAttempt(a, at[a], e) BY <1>1, <1>4, <1>7 DEF SameCore, SameEnd
<1>8. CASE routeAttempt(a, Bound(a, e.turn), e)
  <2> DEFINE q == Bound(a, e.turn)
  <2>1. q \in AttemptRecords /\ SameCore(at[a], q) /\ SameEnd(at[a], q) /\ q.pc = at[a].pc /\ q.result = at[a].result
    BY <1>0, <1>1, BoundFacts
  <2> HIDE DEF q
  <2> QED BY <1>4, <1>8, <2>1 DEF q
<1>9. \/ UNCHANGED <<at, interrupted, disturbed>>
      \/ at' = [at EXCEPT ![a] = Rebound(a, e.turn)] /\ UNCHANGED <<interrupted, disturbed>>
      \/ /\ at[a].turn = NoTurn /\ UNCHANGED <<interrupted, disturbed>>
         /\ at' = [at EXCEPT ![a] = [at[a] EXCEPT !.pending = Append(at[a].pending, e)]]
      \/ routeAttempt(a, at[a], e)
      \/ routeAttempt(a, Bound(a, e.turn), e)
  BY DEF DispatchGoal
<1> QED BY <1>2, <1>5, <1>6, <1>7, <1>8, <1>9

\* An event goes to one attempt of the thread of its turn, or to none.
LEMMA dispatchShape ==
    ASSUME TypeOK, NEW t \in Turns, NEW kind \in {"started", "item", "completed", "failed"}, NEW n \in Nat,
           NEW e, e = [kind |-> kind, turn |-> t, n |-> n], dispatch(t, kind, n)
    PROVE  /\ disturbed' \in Nat
           /\ \/ at' = at /\ interrupted' = interrupted
              \/ \E a \in Plain :
                    /\ at[a].reg /\ Only(a)
                    /\ \/ Kept(at[a], at'[a], e) /\ interrupted' = interrupted
                       \/ at[a].turn = e.turn /\ RoutedTo(a, at[a], at'[a], e)
              \/ /\ interrupted \subseteq interrupted' /\ interrupted' \subseteq Turns
                 /\ at' = at \/ \E a \in GoalAttempts : at[a].reg /\ Only(a) /\ GoalSteady(at[a], at'[a])
<1>1. e \in Events BY DEF Events
<1>2. CASE Owner(t) = {} BY <1>2 DEF dispatch, TypeOK
<1>3. CASE Owner(t) # {}
  <2>1. PICK a \in Owner(t) : TRUE BY <1>3
  <2>2. a \in Attempts /\ at[a].reg BY <2>1 DEF Owner
  <2>3. CASE a \in GoalAttempts
    <3>1. DispatchGoal(a, e) BY <2>1, <2>3 DEF dispatch, IsGoal
    <3> QED BY <1>1, <2>2, <2>3, <3>1, DispatchGoalShape
  <2>4. CASE a \notin GoalAttempts
    <3>1. DispatchPlain(a, e) BY <2>1, <2>4 DEF dispatch, IsGoal
    <3>2. a \in Plain BY <2>2, <2>4 DEF Plain
    <3> QED BY <1>1, <2>2, <3>1, <3>2, DispatchPlainShape
  <2> QED BY <2>3, <2>4
<1> QED BY <1>2, <1>3

\* A terminal status changes the unfinished goal of its thread; nobody else.
LEMMA GoalUpdatedShape ==
    ASSUME TypeOK, NEW h \in Threads, NEW err \in {"ok", "error"}, GoalUpdated(h, err)
    PROVE  /\ at' \in [Attempts -> AttemptRecords] /\ early' \in [Threads -> Verdicts]
           /\ \A a \in Attempts : \/ at'[a] = at[a]
                                  \/ /\ IsGoal(a) /\ at[a].reg /\ ThreadOf[a] = h /\ ~at[a].finished
                                     /\ Terminated(at[a], at'[a], err) /\ Informed(a, at[a], at'[a])
           /\ \A g \in Threads : early'[g] = early[g] \/ (g = h /\ early'[g] = err)
<1> DEFINE live == {a \in Attempts : at[a].reg /\ ThreadOf[a] = h /\ ~at[a].finished}
<1>1. at' = [a \in Attempts |-> IF a \in live /\ IsGoal(a) THEN GoalEnds(a, at[a], err) ELSE at[a]] BY DEF GoalUpdated
<1>2. early' = IF live = {} THEN [early EXCEPT ![h] = err] ELSE early BY DEF GoalUpdated
<1>3. ASSUME NEW a \in Attempts
      PROVE  /\ at'[a] \in AttemptRecords
             /\ \/ at'[a] = at[a]
                \/ /\ IsGoal(a) /\ at[a].reg /\ ThreadOf[a] = h /\ ~at[a].finished
                   /\ Terminated(at[a], at'[a], err) /\ Informed(a, at[a], at'[a])
  <2>1. at[a] \in AttemptRecords BY <1>3, Attempt
  <2>2. CASE a \in live /\ IsGoal(a)
    <3>1. at'[a] = GoalEnds(a, at[a], err) BY <1>1, <1>3, <2>2
    <3>2. Terminated(at[a], at'[a], err) /\ Informed(a, at[a], at'[a]) BY <2>1, <3>1, GoalEndsFacts
    <3> QED BY <2>2, <3>2 DEF Terminated
  <2>3. CASE ~(a \in live /\ IsGoal(a))
    <3>1. at'[a] = at[a] BY <1>1, <1>3, <2>3
    <3> QED BY <2>1, <3>1
  <2> QED BY <2>2, <2>3
<1>4. at' \in [Attempts -> AttemptRecords] BY <1>1, <1>3
<1>5. /\ early' \in [Threads -> Verdicts]
      /\ \A g \in Threads : early'[g] = early[g] \/ (g = h /\ early'[g] = err)
  BY <1>2 DEF TypeOK, Verdicts
<1> QED BY <1>3, <1>4, <1>5
-----------------------------------------------------------------------------
(* Generations and turns: what a step may do to them.                      *)

\* Generations only get older, turns that ended stay so, and a first turn starts only
\* for a caller in turn/start whose generation is open.
World ==
    /\ gen' \in Generations /\ turn' \in [Turns -> TurnRecords]
    /\ gen.id <= gen'.id
    /\ gen'.failing # {} => gen'.state \in {"failing", "closed"}
    /\ \A a \in gen'.failing : a \in gen.failing \/ at[a].reg
    /\ \A g \in Nat : g <= gen.id /\ Open(g)' => Open(g)
    /\ \A t \in Turns :
          /\ turn[t].state \in {"completed", "failed"} => turn'[t].state = turn[t].state
          /\ turn[t].sent <= turn'[t].sent
          /\ Running(t)' => gen'.state = "ready" /\ gen'.open /\ gen'.id = gen.id
    /\ \A a \in Attempts :
          /\ Running(First(a))' => Running(First(a)) \/ (at[a].pc = "call" /\ Open(at[a].gen))
          /\ turn'[First(a)].state # "none" => turn[First(a)].state # "none" \/ at[a].pc = "call"

LEMMA TurnUpdate ==
    ASSUME TypeOK, NEW t \in Turns, NEW q \in TurnRecords, turn' = [turn EXCEPT ![t] = q]
    PROVE  /\ turn' \in [Turns -> TurnRecords] /\ turn'[t] = q
           /\ \A u \in Turns : u # t => turn'[u] = turn[u]
BY DEF TypeOK

LEMMA KilledFacts ==
    ASSUME TypeOK
    PROVE  /\ Killed \in [Turns -> TurnRecords]
           /\ \A t \in Turns :
                 /\ Killed[t].state # "running" /\ Killed[t].sent = turn[t].sent
                 /\ turn[t].state # "running" => Killed[t] = turn[t]
                 /\ Killed[t].state = "none" <=> turn[t].state = "none"
<1>1. ASSUME NEW t \in Turns
      PROVE  /\ Killed[t] \in TurnRecords /\ Killed[t].state # "running" /\ Killed[t].sent = turn[t].sent
             /\ turn[t].state # "running" => Killed[t] = turn[t]
             /\ Killed[t].state = "none" <=> turn[t].state = "none"
  <2>1. turn[t] \in TurnRecords BY DEF TypeOK
  <2>2. Killed[t] = IF turn[t].state = "running" THEN [turn[t] EXCEPT !.state = "dead", !.announced = TRUE] ELSE turn[t]
    BY DEF Killed, Running, Over
  <2> QED BY <2>1, <2>2 DEF TurnRecords
<1>2. Killed \in [Turns -> TurnRecords] BY <1>1 DEF Killed
<1> QED BY <1>1, <1>2

\* Steps that touch neither generations nor turns.
LEMMA WorldSame ==
    ASSUME TypeOK, GenInv, UNCHANGED <<gen, turn>>
    PROVE  World
<1>1. gen' = gen /\ turn' = turn OBVIOUS
<1>2. gen \in Generations /\ turn \in [Turns -> TurnRecords] BY DEF TypeOK
<1>3. gen.id \in Nat BY <1>2 DEF Generations
<1>4. gen.id <= gen'.id BY <1>1, <1>3
<1>5. \A t \in Turns : turn[t].sent <= turn'[t].sent BY <1>1, <1>2 DEF TurnRecords
<1>6. \A t \in Turns : Running(t)' => gen'.state = "ready" /\ gen'.open /\ gen'.id = gen.id
  BY <1>1 DEF GenInv, Running
<1> QED BY <1>1, <1>2, <1>4, <1>5, <1>6 DEF World, GenInv, Open, Running

\* Steps after which no turn runs and no client is open.
LEMMA WorldShut ==
    ASSUME TypeOK, gen' \in Generations, gen'.id = gen.id, gen.id \in Nat, ~gen'.open,
           gen'.failing # {} => gen'.state \in {"failing", "closed"}, turn' = Killed,
           \A a \in gen'.failing : a \in gen.failing \/ at[a].reg
    PROVE  World
<1>1. turn' \in [Turns -> TurnRecords] BY KilledFacts
<1>2. \A t \in Turns : turn[t] \in TurnRecords BY DEF TypeOK
<1>3. \A t \in Turns : turn[t].sent <= turn'[t].sent BY <1>2, KilledFacts DEF TurnRecords
<1>4. \A t \in Turns : ~Running(t)' BY KilledFacts DEF Running
<1>5. \A t \in Turns : turn[t].state \in {"completed", "failed"} => turn'[t].state = turn[t].state BY KilledFacts
<1>6. \A a \in Attempts : turn'[First(a)].state # "none" => turn[First(a)].state # "none" BY KilledFacts, FirstTurn
<1>7. \A g \in Nat : ~Open(g)' BY DEF Open
<1>8. gen.id <= gen'.id OBVIOUS
<1> QED BY <1>1, <1>3, <1>4, <1>5, <1>6, <1>7, <1>8, FirstTurn DEF World

LEMMA CloseClientFacts ==
    ASSUME TypeOK, GenInv, NEW g \in Nat, CloseClient(g)
    PROVE  World /\ ~Open(g)' /\ (gen' = gen \/ gen' = [gen EXCEPT !.open = FALSE])
<1>1. gen \in Generations BY DEF TypeOK
<1>2. CASE Open(g)
  <2>1. gen' = [gen EXCEPT !.open = FALSE] /\ turn' = Killed BY <1>2 DEF CloseClient
  <2>2. /\ gen' \in Generations /\ gen'.id = gen.id /\ gen.id \in Nat /\ ~gen'.open
        /\ gen'.failing = gen.failing /\ gen'.state = gen.state
    BY <1>1, <2>1 DEF Generations
  <2>3. World BY <2>1, <2>2, WorldShut DEF GenInv
  <2> QED BY <2>1, <2>2, <2>3 DEF Open
<1>3. CASE ~Open(g)
  <2>1. gen' = gen /\ turn' = turn BY <1>3 DEF CloseClient
  <2>2. ~Open(g)' BY <1>3, <2>1 DEF Open
  <2> QED BY <2>1, <2>2, WorldSame
<1> QED BY <1>2, <1>3

\* Steps of the reader: one running turn is announced, goes on or ends.
LEMMA WorldEmit ==
    ASSUME TypeOK, GenInv, NEW t \in Turns, Running(t), NEW q \in TurnRecords, turn' = [turn EXCEPT ![t] = q],
           gen' = gen, turn[t].sent <= q.sent, q.state \in {"running", "completed", "failed"}
    PROVE  World
<1>1. turn' \in [Turns -> TurnRecords] /\ turn'[t] = q /\ \A u \in Turns : u # t => turn'[u] = turn[u]
  BY TurnUpdate
<1>2. gen \in Generations /\ \A u \in Turns : turn[u] \in TurnRecords BY DEF TypeOK
<1>3. gen.id <= gen'.id BY <1>2 DEF Generations
<1>4. \A u \in Turns : turn[u].sent <= turn'[u].sent BY <1>1, <1>2 DEF TurnRecords
<1>5. \A u \in Turns : turn[u].state \in {"completed", "failed"} => turn'[u].state = turn[u].state
  BY <1>1 DEF Running
<1>6. \A u \in Turns : Running(u)' => Running(u) BY <1>1 DEF Running
<1>7. \A u \in Turns : Running(u)' => gen'.state = "ready" /\ gen'.open /\ gen'.id = gen.id BY <1>6 DEF GenInv
<1>8. \A a \in Attempts : turn'[First(a)].state # "none" => turn[First(a)].state # "none"
  BY <1>1, FirstTurn DEF Running
<1>9. \A a \in Attempts : Running(First(a))' => Running(First(a)) BY <1>6, FirstTurn
<1>10. \A g \in Nat : Open(g)' => Open(g) BY DEF Open
<1> QED BY <1>1, <1>2, <1>3, <1>4, <1>5, <1>7, <1>8, <1>9, <1>10 DEF World, GenInv

\* Steps of App Server that start a turn.
LEMMA WorldStart ==
    ASSUME TypeOK, GenInv, NEW t \in Turns, turn[t].state = "none", Open(gen.id),
           turn' = [turn EXCEPT ![t].state = "running"], gen' = gen,
           \A a \in Attempts : t = First(a) => at[a].pc = "call" /\ Open(at[a].gen)
    PROVE  World
<1> DEFINE q == [turn[t] EXCEPT !.state = "running"]
<1>1. turn[t] \in TurnRecords BY DEF TypeOK
<1>2. q \in TurnRecords /\ q.sent = turn[t].sent /\ q.state = "running" BY <1>1 DEF TurnRecords
<1>3. turn' = [turn EXCEPT ![t] = q] OBVIOUS
<1> HIDE DEF q
<1>4. turn' \in [Turns -> TurnRecords] /\ turn'[t] = q /\ \A u \in Turns : u # t => turn'[u] = turn[u]
  BY <1>2, <1>3, TurnUpdate
<1>5. gen \in Generations /\ \A u \in Turns : turn[u] \in TurnRecords BY DEF TypeOK
<1>6. gen.id <= gen'.id BY <1>5 DEF Generations
<1>7. \A u \in Turns : turn[u].sent <= turn'[u].sent BY <1>2, <1>4, <1>5 DEF TurnRecords
<1>8. \A u \in Turns : turn[u].state \in {"completed", "failed"} => turn'[u].state = turn[u].state
  BY <1>4
<1>9. \A u \in Turns : gen'.state = "ready" /\ gen'.open /\ gen'.id = gen.id BY DEF Open
<1>10. \A a \in Attempts : /\ Running(First(a))' => Running(First(a)) \/ (at[a].pc = "call" /\ Open(at[a].gen))
                           /\ turn'[First(a)].state # "none" => turn[First(a)].state # "none" \/ at[a].pc = "call"
  BY <1>4, FirstTurn DEF Running
<1>11. \A g \in Nat : Open(g)' => Open(g) BY DEF Open
<1> QED BY <1>4, <1>5, <1>6, <1>7, <1>8, <1>9, <1>10, <1>11 DEF World, GenInv

Kinds == {"started", "item", "completed", "failed"}
Emit(t) == EmitStarted(t) \/ EmitItem(t) \/ \E s \in {"completed", "failed"} : EmitEnd(t, s)

\* What is emitted is true: an item is the turn's next one, an end the end the turn has.
LEMMA EmitShape ==
    ASSUME TypeOK, GenInv, NEW t \in Turns, Emit(t)
    PROVE  /\ World /\ Running(t)
           /\ UNCHANGED <<gen, call, stopper, early, goal>>
           /\ \E kind \in Kinds, n \in Nat :
                 /\ dispatch(t, kind, n)
                 /\ kind = "item" => n = turn[t].sent + 1 /\ (turn'[t].sent = n \/ IsGoal(t[1]))
                 /\ kind \in {"completed", "failed"} => turn'[t].state = kind
<1>1. turn[t] \in TurnRecords /\ Running(t) BY DEF TypeOK, Emit, EmitStarted, EmitItem, EmitEnd
<1>2. turn[t].sent \in Nat /\ turn[t].state = "running" BY <1>1 DEF TurnRecords, Running
<1>3. UNCHANGED <<gen, call, stopper, early, goal>> BY DEF Emit, EmitStarted, EmitItem, EmitEnd, runtime
<1>4. CASE EmitStarted(t)
  <2> DEFINE q == [turn[t] EXCEPT !.announced = TRUE]
  <2>1. turn' = [turn EXCEPT ![t] = q] /\ dispatch(t, "started", 0) BY <1>4 DEF EmitStarted
  <2>2. q \in TurnRecords /\ q.sent = turn[t].sent /\ q.state = "running" BY <1>1, <1>2 DEF TurnRecords
  <2> HIDE DEF q
  <2>3. turn[t].sent <= q.sent BY <1>2, <2>2
  <2>4. World BY <1>1, <1>3, <2>1, <2>2, <2>3, WorldEmit
  <2> QED BY <1>1, <1>3, <2>1, <2>4 DEF Kinds
<1>5. CASE EmitItem(t)
  <2> DEFINE n == turn[t].sent + 1
             q == [turn[t] EXCEPT !.sent = n]
  <2>1. dispatch(t, "item", n) /\ ((IsGoal(t[1]) /\ turn' = turn) \/ turn' = [turn EXCEPT ![t] = q]) BY <1>5 DEF EmitItem
  <2>2. n \in Nat /\ turn[t].sent <= n BY <1>2
  <2> HIDE DEF n
  <2>3. q \in TurnRecords /\ q.sent = n /\ q.state = "running" BY <1>1, <1>2, <2>2 DEF TurnRecords
  <2> HIDE DEF q
  <2>4. World BY <1>1, <1>3, <2>1, <2>2, <2>3, WorldEmit, WorldSame
  <2>5. turn'[t] = q \/ IsGoal(t[1]) BY <2>1, <2>3, TurnUpdate
  <2> QED BY <1>1, <1>3, <2>1, <2>2, <2>3, <2>4, <2>5 DEF Kinds, n
<1>6. CASE \E s \in {"completed", "failed"} : EmitEnd(t, s)
  <2>1. PICK s \in {"completed", "failed"} : EmitEnd(t, s) BY <1>6
  <2> DEFINE q == [turn[t] EXCEPT !.state = s, !.announced = TRUE]
  <2>2. turn' = [turn EXCEPT ![t] = q] /\ dispatch(t, s, 0) BY <2>1 DEF EmitEnd, Over
  <2>3. q \in TurnRecords /\ q.sent = turn[t].sent /\ q.state = s BY <1>1, <1>2 DEF TurnRecords
  <2> HIDE DEF q
  <2>4. turn[t].sent <= q.sent BY <1>2, <2>3
  <2>5. World BY <1>1, <1>3, <2>2, <2>3, <2>4, WorldEmit
  <2>6. turn'[t] = q BY <2>2, <2>3, TurnUpdate
  <2> QED BY <1>1, <1>3, <2>2, <2>3, <2>5, <2>6 DEF Kinds
<1> QED BY <1>4, <1>5, <1>6 DEF Emit

LEMMA GenerationFacts ==
    ASSUME TypeOK, GenInv, AppServerExits \/ Recovery \/ Close
    PROVE  World
<1>1. gen \in Generations BY DEF TypeOK
<1>2. gen.id \in Nat /\ gen.id <= gen.id + 1 /\ gen.id + 1 \in Nat \ {0} BY <1>1 DEF Generations
<1>3. \A t \in Turns : turn[t] \in TurnRecords /\ turn[t].sent <= turn[t].sent BY DEF TypeOK, TurnRecords
<1>4. CASE AppServerExits
  <2>1. gen' = [gen EXCEPT !.open = FALSE] /\ turn' = Killed BY <1>4 DEF AppServerExits
  <2>2. /\ gen' \in Generations /\ gen'.id = gen.id /\ ~gen'.open /\ gen'.failing = gen.failing
        /\ gen'.state = gen.state
    BY <1>1, <2>1 DEF Generations
  <2> QED BY <1>2, <2>1, <2>2, WorldShut DEF GenInv
<1>5. CASE Close
  <2> DEFINE f == {a \in Attempts : at[a].reg}
  <2>1. gen' = [gen EXCEPT !.state = "closed", !.open = FALSE, !.failing = f] /\ turn' = Killed BY <1>5 DEF Close
  <2>2. f \in SUBSET Attempts /\ \A a \in f : at[a].reg OBVIOUS
  <2> HIDE DEF f
  <2>3. gen' \in Generations /\ gen'.id = gen.id /\ ~gen'.open /\ gen'.state = "closed" /\ gen'.failing = f
    BY <1>1, <2>1, <2>2 DEF Generations
  <2> QED BY <1>2, <2>1, <2>2, <2>3, WorldShut
<1>6. ASSUME gen' \in Generations, turn' = turn, gen.id <= gen'.id, \A t \in Turns : ~Running(t),
             gen'.failing # {} => gen'.state \in {"failing", "closed"},
             \A a \in gen'.failing : a \in gen.failing \/ at[a].reg,
             \A g \in Nat : g <= gen.id /\ Open(g)' => Open(g)
      PROVE  World
  BY <1>3, <1>6, FirstTurn DEF World, Running, TypeOK
<1>7. CASE onGenerationExit
  <2> DEFINE f == {a \in Attempts : at[a].reg /\ at[a].gen = gen.id}
  <2>1. gen' = [gen EXCEPT !.state = "failing", !.failing = f] /\ turn' = turn /\ ~gen.open
    BY <1>7 DEF onGenerationExit, server
  <2>2. f \in SUBSET Attempts /\ \A a \in f : at[a].reg OBVIOUS
  <2> HIDE DEF f
  <2>3. gen' \in Generations /\ gen'.id = gen.id /\ gen'.state = "failing" /\ gen'.failing = f
    BY <1>1, <2>1, <2>2 DEF Generations
  <2>4. \A t \in Turns : ~Running(t) BY <2>1 DEF GenInv
  <2>5. gen.id <= gen'.id BY <1>2, <2>3
  <2> QED BY <1>6, <2>1, <2>2, <2>3, <2>4, <2>5 DEF Open
<1>8. CASE \E a \in Attempts : failAttempts(a)
  <2>1. PICK a \in Attempts : failAttempts(a) BY <1>8
  <2> DEFINE f == gen.failing \ {a}
  <2>2. gen' = [gen EXCEPT !.failing = f] /\ turn' = turn /\ a \in gen.failing
    BY <2>1 DEF failAttempts, server
  <2>3. f \in SUBSET Attempts /\ f \subseteq gen.failing BY <1>1 DEF Generations
  <2> HIDE DEF f
  <2>4. gen' \in Generations /\ gen'.id = gen.id /\ gen'.state = gen.state /\ gen'.open = gen.open /\ gen'.failing = f
    BY <1>1, <2>2, <2>3 DEF Generations
  <2>5. gen.state \in {"failing", "closed"} BY <2>2 DEF GenInv
  <2>6. \A t \in Turns : ~Running(t) BY <2>5 DEF GenInv
  <2>7. gen.id <= gen'.id BY <1>2, <2>4
  <2> QED BY <1>6, <2>2, <2>3, <2>4, <2>5, <2>6, <2>7 DEF Open
<1>9. CASE startGeneration
  <2>1. /\ turn' = turn /\ gen.state = "failing" /\ gen.failing = {}
        /\ \/ gen' = [gen EXCEPT !.state = "ready", !.open = TRUE, !.id = gen.id + 1]
           \/ gen' = [gen EXCEPT !.state = "unavailable"]
    BY <1>9 DEF startGeneration, server
  <2>2. \A t \in Turns : ~Running(t) BY <2>1 DEF GenInv
  <2>3. CASE gen' = [gen EXCEPT !.state = "ready", !.open = TRUE, !.id = gen.id + 1]
    <3>1. gen' \in Generations /\ gen'.id = gen.id + 1 /\ gen'.failing = gen.failing
      BY <1>1, <1>2, <2>3 DEF Generations
    <3>2. \A g \in Nat : g <= gen.id => g # gen'.id BY <1>2, <3>1
    <3>3. gen.id <= gen'.id BY <1>2, <3>1
    <3> QED BY <1>6, <2>1, <2>2, <3>1, <3>2, <3>3 DEF Open
  <2>4. CASE gen' = [gen EXCEPT !.state = "unavailable"]
    <3>1. gen' \in Generations /\ gen'.id = gen.id /\ gen'.failing = gen.failing /\ gen'.state = "unavailable"
      BY <1>1, <2>4 DEF Generations
    <3>2. gen.id <= gen'.id BY <1>2, <3>1
    <3> QED BY <1>6, <2>1, <2>2, <3>1, <3>2 DEF Open
  <2> QED BY <2>1, <2>3, <2>4
<1> QED BY <1>4, <1>5, <1>7, <1>8, <1>9 DEF Recovery

LEMMA WorldStep ==
    ASSUME TypeOK, GenInv, [Next]_vars
    PROVE  World
<1>1. CASE UNCHANGED vars BY <1>1, WorldSame DEF vars
<1>2. CASE AppServerExits \/ Recovery \/ Close BY <1>2, GenerationFacts
<1>3. CASE \E a \in Attempts : client(a) \/ Caller(a) \/ CancelContext(a) \/ AcceptTurn(a)
  <2>1. PICK a \in Attempts : client(a) \/ Caller(a) \/ CancelContext(a) \/ AcceptTurn(a) BY <1>3
  <2>2. CASE TurnStartFails(a)
    <3>1. at[a].gen \in Nat BY Attempt DEF AttemptRecords
    <3> QED BY <2>2, <3>1, CloseClientFacts DEF TurnStartFails
  <2>3. CASE AcceptTurn(a)
    <3>1. /\ at[a].pc = "call" /\ Open(at[a].gen) /\ turn[First(a)].state = "none" /\ gen' = gen
          /\ turn' = [turn EXCEPT ![First(a)].state = "running"]
      BY <2>3 DEF AcceptTurn
    <3>2. Open(gen.id) BY <3>1 DEF Open
    <3>3. \A b \in Attempts : First(a) = First(b) => a = b BY DEF First
    <3> QED BY <3>1, <3>2, <3>3, WorldStart, FirstTurn
  <2>4. CASE client(a) \/ Register(a) \/ SetGoal(a) \/ Start(a) \/ CancelContext(a)
    BY <2>4, WorldSame DEF client, Register, SetGoal, Start, CancelContext, server
  <2>5. CASE bindAttempt(a) \/ Replay(a) \/ BoundAndOn(a) \/ waitAttemptDone(a) \/ waitAttemptTimer(a)
    BY <2>5, WorldSame DEF bindAttempt, Replay, BoundAndOn, waitAttemptDone, waitAttemptTimer, server
  <2>6. CASE GraceExpires(a) \/ Return(a) \/ StopByCaller(a)
    BY <2>6, WorldSame DEF GraceExpires, Return, StopByCaller, server
  <2> QED BY <2>1, <2>2, <2>3, <2>4, <2>5, <2>6 DEF Caller
<1>4. CASE \E a \in GoalAttempts : RequestGoalStop(a) \/ Continue(a) \/ \E who \in Stoppers : Stopper(a, who)
  <2>1. PICK a \in GoalAttempts : RequestGoalStop(a) \/ Continue(a) \/ \E who \in Stoppers : Stopper(a, who) BY <1>4
  <2>2. a \in Attempts BY RuntimeAssumption
  <2>3. CASE RequestGoalStop(a) BY <2>3, WorldSame DEF RequestGoalStop, server
  <2>4. CASE Continue(a)
    <3>1. PICK k \in 1 .. MaxContinuations :
             /\ Open(gen.id) /\ turn[<<a, k + 1>>].state = "none" /\ gen' = gen
             /\ turn' = [turn EXCEPT ![<<a, k + 1>>].state = "running"]
      BY <2>4 DEF Continue
    <3>2. k + 1 \in 1 .. 1 + MaxContinuations /\ k + 1 # 1 BY RuntimeAssumption
    <3>3. <<a, k + 1>> \in Turns BY <2>2, <3>2 DEF Turns
    <3>4. \A b \in Attempts : <<a, k + 1>> # First(b) BY <3>2 DEF First
    <3> QED BY <3>1, <3>3, <3>4, WorldStart
  <2>5. CASE \E who \in Stoppers : StopFails(a, who)
    <3>1. at[a].gen \in Nat BY <2>2, Attempt DEF AttemptRecords
    <3> QED BY <2>5, <3>1, CloseClientFacts DEF StopFails
  <2>6. CASE \E who \in Stoppers : BeginStop(a, who) \/ PauseGoal(a, who) \/ ConfirmPause(a, who)
    BY <2>6, WorldSame DEF BeginStop, PauseGoal, ConfirmPause, server
  <2> QED BY <2>1, <2>3, <2>4, <2>5, <2>6 DEF Stopper
<1>5. CASE \E t \in Turns : Emit(t) BY <1>5, EmitShape
<1>6. CASE \E h \in Threads, s \in {"complete", "limited"} : GoalTerminates(h, s)
  BY <1>6, WorldSame DEF GoalTerminates
<1>7. CASE \E c \in Calls : Handler(c) \/ \E t \in Turns : CallArrives(c, t)
  BY <1>7, WorldSame DEF Handler, LookUp, AwaitBound, TakeSlot, StartHandler, HandlerReturns, CallArrives, Quiet, server
<1> QED BY <1>1, <1>2, <1>3, <1>4, <1>5, <1>6, <1>7 DEF Next, Emit
-----------------------------------------------------------------------------
(* What every step does to every attempt, as far as generation, registration *)
(* and context are concerned.                                              *)

Progress(r, q) ==
    /\ q.gen = r.gen \/ (r.pc = "new" /\ q.pc = "client" /\ q.gen = gen.id)
    /\ q.pc = "new" => r.pc = "new" /\ q.gen = r.gen
    /\ q.pc = "client" => r.pc = "client" \/ (r.pc = "new" /\ q.gen = gen.id)
    /\ q.reg => r.reg \/ (r.pc = "client" /\ q.pc \in {"set", "call"})
    /\ q.pc \in {"new", "client", "returned"} => q.pc = r.pc \/ r.pc = "new" \/ ~q.reg
    /\ r.cancelled => q.cancelled
    /\ q.finished => r.finished \/ q.cancelled
    /\ q.pc = "grace" => r.pc = "grace" \/ q.cancelled
    /\ q.pc = "returned" => r.pc = "returned" \/ q.cancelled \/ (r.pc = "new" /\ q.gen = r.gen)
    /\ r.pc = "returned" => q.pc = "returned"
\* An attempt comes through Runtime.client only.
Comes(a) == at[a].pc # "new" \/ at'[a].pc = "new" \/ client(a)
Moves == at' \in [Attempts -> AttemptRecords] /\ \A a \in Attempts : Progress(at[a], at'[a]) /\ Comes(a)

LEMMA MovesSame == ASSUME TypeOK, UNCHANGED at PROVE Moves
BY DEF TypeOK, Moves, Progress, Comes

LEMMA MovesOne ==
    ASSUME TypeOK, NEW a \in Attempts, Only(a), Progress(at[a], at'[a]), Comes(a) PROVE Moves
BY DEF Only, Moves, Progress, Comes

LEMMA MovesSteady == ASSUME TypeOK, NEW a \in Attempts, Only(a), Steady(at[a], at'[a]) PROVE Moves
<1>1. Progress(at[a], at'[a]) /\ Comes(a) BY DEF Steady, Progress, Comes
<1> QED BY <1>1, MovesOne

LEMMA CallerMoves ==
    ASSUME TypeOK, NEW a \in Attempts, client(a) \/ Caller(a) \/ CancelContext(a)
    PROVE  Moves
<1>1. CASE client(a)
  <2>1. Progress(at[a], at'[a]) /\ Comes(a) BY <1>1, clientShape DEF Comes, Progress, SameEnd
  <2> QED BY <1>1, <2>1, clientShape, MovesOne
<1>2. CASE Register(a)
  <2>1. Progress(at[a], at'[a]) /\ Comes(a) BY <1>2, RegisterShape DEF Comes, Progress, SameEnd
  <2> QED BY <1>2, <2>1, RegisterShape, MovesOne
<1>3. ASSUME NEW p \in Places \ {"new", "client", "grace", "returned"}, Went(at[a], at'[a], p), Only(a), at[a].pc \notin {"new", "returned"}
      PROVE  Moves
  <2>1. Progress(at[a], at'[a]) /\ Comes(a) BY <1>3 DEF Comes, Progress, Went, SameCore, SameEnd
  <2> QED BY <1>3, <2>1, MovesOne
<1>4. CASE SetGoal(a) \/ Start(a) BY <1>3, <1>4, SetGoalShape, StartShape DEF Places
<1>5. CASE TurnStartFails(a) \/ waitAttemptDone(a) \/ GraceExpires(a) \/ StopByCaller(a)
  BY <1>3, <1>5, LeavesShape DEF Places
<1>6. CASE waitAttemptTimer(a)
  <2>1. Progress(at[a], at'[a]) /\ Comes(a) BY <1>6, TimerShape DEF Comes, Progress, Went, SameCore, SameEnd
  <2> QED BY <1>6, <2>1, TimerShape, MovesOne
<1>7. CASE BoundAndOn(a) BY <1>3, <1>7, BoundAndOnShape DEF Places
<1>8. CASE bindAttempt(a)
  <2>1. Progress(at[a], at'[a]) /\ Comes(a)
    BY <1>8, bindAttemptShape DEF Comes, Progress, Went, BoundTo, Refused, Stopped, SameCore, SameEnd
  <2> QED BY <1>8, <2>1, bindAttemptShape, MovesOne
<1>9. CASE Replay(a)
  <2>1. PICK s \in AttemptRecords :
           /\ Shifted(at[a], s)
           /\ \/ at'[a] = s
              \/ /\ a \in Plain => RoutedTo(a, s, at'[a], Head(at[a].replay))
                 /\ a \in GoalAttempts => GoalRoutedTo(a, s, at'[a])
    BY <1>9, ReplayShape
  <2>2. at[a] \in AttemptRecords /\ (a \in Plain \/ a \in GoalAttempts) BY Attempt DEF Plain
  <2>3. Steady(at[a], at'[a]) \/ GoalSteady(at[a], at'[a]) BY <2>1, <2>2, RoutedSteady DEF Shifted
  <2>4. Steady(at[a], at'[a]) BY <2>3 DEF Steady, GoalSteady, SameCore
  <2> QED BY <1>9, <2>4, ReplayShape, MovesSteady
<1>10. CASE Return(a)
  <2>1. Progress(at[a], at'[a]) /\ Comes(a) BY <1>10, ReturnShape DEF Comes, Progress
  <2> QED BY <1>10, <2>1, ReturnShape, MovesOne
<1>11. CASE CancelContext(a)
  <2>1. Progress(at[a], at'[a]) /\ Comes(a) BY <1>11, CancelContextShape DEF Comes, Progress, SameCore
  <2> QED BY <1>11, <2>1, CancelContextShape, MovesOne
<1> QED BY <1>1, <1>2, <1>4, <1>5, <1>6, <1>7, <1>8, <1>9, <1>10, <1>11 DEF Caller

LEMMA EmitMoves ==
    ASSUME TypeOK, GenInv, NEW t \in Turns, Emit(t)
    PROVE  Moves /\ disturbed' \in Nat /\ interrupted \subseteq interrupted' /\ interrupted' \subseteq Turns
<1>1. PICK kind \in Kinds, n \in Nat : dispatch(t, kind, n) BY EmitShape
<1> DEFINE e == [kind |-> kind, turn |-> t, n |-> n]
<1>2. /\ disturbed' \in Nat
      /\ \/ at' = at /\ interrupted' = interrupted
         \/ \E a \in Plain :
               /\ at[a].reg /\ Only(a)
               /\ \/ Kept(at[a], at'[a], e) /\ interrupted' = interrupted
                  \/ at[a].turn = e.turn /\ RoutedTo(a, at[a], at'[a], e)
         \/ /\ interrupted \subseteq interrupted' /\ interrupted' \subseteq Turns
            /\ at' = at \/ \E a \in GoalAttempts : at[a].reg /\ Only(a) /\ GoalSteady(at[a], at'[a])
  BY <1>1, dispatchShape DEF Kinds
<1> HIDE DEF e
<1>3. CASE at' = at /\ interrupted' = interrupted BY <1>2, <1>3, MovesSame DEF TypeOK
<1>4. CASE \E a \in Plain :
              /\ at[a].reg /\ Only(a)
              /\ \/ Kept(at[a], at'[a], e) /\ interrupted' = interrupted
                 \/ at[a].turn = e.turn /\ RoutedTo(a, at[a], at'[a], e)
  <2>1. PICK a \in Plain :
              /\ at[a].reg /\ Only(a)
              /\ \/ Kept(at[a], at'[a], e) /\ interrupted' = interrupted
                 \/ at[a].turn = e.turn /\ RoutedTo(a, at[a], at'[a], e)
    BY <1>4
  <2>2. a \in Attempts BY DEF Plain
  <2>3. at[a] \in AttemptRecords BY <2>2, Attempt
  <2>4. CASE Kept(at[a], at'[a], e) /\ interrupted' = interrupted
    <3>1. Steady(at[a], at'[a]) BY <2>4 DEF Kept, Steady, SameCore, SameEnd
    <3> QED BY <1>2, <2>1, <2>2, <2>4, <3>1, MovesSteady DEF TypeOK
  <2>5. CASE RoutedTo(a, at[a], at'[a], e)
    <3>1. Steady(at[a], at'[a]) BY <2>2, <2>3, <2>5, RoutedSteady DEF SameCore, SameEnd
    <3>2. interrupted' = interrupted \/ Interrupt(a, at[a].turn) BY <2>5 DEF RoutedTo, Refused
    <3>3. at[a].turn \in Turns \cup {NoTurn} BY <2>3 DEF AttemptRecords
    <3>4. interrupted \subseteq interrupted' /\ interrupted' \subseteq Turns
      BY <2>2, <3>2, <3>3, InterruptFacts DEF TypeOK
    <3> QED BY <1>2, <2>1, <2>2, <3>1, <3>4, MovesSteady
  <2> QED BY <2>1, <2>4, <2>5
<1>5. CASE /\ interrupted \subseteq interrupted' /\ interrupted' \subseteq Turns
           /\ at' = at \/ \E a \in GoalAttempts : at[a].reg /\ Only(a) /\ GoalSteady(at[a], at'[a])
  <2>1. CASE at' = at BY <1>2, <1>5, <2>1, MovesSame
  <2>2. CASE \E a \in GoalAttempts : at[a].reg /\ Only(a) /\ GoalSteady(at[a], at'[a])
    <3>1. PICK a \in GoalAttempts : Only(a) /\ GoalSteady(at[a], at'[a]) BY <2>2
    <3>2. a \in Attempts BY RuntimeAssumption
    <3>3. Steady(at[a], at'[a]) BY <3>1 DEF Steady, GoalSteady, SameCore
    <3> QED BY <1>2, <1>5, <3>1, <3>2, <3>3, MovesSteady
  <2> QED BY <1>5, <2>1, <2>2
<1> QED BY <1>2, <1>3, <1>4, <1>5

LEMMA StopMoves ==
    ASSUME TypeOK, NEW a \in GoalAttempts, NEW who \in Stoppers, BeginStop(a, who) \/ ConfirmPause(a, who)
    PROVE  Moves
<1>0. a \in Attempts BY RuntimeAssumption
<1>1. CASE BeginStop(a, who)
  <2>1. CASE at' = at BY <2>1, MovesSame
  <2>2. CASE at' # at
    <3>1. /\ Only(a) /\ at'[a].pc = at[a].pc /\ SameCore(at[a], at'[a])
          /\ at'[a].finished = at[a].finished /\ at'[a].cancelled = at[a].cancelled
      BY <1>1, <2>2, BeginStopShape
    <3>2. Steady(at[a], at'[a]) BY <1>0, <3>1 DEF Steady, SameCore, Only
    <3> QED BY <1>0, <3>1, <3>2, MovesSteady
  <2> QED BY <2>1, <2>2
<1>2. CASE ConfirmPause(a, who)
  <2>1. Only(a) BY <1>2, ConfirmPauseShape
  <2>2. Steady(at[a], at'[a]) BY <1>0, <1>2, <2>1, ConfirmPauseShape DEF Steady, Only
  <2> QED BY <1>0, <2>1, <2>2, MovesSteady
<1> QED BY <1>1, <1>2

LEMMA UpdatedMoves ==
    ASSUME TypeOK, NEW h \in Threads, NEW err \in {"ok", "error"}, GoalUpdated(h, err)
    PROVE  Moves
<1>1. ASSUME NEW a \in Attempts PROVE Progress(at[a], at'[a]) /\ Comes(a)
  BY GoalUpdatedShape DEF Progress, Terminated, Comes
<1> QED BY <1>1, GoalUpdatedShape DEF Moves

\* One step: every attempt makes progress, what was interrupted stays so.
LEMMA MovesStep ==
    ASSUME TypeOK, GenInv, [Next]_vars
    PROVE  Moves /\ interrupted \subseteq interrupted' /\ interrupted' \subseteq Turns
           /\ disturbed' \in Nat
<1>0. interrupted \subseteq Turns /\ disturbed \in Nat BY DEF TypeOK
<1>1. CASE UNCHANGED vars BY <1>0, <1>1, MovesSame DEF vars
<1>2. CASE AppServerExits \/ onGenerationExit \/ startGeneration \/ Close
  <2>1. at' = at /\ interrupted' = interrupted /\ (Disturb \/ UNCHANGED disturbed)
    BY <1>2 DEF AppServerExits, onGenerationExit, startGeneration, Close, server
  <2> QED BY <1>0, <2>1, MovesSame, DisturbFacts
<1>3. CASE \E a \in Attempts : failAttempts(a)
  <2>1. PICK a \in Attempts : failAttempts(a) BY <1>3
  <2>2. Only(a) /\ Ended(at[a], at'[a], "error") BY <2>1, failAttemptsShape
  <2>3. Steady(at[a], at'[a]) BY <2>2 DEF Ended, Steady, SameCore
  <2>4. interrupted' = interrupted /\ disturbed' = disturbed BY <2>1 DEF failAttempts, server
  <2> QED BY <1>0, <2>2, <2>3, <2>4, MovesSteady
<1>4. CASE \E a \in Attempts : client(a) \/ Caller(a) \/ CancelContext(a)
  <2>1. PICK a \in Attempts : client(a) \/ Caller(a) \/ CancelContext(a) BY <1>4
  <2>2. Moves BY <2>1, CallerMoves
  <2>3. at[a].turn \in Turns \cup {NoTurn} /\ First(a) \in Turns BY Attempt, FirstTurn DEF AttemptRecords
  <2>4. ASSUME NEW t \in Turns \cup {NoTurn}, interrupted' = interrupted \/ Interrupt(a, t), Disturb \/ UNCHANGED disturbed
        PROVE  interrupted \subseteq interrupted' /\ interrupted' \subseteq Turns /\ disturbed' \in Nat
    BY <1>0, <2>4, InterruptFacts, DisturbFacts
  <2>5. CASE client(a) \/ Register(a) \/ SetGoal(a) \/ Start(a) \/ TurnStartFails(a)
    BY <2>2, <2>4, <2>5 DEF client, Register, SetGoal, Start, TurnStartFails, server
  <2>6. CASE waitAttemptDone(a) \/ GraceExpires(a) \/ Return(a) \/ StopByCaller(a) \/ CancelContext(a)
    BY <2>2, <2>4, <2>6 DEF waitAttemptDone, GraceExpires, Return, StopByCaller, CancelContext, server
  <2>7. CASE waitAttemptTimer(a) \/ BoundAndOn(a)
    <3>1. UNCHANGED disturbed BY <2>7 DEF waitAttemptTimer, BoundAndOn
    <3>2. \E t \in Turns \cup {NoTurn} : interrupted' = interrupted \/ Interrupt(a, t)
      BY <2>3, <2>7, TimerShape, BoundAndOnShape
    <3> QED BY <2>2, <2>4, <3>1, <3>2
  <2>8. CASE bindAttempt(a)
    <3>1. UNCHANGED disturbed BY <2>8 DEF bindAttempt
    <3>2. \E t \in Turns \cup {NoTurn} : interrupted' = interrupted \/ Interrupt(a, t)
      BY <2>8, bindAttemptShape DEF Refused, AttemptRecords
    <3> QED BY <2>2, <2>4, <3>1, <3>2
  <2>9. CASE Replay(a)
    <3>1. disturbed' \in Nat BY <2>9, ReplayShape
    <3>2. a \in Plain \/ a \in GoalAttempts BY DEF Plain
    <3>3. \E t \in Turns \cup {NoTurn} : interrupted' = interrupted \/ Interrupt(a, t)
      BY <2>9, <3>2, ReplayShape DEF RoutedTo, GoalRoutedTo, Refused, AttemptRecords
    <3> QED BY <1>0, <2>2, <3>1, <3>3, InterruptFacts
  <2> QED BY <2>1, <2>5, <2>6, <2>7, <2>8, <2>9 DEF Caller
<1>5. CASE \E a \in Attempts : AcceptTurn(a) BY <1>0, <1>5, MovesSame DEF AcceptTurn
<1>6. CASE \E a \in GoalAttempts : RequestGoalStop(a) \/ Continue(a)
  <2>1. at' = at /\ interrupted' = interrupted /\ (Disturb \/ UNCHANGED disturbed)
    BY <1>6 DEF RequestGoalStop, Continue, server
  <2> QED BY <1>0, <2>1, MovesSame, DisturbFacts
<1>7. CASE \E a \in GoalAttempts : \E who \in Stoppers : Stopper(a, who)
  <2>1. PICK a \in GoalAttempts, who \in Stoppers : Stopper(a, who) BY <1>7
  <2>2. ThreadOf[a] \in Threads BY RuntimeAssumption DEF Threads, Range
  <2>3. CASE BeginStop(a, who)
    <3>1. interrupted' = interrupted /\ disturbed' = disturbed BY <2>3 DEF BeginStop, server
    <3> QED BY <1>0, <2>3, <3>1, StopMoves
  <2>4. CASE ConfirmPause(a, who)
    <3>1. disturbed' = disturbed BY <2>4 DEF ConfirmPause
    <3> QED BY <1>0, <2>4, <3>1, StopMoves, ConfirmPauseShape
  <2>5. CASE StopFails(a, who)
    <3>1. at' = at /\ interrupted' = interrupted /\ (Disturb \/ UNCHANGED disturbed) BY <2>5 DEF StopFails
    <3> QED BY <1>0, <3>1, MovesSame, DisturbFacts
  <2>6. CASE PauseGoal(a, who)
    <3>1. interrupted' = interrupted /\ disturbed' = disturbed BY <2>6 DEF PauseGoal
    <3>2. at' = at \/ GoalUpdated(ThreadOf[a], "error") BY <2>6 DEF PauseGoal
    <3>3. Moves BY <2>2, <3>2, MovesSame, UpdatedMoves
    <3> QED BY <1>0, <3>1, <3>3
  <2> QED BY <2>1, <2>3, <2>4, <2>5, <2>6 DEF Stopper
<1>8. CASE \E t \in Turns : Emit(t) BY <1>8, EmitMoves
<1>9. CASE \E h \in Threads, s \in {"complete", "limited"} : GoalTerminates(h, s)
  <2>1. PICK h \in Threads, s \in {"complete", "limited"} : GoalTerminates(h, s) BY <1>9
  <2>2. \E err \in {"ok", "error"} : GoalUpdated(h, err) BY <2>1 DEF GoalTerminates
  <2>3. interrupted' = interrupted /\ disturbed' = disturbed BY <2>1 DEF GoalTerminates
  <2> QED BY <1>0, <2>2, <2>3, UpdatedMoves
<1>10. CASE \E c \in Calls : Handler(c) \/ \E t \in Turns : CallArrives(c, t)
  <2>1. Quiet BY <1>10 DEF Handler, LookUp, AwaitBound, TakeSlot, StartHandler, HandlerReturns, CallArrives
  <2> QED BY <1>0, <2>1, MovesSame DEF Quiet, server
<1> QED BY <1>1, <1>2, <1>3, <1>4, <1>5, <1>6, <1>7, <1>8, <1>9, <1>10 DEF Next, Emit, Recovery
-----------------------------------------------------------------------------
(* Tool calls, stops, goals.                                               *)

LEMMA CallStep ==
    ASSUME TypeOK, [Next]_vars
    PROVE  /\ call' \in [Calls -> CallRecords]
           /\ \A c \in Calls : \/ call'[c].owner = call[c].owner
                               \/ \A a \in call'[c].owner : a \in Attempts /\ at[a].reg
<1>1. call \in [Calls -> CallRecords] BY DEF TypeOK
<1>2. CASE call' = call BY <1>1, <1>2
<1>3. CASE \E c \in Calls : Handler(c)
  <2>1. PICK c \in Calls, p \in {"bound", "slot", "permit", "running", "done"} : CallTo(c, p)
    BY <1>3 DEF Handler, LookUp, AwaitBound, TakeSlot, StartHandler, HandlerReturns
  <2> QED BY <1>1, <2>1 DEF CallTo, CallRecords
<1>4. CASE \E c \in Calls, t \in Turns : CallArrives(c, t)
  <2>1. PICK c \in Calls, t \in Turns : CallArrives(c, t) BY <1>4
  <2> DEFINE p == IF Owner(t) = {} THEN "done" ELSE "look"
             q == [pc |-> p, turn |-> t, owner |-> Owner(t)]
  <2>2. call' = [call EXCEPT ![c] = q] BY <2>1 DEF CallArrives
  <2>3. Owner(t) \in SUBSET Attempts /\ \A a \in Owner(t) : a \in Attempts /\ at[a].reg BY DEF Owner
  <2>4. q \in CallRecords BY <2>3 DEF CallRecords
  <2>5. q.owner = Owner(t) OBVIOUS
  <2> HIDE DEF q
  <2> QED BY <1>1, <2>2, <2>3, <2>4, <2>5
<1>5. \/ call' = call
      \/ \E c \in Calls : Handler(c)
      \/ \E c \in Calls, t \in Turns : CallArrives(c, t)
  <2>1. CASE AppServerExits \/ Recovery \/ Close
    BY <2>1 DEF AppServerExits, Recovery, onGenerationExit, startGeneration, failAttempts, Close, runtime
  <2>2. CASE \E a \in Attempts : client(a) \/ CancelContext(a) \/ AcceptTurn(a)
    BY <2>2 DEF client, CancelContext, AcceptTurn, runtime
  <2>3. CASE \E a \in Attempts : Caller(a)
    <3>1. PICK a \in Attempts : Caller(a) BY <2>3
    <3>2. CASE Register(a) \/ SetGoal(a) \/ Start(a) \/ TurnStartFails(a) \/ bindAttempt(a) \/ Replay(a)
      BY <3>2 DEF Register, SetGoal, Start, TurnStartFails, bindAttempt, Replay, runtime
    <3>3. CASE BoundAndOn(a) \/ waitAttemptDone(a) \/ waitAttemptTimer(a)
      BY <3>3 DEF BoundAndOn, waitAttemptDone, waitAttemptTimer, runtime
    <3>4. CASE GraceExpires(a) \/ Return(a) \/ StopByCaller(a)
      BY <3>4 DEF GraceExpires, Return, StopByCaller, runtime
    <3> QED BY <3>1, <3>2, <3>3, <3>4 DEF Caller
  <2>4. CASE \E a \in GoalAttempts : RequestGoalStop(a) \/ Continue(a) \/ \E who \in Stoppers : Stopper(a, who)
    BY <2>4 DEF RequestGoalStop, Continue, Stopper, BeginStop, PauseGoal, ConfirmPause, StopFails, runtime
  <2>5. CASE \E t \in Turns : Emit(t) BY <2>5 DEF Emit, EmitStarted, EmitItem, EmitEnd, runtime
  <2>6. CASE \E h \in Threads, s \in {"complete", "limited"} : GoalTerminates(h, s) BY <2>6 DEF GoalTerminates
  <2>7. CASE UNCHANGED vars BY <2>7 DEF vars
  <2> QED BY <2>1, <2>2, <2>3, <2>4, <2>5, <2>6, <2>7 DEF Next, Emit
<1> QED BY <1>2, <1>3, <1>4, <1>5

LEMMA StopUpdate ==
    ASSUME TypeOK, NEW a \in GoalAttempts, NEW who \in Stoppers, NEW q \in StopRecords,
           stopper' = [stopper EXCEPT ![<<a, who>>] = q]
    PROVE  /\ stopper' \in [GoalAttempts \X Stoppers -> StopRecords] /\ stopper'[<<a, who>>] = q
           /\ \A x \in GoalAttempts \X Stoppers : x # <<a, who>> => stopper'[x] = stopper[x]
BY DEF TypeOK

LEMMA StopMove ==
    ASSUME TypeOK, NEW a \in GoalAttempts, NEW who \in Stoppers,
           NEW p \in {"none", "pending", "begin", "pause", "confirm", "done"},
           stopper' = [stopper EXCEPT ![<<a, who>>].pc = p]
    PROVE  /\ stopper' \in [GoalAttempts \X Stoppers -> StopRecords] /\ stopper'[<<a, who>>].pc = p
           /\ \A x \in GoalAttempts \X Stoppers : x # <<a, who>> => stopper'[x] = stopper[x]
<1> DEFINE q == [stopper[<<a, who>>] EXCEPT !.pc = p]
<1>1. stopper[<<a, who>>] \in StopRecords BY DEF TypeOK
<1>2. q \in StopRecords /\ q.pc = p BY <1>1 DEF StopRecords
<1>3. stopper' = [stopper EXCEPT ![<<a, who>>] = q] OBVIOUS
<1> HIDE DEF q
<1>4. /\ stopper' \in [GoalAttempts \X Stoppers -> StopRecords] /\ stopper'[<<a, who>>] = q
      /\ \A x \in GoalAttempts \X Stoppers : x # <<a, who>> => stopper'[x] = stopper[x]
  BY ONLY TypeOK, a \in GoalAttempts, who \in Stoppers, <1>2, <1>3, StopUpdate
<1> QED BY ONLY <1>2, <1>4

LEMMA StopEnds ==
    ASSUME TypeOK, NEW a \in GoalAttempts, NEW who \in Stoppers, stopper' = [stopper EXCEPT ![<<a, who>>] = StopOver]
    PROVE  /\ stopper' \in [GoalAttempts \X Stoppers -> StopRecords] /\ stopper'[<<a, who>>].pc = "done"
           /\ \A x \in GoalAttempts \X Stoppers : x # <<a, who>> => stopper'[x] = stopper[x]
<1>1. StopOver \in StopRecords /\ StopOver.pc = "done" BY DEF StopOver, StopRecords
<1> QED BY <1>1, StopUpdate

LEMMA RegisterStops ==
    ASSUME TypeOK, NEW a \in Attempts, Register(a)
    PROVE  /\ stopper' \in [GoalAttempts \X Stoppers -> StopRecords]
           /\ \A b \in GoalAttempts : stopper'[<<b, "caller">>] = stopper[<<b, "caller">>]
           /\ early' \in [Threads -> Verdicts]
           /\ \A h \in Threads : early'[h] = early[h] \/ early'[h] = "none"
<1>1. stopper' = [x \in DOMAIN stopper |->
                      IF x = <<a, "control">> /\ stopper[x].pc = "pending"
                      THEN [stopper[x] EXCEPT !.pc = "done"] ELSE stopper[x]]
  BY DEF Register
<1>2. stopper \in [GoalAttempts \X Stoppers -> StopRecords] BY DEF TypeOK
<1>3. \A x \in GoalAttempts \X Stoppers : [stopper[x] EXCEPT !.pc = "done"] \in StopRecords
  BY <1>2 DEF StopRecords
<1>4. stopper' \in [GoalAttempts \X Stoppers -> StopRecords] BY <1>1, <1>2, <1>3
<1>5. ASSUME NEW b \in GoalAttempts PROVE stopper'[<<b, "caller">>] = stopper[<<b, "caller">>]
  <2>1. <<b, "caller">> \in GoalAttempts \X Stoppers /\ <<b, "caller">> # <<a, "control">> BY DEF Stoppers
  <2> QED BY <1>1, <1>2, <2>1
<1>6. early \in [Threads -> Verdicts] /\ "none" \in Verdicts BY DEF TypeOK, Verdicts
<1>7. early' = early \/ early' = [early EXCEPT ![ThreadOf[a]] = "none"] BY DEF Register
<1> QED BY <1>4, <1>5, <1>6, <1>7

LEMMA ThreadFacts == ASSUME NEW a \in Attempts PROVE ThreadOf[a] \in Threads
BY RuntimeAssumption DEF Threads, Range

LEMMA GoalUpdate ==
    ASSUME TypeOK, NEW h \in Threads, NEW q \in GoalRecords, goal' = [goal EXCEPT ![h] = q]
    PROVE  goal' \in [Threads -> GoalRecords] /\ goal'[h] = q /\ \A k \in Threads : k # h => goal'[k] = goal[k]
BY DEF TypeOK

\* The status of an active goal changes, which the reader hears of.
LEMMA StatusStep ==
    ASSUME TypeOK, NEW h \in Threads, NEW s \in Terminal, goal' = [goal EXCEPT ![h].status = s]
    PROVE  /\ goal' \in [Threads -> GoalRecords] /\ goal'[h].status = s /\ goal'[h].by = goal[h].by
           /\ \A k \in Threads : k # h => goal'[k] = goal[k]
<1> DEFINE q == [goal[h] EXCEPT !.status = s]
<1>1. goal[h] \in GoalRecords BY DEF TypeOK
<1>2. q \in GoalRecords /\ q.status = s /\ q.by = goal[h].by BY <1>1 DEF GoalRecords
<1>3. goal' = [goal EXCEPT ![h] = q] OBVIOUS
<1> HIDE DEF q
<1> QED BY <1>2, <1>3, GoalUpdate

\* Steps that touch neither stops nor goals.
LEMMA GoalsSame ==
    ASSUME [Next]_vars
    PROVE  \/ UNCHANGED <<stopper, early, goal>>
           \/ \E a \in Attempts : Register(a) \/ SetGoal(a) \/ StopByCaller(a)
           \/ \E a \in GoalAttempts : RequestGoalStop(a) \/ \E who \in Stoppers : Stopper(a, who)
           \/ \E h \in Threads, s \in {"complete", "limited"} : GoalTerminates(h, s)
<1>1. CASE AppServerExits \/ Recovery \/ Close
  BY <1>1 DEF AppServerExits, Recovery, onGenerationExit, startGeneration, failAttempts, Close, runtime, server
<1>2. CASE \E a \in Attempts : client(a) \/ CancelContext(a) \/ AcceptTurn(a)
  BY <1>2 DEF client, CancelContext, AcceptTurn, runtime, server
<1>3. CASE \E a \in Attempts : Caller(a)
  <2>1. PICK a \in Attempts : Caller(a) BY <1>3
  <2>2. CASE Start(a) \/ TurnStartFails(a) \/ bindAttempt(a) \/ Replay(a)
    BY <2>2 DEF Start, TurnStartFails, bindAttempt, Replay, runtime, server
  <2>3. CASE BoundAndOn(a) \/ waitAttemptDone(a) \/ waitAttemptTimer(a)
    BY <2>3 DEF BoundAndOn, waitAttemptDone, waitAttemptTimer, runtime, server
  <2>4. CASE GraceExpires(a) \/ Return(a)
    BY <2>4 DEF GraceExpires, Return, runtime, server
  <2> QED BY <2>1, <2>2, <2>3, <2>4 DEF Caller
<1>4. CASE \E a \in GoalAttempts : Continue(a) BY <1>4 DEF Continue, runtime
<1>5. CASE \E t \in Turns : Emit(t) BY <1>5 DEF Emit, EmitStarted, EmitItem, EmitEnd, runtime
<1>6. CASE \E c \in Calls : Handler(c) \/ \E t \in Turns : CallArrives(c, t)
  BY <1>6 DEF Handler, LookUp, AwaitBound, TakeSlot, StartHandler, HandlerReturns, CallArrives, Quiet, server
<1>7. CASE UNCHANGED vars BY <1>7 DEF vars
<1> QED BY <1>1, <1>2, <1>3, <1>4, <1>5, <1>6, <1>7 DEF Next, Emit

LEMMA GoalTypes ==
    ASSUME TypeOK, [Next]_vars
    PROVE  /\ stopper' \in [GoalAttempts \X Stoppers -> StopRecords]
           /\ early' \in [Threads -> Verdicts] /\ goal' \in [Threads -> GoalRecords]
<1>0. /\ stopper \in [GoalAttempts \X Stoppers -> StopRecords]
      /\ early \in [Threads -> Verdicts] /\ goal \in [Threads -> GoalRecords]
  BY DEF TypeOK
<1>1. CASE UNCHANGED <<stopper, early, goal>> BY <1>0, <1>1
<1>2. CASE \E a \in Attempts : Register(a)
  <2>1. goal' = goal BY <1>2 DEF Register, server
  <2> QED BY <1>0, <1>2, <2>1, RegisterStops
<1>3. CASE \E a \in Attempts : SetGoal(a)
  <2>1. PICK a \in Attempts : SetGoal(a) BY <1>3
  <2> DEFINE q == [by |-> {a}, status |-> "active"]
  <2>2. stopper' = stopper /\ early' = early BY <2>1 DEF SetGoal, runtime
  <2>3. goal' = goal \/ goal' = [goal EXCEPT ![ThreadOf[a]] = q] BY <2>1 DEF SetGoal
  <2>4. q \in GoalRecords BY DEF GoalRecords
  <2> HIDE DEF q
  <2> QED BY <1>0, <2>2, <2>3, <2>4, ThreadFacts, GoalUpdate
<1>4. CASE \E a \in Attempts : StopByCaller(a)
  <2>1. PICK a \in Attempts : StopByCaller(a) BY <1>4
  <2>2. a \in GoalAttempts /\ "caller" \in Stoppers /\ early' = early /\ goal' = goal
    BY <2>1 DEF StopByCaller, IsGoal, server, Stoppers
  <2>3. stopper' = [stopper EXCEPT ![<<a, "caller">>].pc = "begin"] BY <2>1 DEF StopByCaller
  <2> QED BY <1>0, <2>2, <2>3, StopMove
<1>5. CASE \E a \in GoalAttempts : RequestGoalStop(a)
  <2>1. PICK a \in GoalAttempts : RequestGoalStop(a) BY <1>5
  <2> DEFINE p == IF at[a].reg THEN "begin" ELSE "pending"
  <2>2. stopper' = [stopper EXCEPT ![<<a, "control">>].pc = p] BY <2>1 DEF RequestGoalStop
  <2>3. "control" \in Stoppers /\ early' = early /\ goal' = goal BY <2>1 DEF RequestGoalStop, Stoppers, server
  <2>4. p \in {"none", "pending", "begin", "pause", "confirm", "done"} OBVIOUS
  <2> HIDE DEF p
  <2> QED BY <1>0, <2>2, <2>3, <2>4, StopMove
<1>6. CASE \E a \in GoalAttempts, who \in Stoppers : Stopper(a, who)
  <2>1. PICK a \in GoalAttempts, who \in Stoppers : Stopper(a, who) BY <1>6
  <2>2. a \in Attempts /\ ThreadOf[a] \in Threads BY RuntimeAssumption, ThreadFacts
  <2>3. CASE BeginStop(a, who)
    <3> DEFINE q == [pc |-> "pause", turn |-> at[a].turn]
    <3>1. early' = early /\ goal' = goal BY <2>3 DEF BeginStop, server
    <3>2. at[a].turn \in Turns \cup {NoTurn} BY <2>2, Attempt DEF AttemptRecords
    <3>3. q \in StopRecords BY <3>2 DEF StopRecords
    <3>4. \/ stopper' = [stopper EXCEPT ![<<a, who>>].pc = "done"]
          \/ stopper' = [stopper EXCEPT ![<<a, who>>] = q]
      BY <2>3, BeginStopShape
    <3> HIDE DEF q
    <3> QED BY <1>0, <3>1, <3>3, <3>4, StopMove, StopUpdate
  <2>4. CASE PauseGoal(a, who)
    <3>1. stopper' = [stopper EXCEPT ![<<a, who>>].pc = "confirm"] BY <2>4 DEF PauseGoal
    <3>2. \/ early' = early /\ goal' = goal
          \/ goal' = [goal EXCEPT ![ThreadOf[a]].status = "paused"] /\ GoalUpdated(ThreadOf[a], "error")
      BY <2>4 DEF PauseGoal
    <3>3. early' \in [Threads -> Verdicts] /\ goal' \in [Threads -> GoalRecords]
      BY <1>0, <2>2, <3>2, StatusStep, GoalUpdatedShape DEF Terminal
    <3> QED BY <3>1, <3>3, StopMove
  <2>5. CASE ConfirmPause(a, who)
    <3>1. early' = early /\ goal' = goal /\ stopper' = [stopper EXCEPT ![<<a, who>>] = StopOver]
      BY <2>5 DEF ConfirmPause
    <3> QED BY <1>0, <3>1, StopEnds
  <2>6. CASE StopFails(a, who)
    <3>1. early' = early /\ goal' = goal /\ stopper' = [stopper EXCEPT ![<<a, who>>] = StopOver]
      BY <2>6 DEF StopFails
    <3> QED BY <1>0, <3>1, StopEnds
  <2> QED BY <2>1, <2>3, <2>4, <2>5, <2>6 DEF Stopper
<1>7. CASE \E h \in Threads, s \in {"complete", "limited"} : GoalTerminates(h, s)
  <2>1. PICK h \in Threads, s \in {"complete", "limited"} : GoalTerminates(h, s) BY <1>7
  <2>2. stopper' = stopper /\ goal' = [goal EXCEPT ![h].status = s] BY <2>1 DEF GoalTerminates
  <2>3. \E err \in {"ok", "error"} : GoalUpdated(h, err) BY <2>1 DEF GoalTerminates
  <2>4. goal' \in [Threads -> GoalRecords] BY <2>2, StatusStep DEF Terminal
  <2>5. early' \in [Threads -> Verdicts] BY <2>3, GoalUpdatedShape
  <2> QED BY <1>0, <2>2, <2>4, <2>5
<1> QED BY <1>1, <1>2, <1>3, <1>4, <1>5, <1>6, <1>7, GoalsSame

LEMMA TypeStep == ASSUME TypeOK, GenInv, [Next]_vars PROVE TypeOK'
BY WorldStep, MovesStep, CallStep, GoalTypes DEF TypeOK, World, Moves

\* The next attempt of a thread comes when the earlier ones have returned.
LEMMA SerStep == ASSUME TypeOK, GenInv, SerInv, [Next]_vars PROVE SerInv'
<1>1. Moves BY MovesStep
<1> SUFFICES ASSUME NEW a \in Attempts, NEW b \in Attempts, b < a, ThreadOf[b] = ThreadOf[a], at'[a].pc # "new"
             PROVE  at'[b].pc = "returned"
  BY DEF SerInv
<1>2. Comes(a) /\ Progress(at[b], at'[b]) BY <1>1 DEF Moves
<1>3. at[b].pc = "returned"
  <2>1. CASE at[a].pc # "new" BY <2>1 DEF SerInv
  <2>2. CASE client(a)
    <3>1. b \in 1 .. a - 1 BY RuntimeAssumption DEF Attempts
    <3> QED BY <2>2, <3>1 DEF client
  <2> QED BY <1>2, <2>1, <2>2 DEF Comes
<1> QED BY <1>2, <1>3 DEF Progress

LEMMA GenStep == ASSUME TypeOK, GenInv, [Next]_vars PROVE GenInv'
<1>1. World /\ Moves BY WorldStep, MovesStep
<1>2. gen.id \in Nat /\ gen'.id \in Nat /\ gen.id <= gen'.id
  BY <1>1 DEF World, TypeOK, Generations
<1>3. ASSUME NEW a \in Attempts
      PROVE  /\ at'[a].gen <= gen'.id
             /\ Running(First(a))' => at'[a].gen = gen'.id
             /\ at'[a].pc \in {"new", "client"} => turn'[First(a)].state = "none"
  <2>1. Progress(at[a], at'[a]) BY <1>1, <1>3 DEF Moves
  <2>2. at'[a].gen = at[a].gen \/ at'[a].gen = gen.id BY <2>1 DEF Progress
  <2>3. at[a].gen <= gen.id /\ at[a].gen \in Nat BY <1>3, Attempt DEF GenInv, AttemptRecords
  <2>4. at'[a].gen <= gen'.id BY <1>2, <2>2, <2>3
  <2>5. Running(First(a))' => at'[a].gen = gen'.id
    <3>1. SUFFICES ASSUME Running(First(a))' PROVE at'[a].gen = gen'.id OBVIOUS
    <3>2. gen'.id = gen.id /\ (Running(First(a)) \/ Open(at[a].gen)) BY <1>1, <1>3, <3>1, FirstTurn DEF World
    <3>3. at[a].gen = gen.id BY <1>3, <3>2 DEF GenInv, Open
    <3> QED BY <2>2, <3>2, <3>3
  <2>6. at'[a].pc \in {"new", "client"} => turn'[First(a)].state = "none"
    <3>1. at'[a].pc \in {"new", "client"} => at[a].pc \in {"new", "client"} BY <2>1 DEF Progress
    <3>2. at[a].pc \in {"new", "client"} => turn[First(a)].state = "none" BY <1>3 DEF GenInv
    <3> QED BY <1>1, <1>3, <3>1, <3>2 DEF World
  <2> QED BY <2>4, <2>5, <2>6
<1> QED BY <1>1, <1>3 DEF GenInv, World

\* Contexts are cancelled before, or together with, what makes them due.
LEMMA ToolStep == ASSUME TypeOK, GenInv, ToolInv, [Next]_vars PROVE ToolInv'
<1>1. Moves BY MovesStep
<1>2. gen.id # 0 BY DEF TypeOK, Generations
<1>3. ASSUME NEW a \in Attempts
      PROVE  /\ at'[a].reg => at'[a].pc \notin {"new", "client", "returned"}
             /\ at'[a].pc = "new" => at'[a].gen = 0
             /\ at'[a].pc = "client" \/ at'[a].reg => at'[a].gen # 0
             /\ at'[a].finished \/ at'[a].pc = "grace" => at'[a].cancelled
             /\ at'[a].pc = "returned" /\ at'[a].gen # 0 => at'[a].cancelled
             /\ at[a].gen # 0 => at'[a].gen # 0
  <2>1. Progress(at[a], at'[a]) BY <1>1, <1>3 DEF Moves
  <2>2. /\ at[a].reg => at[a].pc \notin {"new", "client", "returned"}
        /\ at[a].pc = "new" => at[a].gen = 0
        /\ at[a].pc = "client" \/ at[a].reg => at[a].gen # 0
        /\ at[a].finished \/ at[a].pc = "grace" => at[a].cancelled
        /\ at[a].pc = "returned" /\ at[a].gen # 0 => at[a].cancelled
    BY <1>3 DEF ToolInv
  <2> QED BY <1>2, <2>1, <2>2 DEF Progress
<1>4. \A c \in Calls : \A a \in call'[c].owner : at'[a].gen # 0
  <2> SUFFICES ASSUME NEW c \in Calls, NEW a \in call'[c].owner PROVE at'[a].gen # 0 OBVIOUS
  <2>1. call'[c].owner = call[c].owner \/ (a \in Attempts /\ at[a].reg) BY CallStep
  <2>2. call[c].owner \subseteq Attempts BY DEF TypeOK, CallRecords
  <2>3. a \in Attempts /\ at[a].gen # 0 BY <2>1, <2>2 DEF ToolInv
  <2> QED BY <1>3, <2>3
<1>5. \A a \in gen'.failing : at'[a].pc \notin {"new", "client"}
  <2> SUFFICES ASSUME NEW a \in gen'.failing PROVE at'[a].pc \notin {"new", "client"} OBVIOUS
  <2>1. a \in Attempts /\ (a \in gen.failing \/ at[a].reg) BY WorldStep DEF World, Generations
  <2>2. at[a].pc \notin {"new", "client"} BY <2>1 DEF ToolInv
  <2> QED BY <1>1, <2>1, <2>2 DEF Moves, Progress
<1> QED BY <1>3, <1>4, <1>5 DEF ToolInv
-----------------------------------------------------------------------------
(* Whose step it was.                                                      *)

LEMMA WhoMoves ==
    ASSUME TypeOK, GenInv, [Next]_vars, NEW a \in Attempts
    PROVE  \/ at'[a] = at[a]
           \/ client(a) \/ Caller(a) \/ CancelContext(a) \/ failAttempts(a)
           \/ \E t \in Turns : Emit(t)
           \/ /\ a \in GoalAttempts
              /\ \/ \E who \in Stoppers : BeginStop(a, who) \/ ConfirmPause(a, who)
                 \/ \E b \in GoalAttempts, who \in Stoppers : PauseGoal(b, who)
                 \/ \E h \in Threads, s \in {"complete", "limited"} : GoalTerminates(h, s)
<1>1. CASE \E b \in Attempts : client(b) \/ Caller(b) \/ CancelContext(b) \/ failAttempts(b)
  <2>1. PICK b \in Attempts : client(b) \/ Caller(b) \/ CancelContext(b) \/ failAttempts(b) BY <1>1
  <2>2. Only(b) \/ at' = at
    <3>1. CASE client(b) \/ CancelContext(b) \/ failAttempts(b) BY <3>1, clientShape, CancelContextShape, failAttemptsShape
    <3>2. CASE Caller(b)
      BY <3>2, RegisterShape, SetGoalShape, StartShape, LeavesShape, TimerShape, BoundAndOnShape, bindAttemptShape,
         ReplayShape, ReturnShape DEF Caller
    <3> QED BY <2>1, <3>1, <3>2
  <2> QED BY <2>1, <2>2 DEF Only
<1>2. CASE \E b \in GoalAttempts : \E who \in Stoppers : BeginStop(b, who) \/ ConfirmPause(b, who)
  <2>1. PICK b \in GoalAttempts, who \in Stoppers : BeginStop(b, who) \/ ConfirmPause(b, who) BY <1>2
  <2>2. Only(b) \/ at' = at BY <2>1, BeginStopShape, ConfirmPauseShape
  <2> QED BY <2>1, <2>2 DEF Only
<1>3. CASE \E b \in GoalAttempts, who \in Stoppers : PauseGoal(b, who)
  <2>1. PICK b \in GoalAttempts, who \in Stoppers : PauseGoal(b, who) BY <1>3
  <2>2. ThreadOf[b] \in Threads BY RuntimeAssumption, ThreadFacts
  <2>3. at' = at \/ GoalUpdated(ThreadOf[b], "error") BY <2>1 DEF PauseGoal
  <2>4. at'[a] = at[a] \/ IsGoal(a) BY <2>2, <2>3, GoalUpdatedShape
  <2> QED BY <1>3, <2>4 DEF IsGoal
<1>4. CASE \E h \in Threads, s \in {"complete", "limited"} : GoalTerminates(h, s)
  <2>1. PICK h \in Threads, s \in {"complete", "limited"} : GoalTerminates(h, s) BY <1>4
  <2>2. \E err \in {"ok", "error"} : GoalUpdated(h, err) BY <2>1 DEF GoalTerminates
  <2>3. at'[a] = at[a] \/ IsGoal(a) BY <2>2, GoalUpdatedShape
  <2> QED BY <1>4, <2>3 DEF IsGoal
<1>5. CASE \E t \in Turns : Emit(t) BY <1>5
<1>6. CASE AppServerExits \/ onGenerationExit \/ startGeneration \/ Close \/ \E b \in Attempts : AcceptTurn(b)
  BY <1>6 DEF AppServerExits, onGenerationExit, startGeneration, Close, AcceptTurn
<1>7. CASE \E b \in GoalAttempts : RequestGoalStop(b) \/ Continue(b) \/ \E who \in Stoppers : StopFails(b, who)
  BY <1>7 DEF RequestGoalStop, Continue, StopFails
<1>8. CASE \E c \in Calls : Handler(c) \/ \E t \in Turns : CallArrives(c, t)
  BY <1>8 DEF Handler, LookUp, AwaitBound, TakeSlot, StartHandler, HandlerReturns, CallArrives, Quiet
<1>9. CASE UNCHANGED vars BY <1>9 DEF vars
<1> QED BY <1>1, <1>2, <1>3, <1>4, <1>5, <1>6, <1>7, <1>8, <1>9 DEF Next, Emit, Recovery, Stopper

\* What the reader does to a plain attempt.
LEMMA EmitPlain ==
    ASSUME TypeOK, GenInv, NEW a \in Plain, NEW t \in Turns, Emit(t)
    PROVE  \/ at'[a] = at[a]
           \/ \E e \in Events :
                 /\ at[a].reg /\ e.turn = t
                 /\ e.kind = "item" => e.n = turn[t].sent + 1 /\ (turn'[t].sent = e.n \/ IsGoal(t[1]))
                 /\ e.kind \in {"completed", "failed"} => turn'[t].state = e.kind
                 /\ Kept(at[a], at'[a], e) \/ (at[a].turn = t /\ RoutedTo(a, at[a], at'[a], e))
<1>1. PICK kind \in Kinds, n \in Nat :
         /\ dispatch(t, kind, n)
         /\ kind = "item" => n = turn[t].sent + 1 /\ (turn'[t].sent = n \/ IsGoal(t[1]))
         /\ kind \in {"completed", "failed"} => turn'[t].state = kind
  BY EmitShape
<1> DEFINE e == [kind |-> kind, turn |-> t, n |-> n]
<1>2. \/ at' = at
      \/ \E b \in Plain :
            /\ at[b].reg /\ Only(b)
            /\ Kept(at[b], at'[b], e) \/ (at[b].turn = e.turn /\ RoutedTo(b, at[b], at'[b], e))
      \/ \E b \in GoalAttempts : Only(b)
  BY <1>1, dispatchShape DEF Kinds
<1>3. e \in Events /\ e.kind = kind /\ e.turn = t /\ e.n = n BY <1>1 DEF Events, Kinds
<1> HIDE DEF e
<1>4. a \in Attempts /\ a \notin GoalAttempts BY DEF Plain
<1>5. CASE at' = at BY <1>5
<1>6. CASE \E b \in GoalAttempts : Only(b) BY <1>4, <1>6 DEF Only
<1>7. CASE \E b \in Plain :
            /\ at[b].reg /\ Only(b)
            /\ Kept(at[b], at'[b], e) \/ (at[b].turn = e.turn /\ RoutedTo(b, at[b], at'[b], e))
  <2>1. PICK b \in Plain :
            /\ at[b].reg /\ Only(b)
            /\ Kept(at[b], at'[b], e) \/ (at[b].turn = e.turn /\ RoutedTo(b, at[b], at'[b], e))
    BY <1>7
  <2>2. CASE a # b BY <1>4, <2>1, <2>2 DEF Only
  <2>3. CASE a = b BY <1>1, <1>3, <2>1, <2>3
  <2> QED BY <2>2, <2>3
<1> QED BY <1>2, <1>5, <1>6, <1>7
-----------------------------------------------------------------------------
(* Plain attempts.                                                         *)

Same(r, q) ==
    /\ q.pc = r.pc /\ q.turn = r.turn /\ q.finished = r.finished /\ q.done = r.done /\ q.result = r.result
    /\ q.gen = r.gen /\ q.stopping = r.stopping

\* A turn that was told to stop, or is over, stays so: it starts only once.
LEMMA ToldStep ==
    ASSUME TypeOK, GenInv, [Next]_vars, NEW a \in Plain, PlainOf(a, at[a]),
           at[a].finished \/ at[a].pc \in {"grace", "leave", "returned"}
    PROVE  Told(a)'
<1>1. a \in Attempts BY DEF Plain
<1>2. Told(a) /\ ~(at[a].pc = "call" /\ Open(at[a].gen)) BY DEF PlainOf
<1>3. Running(First(a))' => Running(First(a)) BY <1>1, <1>2, WorldStep DEF World
<1>4. interrupted \subseteq interrupted' BY MovesStep
<1> QED BY <1>2, <1>3, <1>4 DEF Told

LEMMA StillCompleted ==
    ASSUME TypeOK, GenInv, [Next]_vars, NEW a \in Plain, turn[First(a)].state = "completed"
    PROVE  turn'[First(a)].state = "completed"
<1>1. First(a) \in Turns BY FirstTurn DEF Plain
<1> QED BY <1>1, WorldStep DEF World

\* Closed now for the record's generation, whoever holds it.
Shut(g) == ~(gen'.state = "ready" /\ gen'.id = g /\ gen'.open)

LEMMA StillShut ==
    ASSUME TypeOK, GenInv, [Next]_vars, NEW a \in Attempts, ~Open(at[a].gen)
    PROVE  Shut(at[a].gen)
<1>1. at[a].gen \in Nat /\ at[a].gen <= gen.id BY Attempt DEF GenInv, AttemptRecords
<1>2. \A g \in Nat : g <= gen.id /\ Open(g)' => Open(g) BY WorldStep DEF World
<1> QED BY <1>1, <1>2 DEF Shut, Open

\* The invariant in terms of the next state's values.
LEMMA PlainNow ==
    ASSUME NEW a \in Plain, NEW q, q = at'[a],
           q.pc \in PlainPlaces, q.turn \in {NoTurn, First(a)},
           q.pc \in Unbound => q.turn = NoTurn /\ ~q.stopping,
           q.pc \in {"replay", "wait"} => (q.turn = First(a) \/ q.finished) /\ (q.stopping => q.finished),
           q.finished \/ q.pc \in {"grace", "leave", "returned"} => Told(a)',
           q.finished => q.pc \notin {"new", "client"},
           q.finished /\ q.pc = "call" => Shut(q.gen),
           q.done # "none" => q.finished,
           q.done = "ok" \/ q.result = "ok" => turn'[First(a)].state = "completed"
    PROVE  PlainOf(a, at[a])'
BY DEF PlainOf, Shut, Open, First, NoTurn

LEMMA PlainFrame ==
    ASSUME TypeOK, GenInv, [Next]_vars, NEW a \in Plain, PlainOf(a, at[a]), Same(at[a], at'[a])
    PROVE  PlainOf(a, at[a])'
<1>0. a \in Attempts BY DEF Plain
<1>1. at[a].finished \/ at[a].pc \in {"grace", "leave", "returned"} => Told(a)' BY ToldStep
<1>2. ~Open(at[a].gen) => Shut(at[a].gen) BY <1>0, StillShut
<1>3. turn[First(a)].state = "completed" => turn'[First(a)].state = "completed" BY StillCompleted
<1> QED BY <1>1, <1>2, <1>3, PlainNow DEF PlainOf, Same

\* A first turn that runs after a step runs on an open client of its attempt.
LEMMA RunsOpen ==
    ASSUME TypeOK, GenInv, NEW a \in Attempts, Running(First(a)) PROVE Open(at[a].gen)
BY FirstTurn DEF GenInv, Open

LEMMA RunsOpenNext ==
    ASSUME TypeOK, GenInv, [Next]_vars, NEW a \in Attempts, Running(First(a))'
    PROVE  ~Shut(at'[a].gen)
<1>1. GenInv' BY GenStep
<1>2. First(a) \in Turns /\ First(a)' = First(a) BY FirstTurn DEF First
<1>3. gen'.state = "ready" /\ gen'.open BY <1>1, <1>2 DEF GenInv
<1>4. at'[a].gen = gen'.id BY <1>1, <1>2 DEF GenInv
<1> QED BY <1>3, <1>4 DEF Shut

\* A turn that the attempt interrupts is told.
LEMMA InterruptTells ==
    ASSUME TypeOK, GenInv, NEW a \in Attempts, Interrupt(a, First(a)),
           Running(First(a))' => Running(First(a))
    PROVE  Told(a)'
<1>1. Running(First(a)) => Open(at[a].gen) BY RunsOpen
<1>2. First(a) \in Turns \cup {NoTurn} /\ First(a) # NoTurn BY FirstTurn
<1>3. Open(at[a].gen) => First(a) \in interrupted' BY <1>2, InterruptFacts
<1> QED BY <1>1, <1>3 DEF Told

\* An item that the output refuses ends the attempt and tells its turn.
LEMMA PlainRefused ==
    ASSUME TypeOK, GenInv, [Next]_vars, NEW a \in Plain, NEW s \in AttemptRecords, Refused(a, s, at'[a]),
           PlainOf(a, at[a]), s.pc \in PlainPlaces \ Unbound, s.turn \in {NoTurn, First(a)},
           s.result = at[a].result, Running(First(a))' => Running(First(a))
    PROVE  PlainOf(a, at[a])'
<1>0. a \in Attempts BY DEF Plain
<1>1. s.turn = First(a) /\ Interrupt(a, First(a)) BY DEF Refused, Presses
<1>2. Told(a)' BY <1>0, <1>1, InterruptTells
<1>3. turn[First(a)].state = "completed" => turn'[First(a)].state = "completed" BY StillCompleted
<1>4. /\ at'[a].finished /\ at'[a].done = "error" /\ at'[a].pc = s.pc /\ at'[a].turn = s.turn
      /\ at'[a].result = s.result
  BY DEF Refused, Stopped, SameBuffers
<1>5. at'[a].result = "ok" => turn'[First(a)].state = "completed" BY <1>3, <1>4 DEF PlainOf
<1> QED BY <1>1, <1>2, <1>4, <1>5, PlainNow DEF Unbound

\* An event of the attempt's own turn.
LEMMA PlainRouted ==
    ASSUME TypeOK, GenInv, [Next]_vars, NEW a \in Plain, NEW s \in AttemptRecords, NEW e \in Events,
           RoutedTo(a, s, at'[a], e), PlainOf(a, at[a]), Same(at[a], s), s.pc \notin Unbound,
           e.kind \in {"completed", "failed"} => turn'[First(a)].state = e.kind,
           Running(First(a))' => Running(First(a))
    PROVE  PlainOf(a, at[a])'
<1>0. a \in Attempts BY DEF Plain
<1>1. s.pc \in PlainPlaces \ Unbound /\ s.turn \in {NoTurn, First(a)} /\ s.result = at[a].result BY DEF PlainOf, Same
<1>2. CASE at'[a] = s BY <1>2, PlainFrame
<1>3. CASE Added(s, at'[a], e)
  <2>1. Same(at[a], at'[a]) BY <1>3 DEF Added, Same, SameCore, SameEnd
  <2> QED BY <2>1, PlainFrame
<1>4. CASE Refused(a, s, at'[a]) BY <1>1, <1>4, PlainRefused
<1>5. ASSUME NEW v \in {"ok", "error"}, Ended(s, at'[a], v), turn'[First(a)].state \in {"completed", "failed"},
             v = "ok" => turn'[First(a)].state = "completed"
      PROVE  PlainOf(a, at[a])'
  <2>1. Told(a)' BY <1>5 DEF Told, Running
  <2>2. turn[First(a)].state = "completed" => turn'[First(a)].state = "completed" BY StillCompleted
  <2>3. CASE s.finished /\ at'[a] = s BY <1>2, <2>3
  <2>4. CASE ~s.finished
    <3>1. /\ at'[a].finished /\ at'[a].done = v /\ at'[a].pc = s.pc /\ at'[a].turn = s.turn
          /\ at'[a].result = s.result
      BY <1>5, <2>4 DEF Ended, SameBuffers
    <3>2. at'[a].result = "ok" => turn'[First(a)].state = "completed" BY <1>1, <2>2, <3>1 DEF PlainOf
    <3>3. at'[a].pc \in {"replay", "wait"} => at'[a].turn = First(a) \/ at'[a].finished BY <3>1
    <3> QED BY <1>1, <1>5, <2>1, <3>1, <3>2, <3>3, PlainNow DEF Unbound
  <2> QED BY <1>5, <2>3, <2>4 DEF Ended
<1>6. CASE e.kind = "completed" /\ Ended(s, at'[a], "ok") BY <1>5, <1>6
<1>7. CASE e.kind = "failed" /\ Ended(s, at'[a], "error") BY <1>5, <1>7
<1> QED BY <1>2, <1>3, <1>4, <1>6, <1>7 DEF RoutedTo

\* Nothing of the caller's own steps starts a turn.
LEMMA PlainCaller ==
    ASSUME TypeOK, GenInv, ToolInv, EndsInv, [Next]_vars, NEW a \in Plain, PlainOf(a, at[a]),
           client(a) \/ Caller(a) \/ CancelContext(a) \/ failAttempts(a)
    PROVE  PlainOf(a, at[a])'
<1>0. a \in Attempts /\ ~IsGoal(a) /\ First(a) \in Turns BY FirstTurn DEF Plain, IsGoal
<1>1. at[a].finished \/ at[a].pc \in {"grace", "leave", "returned"} => Told(a)' BY ToldStep
<1>2. ~Open(at[a].gen) => Shut(at[a].gen) BY <1>0, StillShut
<1>3. turn[First(a)].state = "completed" => turn'[First(a)].state = "completed" BY StillCompleted
<1>4. at[a].done = "ok" \/ at[a].result = "ok" => turn'[First(a)].state = "completed" BY <1>3 DEF PlainOf
<1>5. at[a].pc \in PlainPlaces BY DEF PlainOf
<1>6. CASE client(a)
  <2>1. turn' = turn BY <1>6 DEF client, server
  <2>2. turn[First(a)].state = "none" BY <1>0, <1>6, clientShape DEF GenInv
  <2>3. Told(a)' BY <2>1, <2>2 DEF Told, Running
  <2>4. ~at[a].finished /\ at[a].turn = NoTurn /\ ~at[a].stopping BY <1>0, <1>6, clientShape DEF PlainOf, Unbound
  <2>5. at'[a].turn = NoTurn /\ ~at'[a].finished /\ ~at'[a].stopping /\ at'[a].done = at[a].done
    BY <1>0, <1>6, <2>4, clientShape DEF SameBuffers, SameEnd
  <2>6. at'[a].pc \in {"client", "returned"} /\ (at'[a].result = at[a].result \/ at'[a].result = "error")
    BY <1>0, <1>6, clientShape
  <2> QED BY <1>4, <2>3, <2>4, <2>5, <2>6, PlainNow DEF PlainPlaces, PlainOf
<1>7. CASE Register(a)
  <2>1. ~at[a].finished /\ at[a].turn = NoTurn /\ ~at[a].stopping BY <1>0, <1>7, RegisterShape DEF PlainOf, Unbound
  <2>2. /\ at'[a].pc = "call" /\ at'[a].turn = NoTurn /\ ~at'[a].finished /\ ~at'[a].stopping
        /\ at'[a].done = at[a].done /\ at'[a].result = at[a].result
    BY <1>0, <1>7, <2>1, RegisterShape DEF SameBuffers, SameEnd
  <2> QED BY <1>4, <2>1, <2>2, PlainNow DEF PlainPlaces, PlainOf
\* The caller gives up; its turn is told to stop.
<1>8. ASSUME Went(at[a], at'[a], "leave"), Told(a)', at'[a].result # "ok" \/ at'[a].result = at[a].done
      PROVE  PlainOf(a, at[a])'
  <2>1. /\ at'[a].pc = "leave" /\ at'[a].turn = at[a].turn /\ at'[a].finished = at[a].finished
        /\ at'[a].done = at[a].done
    BY <1>8 DEF Went, SameBuffers, SameEnd
  <2> QED BY <1>4, <1>8, <2>1, PlainNow DEF PlainPlaces, PlainOf, Unbound
<1>9. CASE TurnStartFails(a)
  <2>1. at'[a].result = "error" /\ Went(at[a], at'[a], "leave") BY <1>0, <1>9, LeavesShape
  <2>2. at[a].gen \in Nat BY <1>0, Attempt DEF AttemptRecords
  <2>3. ~Open(at[a].gen) \/ ~gen'.open BY <1>9, <2>2 DEF TurnStartFails, CloseClient, TypeOK, Generations
  <2>4. Shut(at'[a].gen) BY <1>2, <2>1, <2>3 DEF Went, SameCore, Shut
  <2>5. Told(a)' BY <1>0, <2>4, RunsOpenNext DEF Told
  <2> QED BY <1>8, <2>1, <2>5
<1>10. CASE waitAttemptDone(a)
  <2>1. at[a].done # "none" /\ Went(at[a], at'[a], "leave") /\ at'[a].result = at[a].done BY <1>0, <1>10, LeavesShape
  <2>2. at[a].finished BY <2>1 DEF PlainOf
  <2> QED BY <1>1, <1>8, <2>1, <2>2
<1>11. CASE GraceExpires(a)
  <2>1. at[a].pc = "grace" /\ Went(at[a], at'[a], "leave") /\ at'[a].result = "error" BY <1>0, <1>11, LeavesShape
  <2> QED BY <1>1, <1>8, <2>1
<1>12. CASE waitAttemptTimer(a)
  <2>1. turn' = turn BY <1>12 DEF waitAttemptTimer
  <2>2. at[a].pc = "wait" BY <1>0, <1>12, TimerShape
  <2>3. at[a].turn = First(a) \/ at[a].finished BY <2>2 DEF PlainOf
  <2>4. CASE at[a].stopping /\ Went(at[a], at'[a], "leave") /\ at'[a].result = "error"
    <3>1. at[a].finished BY <2>2, <2>4 DEF PlainOf
    <3> QED BY <1>1, <1>8, <2>4, <3>1
  <2>5. CASE /\ at'[a].pc = "grace" /\ at'[a].result = at[a].result
             /\ SameBuffers(at[a], at'[a])
             /\ at'[a].finished = at[a].finished /\ at'[a].done = at[a].done
             /\ Interrupt(a, at[a].turn)
    <3>1. Told(a)'
      <4>1. CASE at[a].finished BY <1>1, <4>1
      <4>2. CASE at[a].turn = First(a)
        <5>1. Running(First(a))' => Running(First(a)) BY <2>1 DEF Running, First
        <5> QED BY <1>0, <2>5, <4>2, <5>1, InterruptTells
      <4> QED BY <2>3, <4>1, <4>2
    <3>2. at'[a].turn = at[a].turn BY <2>5 DEF SameBuffers
    <3> QED BY <1>4, <2>5, <3>1, <3>2, PlainNow DEF PlainPlaces, PlainOf, Unbound
  <2> QED BY <1>0, <1>12, <2>4, <2>5, TimerShape
<1>13. CASE BoundAndOn(a)
  <2>1. Went(at[a], at'[a], "wait") /\ at'[a].result = at[a].result /\ at[a].pc = "replay"
    BY <1>0, <1>13, BoundAndOnShape
  <2>2. /\ at'[a].pc = "wait" /\ at'[a].turn = at[a].turn /\ at'[a].finished = at[a].finished
        /\ at'[a].done = at[a].done /\ at'[a].stopping = at[a].stopping
    BY <2>1 DEF Went, SameBuffers, SameEnd
  <2> QED BY <1>1, <1>4, <2>1, <2>2, PlainNow DEF PlainPlaces, PlainOf, Unbound
<1>14. CASE bindAttempt(a)
  <2>1. turn' = turn BY <1>14 DEF bindAttempt
  <2>2. Running(First(a))' => Running(First(a)) BY <2>1 DEF Running, First
  <2>3. at[a].pc = "call" /\ at'[a].pc = "replay" BY <1>0, <1>14, bindAttemptShape
  <2>4. MayBind(a, First(a)) <=> ~at[a].finished BY <1>0 DEF MayBind
  <2>5. CASE ~MayBind(a, First(a)) /\ Went(at[a], at'[a], "replay") /\ at'[a].result = at[a].result
    <3>1. /\ at'[a].turn = at[a].turn /\ at'[a].finished = at[a].finished
          /\ at'[a].done = at[a].done /\ at'[a].stopping = at[a].stopping
      BY <2>5 DEF Went, SameBuffers, SameEnd
    <3> QED BY <1>1, <1>4, <2>3, <2>4, <2>5, <3>1, PlainNow DEF PlainPlaces, PlainOf, Unbound
  <2>6. ASSUME NEW s, BoundTo(at[a], at'[a], First(a), s), MayBind(a, First(a)) PROVE PlainOf(a, at[a])'
    <3>1. /\ at'[a].turn = First(a) /\ ~at'[a].finished /\ ~at'[a].stopping
          /\ at'[a].done = at[a].done /\ at'[a].result = at[a].result
      BY <2>3, <2>4, <2>6 DEF BoundTo, SameEnd, PlainOf, Unbound
    <3>2. at'[a].done = "none" BY <2>4, <2>6, <3>1 DEF PlainOf
    <3> QED BY <1>4, <2>3, <3>1, <3>2, PlainNow DEF PlainPlaces, Unbound
  <2>7. ASSUME NEW s \in AttemptRecords, BoundTo(at[a], s, First(a), at[a].replay), s.pc = "replay", Refused(a, s, at'[a])
        PROVE  PlainOf(a, at[a])'
    <3>1. s.turn = First(a) /\ s.result = at[a].result /\ s.pc \in PlainPlaces \ Unbound
      BY <2>7 DEF BoundTo, PlainPlaces, Unbound
    <3> QED BY <2>2, <2>7, <3>1, PlainRefused
  <2> QED BY <1>0, <1>14, <2>5, <2>6, <2>7, bindAttemptShape
<1>15. CASE Replay(a)
  <2>1. turn' = turn BY <1>15 DEF Replay
  <2>2. Running(First(a))' => Running(First(a)) BY <2>1 DEF Running, First
  <2> DEFINE e == Head(at[a].replay)
  <2>3. /\ at[a].pc = "replay" /\ at[a].replay # <<>> /\ e \in Events
        /\ \E s \in AttemptRecords : /\ Shifted(at[a], s)
                                     /\ at'[a] = s \/ (e.turn = First(a) /\ RoutedTo(a, s, at'[a], e))
    BY <1>0, <1>15, ReplayShape
  <2>4. at[a].replay \in Seq(Events) BY <1>0, Attempt DEF AttemptRecords
  <2>5. 1 \in DOMAIN at[a].replay /\ e = at[a].replay[1] BY <2>3, <2>4
  <2>6. e.kind \in {"completed", "failed"} => turn[e.turn].state = e.kind BY <2>5 DEF EndsInv, TrueEnds
  <2> HIDE DEF e
  <2>7. PICK s \in AttemptRecords : /\ Shifted(at[a], s)
                                    /\ at'[a] = s \/ (e.turn = First(a) /\ RoutedTo(a, s, at'[a], e))
    BY <2>3
  <2>8. Same(at[a], s) BY <2>7 DEF Shifted, Same, SameCore, SameEnd
  <2>9. CASE at'[a] = s BY <2>8, <2>9, PlainFrame
  <2>10. CASE e.turn = First(a) /\ RoutedTo(a, s, at'[a], e)
    <3>1. e.kind \in {"completed", "failed"} => turn'[First(a)].state = e.kind BY <2>1, <2>6, <2>10
    <3>2. s.pc \notin Unbound BY <2>3, <2>8 DEF Same, Unbound
    <3> QED BY <2>2, <2>3, <2>8, <2>10, <3>1, <3>2, PlainRouted
  <2> QED BY <2>7, <2>9, <2>10
<1>16. CASE Return(a)
  <2>1. at[a].pc = "leave" BY <1>0, <1>5, <1>16, ReturnShape DEF PlainPlaces
  <2>2. /\ at'[a].pc = "returned" /\ at'[a].turn = at[a].turn /\ at'[a].finished = at[a].finished
        /\ at'[a].done = "none" /\ at'[a].result = at[a].result
    BY <1>0, <1>16, ReturnShape
  <2> QED BY <1>1, <1>4, <2>1, <2>2, PlainNow DEF PlainPlaces, PlainOf, Unbound
<1>17. CASE CancelContext(a)
  <2>1. Same(at[a], at'[a]) BY <1>0, <1>17, CancelContextShape DEF Same, SameCore, SameBuffers
  <2> QED BY <2>1, PlainFrame
<1>18. CASE failAttempts(a)
  <2>1. a \in gen.failing /\ Ended(at[a], at'[a], "error") BY <1>0, <1>18, failAttemptsShape
  <2>2. gen.state \in {"failing", "closed"} BY <2>1 DEF GenInv
  <2>3. ~Open(at[a].gen) BY <2>2 DEF Open
  <2>4. ~Running(First(a)) BY <1>0, <2>2 DEF GenInv
  <2>5. turn' = turn BY <1>18 DEF failAttempts, server
  <2>6. Told(a)' BY <2>4, <2>5 DEF Told, Running, First
  <2>7. at[a].pc \notin {"new", "client"} BY <2>1 DEF ToolInv
  <2>8. /\ at'[a].pc = at[a].pc /\ at'[a].turn = at[a].turn /\ at'[a].result = at[a].result
        /\ at'[a].gen = at[a].gen /\ at'[a].stopping = at[a].stopping
        /\ at'[a] = at[a] \/ (at'[a].finished /\ at'[a].done = "error")
    BY <2>1 DEF Ended, SameCore, SameBuffers
  <2>9. Shut(at'[a].gen) BY <1>2, <2>3, <2>8
  <2>10. CASE at'[a] = at[a] BY <2>10, PlainFrame DEF Same
  <2>11. CASE at'[a].finished /\ at'[a].done = "error"
    <3>1. /\ at'[a].pc \in PlainPlaces /\ at'[a].turn \in {NoTurn, First(a)}
          /\ at'[a].pc \in Unbound => at'[a].turn = NoTurn /\ ~at'[a].stopping
          /\ at'[a].result = "ok" => turn'[First(a)].state = "completed"
      BY <1>4, <2>8 DEF PlainOf
    <3> QED BY <2>6, <2>7, <2>8, <2>9, <2>11, <3>1, PlainNow
  <2> QED BY <2>8, <2>10, <2>11
<1>19. ~SetGoal(a) /\ ~Start(a) /\ ~StopByCaller(a)
  BY <1>0, <1>5 DEF SetGoal, Start, StopByCaller, PlainPlaces
<1> QED BY <1>6, <1>7, <1>9, <1>10, <1>11, <1>12, <1>13, <1>14, <1>15, <1>16, <1>17, <1>18, <1>19 DEF Caller

\* No turn of a plain attempt is left running unasked, and no success is invented.
LEMMA PlainStep ==
    ASSUME TypeOK, GenInv, ToolInv, EndsInv, PlainInv, [Next]_vars
    PROVE  PlainInv'
<1> SUFFICES ASSUME NEW a \in Plain PROVE PlainOf(a, at[a])' BY DEF PlainInv, Plain, Attempts
<1>1. PlainOf(a, at[a]) /\ a \in Attempts /\ a \notin GoalAttempts BY DEF PlainInv, Plain
<1>2. CASE at'[a] = at[a] BY <1>1, <1>2, PlainFrame DEF Same
<1>3. CASE client(a) \/ Caller(a) \/ CancelContext(a) \/ failAttempts(a) BY <1>1, <1>3, PlainCaller
<1>4. CASE \E t \in Turns : Emit(t)
  <2>1. PICK t \in Turns : Emit(t) BY <1>4
  <2>2. CASE at'[a] # at[a]
    <3>1. PICK e \in Events :
             /\ at[a].reg /\ e.turn = t
             /\ e.kind \in {"completed", "failed"} => turn'[t].state = e.kind
             /\ Kept(at[a], at'[a], e) \/ (at[a].turn = t /\ RoutedTo(a, at[a], at'[a], e))
      BY <2>1, <2>2, EmitPlain
    <3>2. CASE Kept(at[a], at'[a], e)
      <4>1. Same(at[a], at'[a]) BY <3>2 DEF Kept, Same, SameCore, SameEnd
      <4> QED BY <1>1, <4>1, PlainFrame
    <3>3. CASE at[a].turn = t /\ RoutedTo(a, at[a], at'[a], e)
      <4>1. t # NoTurn BY NoTurnIsNone
      <4>2. t = First(a) /\ at[a].pc \notin Unbound BY <1>1, <3>3, <4>1 DEF PlainOf
      <4>3. Running(First(a)) BY <2>1, <4>2, EmitShape
      <4>4. at[a] \in AttemptRecords /\ Same(at[a], at[a]) BY <1>1, Attempt DEF Same
      <4> QED BY <1>1, <3>1, <3>3, <4>2, <4>3, <4>4, PlainRouted
    <3> QED BY <3>1, <3>2, <3>3
  <2> QED BY <1>2, <2>2
<1> QED BY <1>1, <1>2, <1>3, <1>4, WhoMoves
-----------------------------------------------------------------------------
(* What a plain attempt keeps, replays and shows.                          *)

\* The only ways its buffers change.
Cleared(r, q) == q.turn = r.turn /\ q.pending = <<>> /\ q.replay = <<>> /\ q.items = <<>>
Opened(a, r, q) ==
    /\ r.turn = NoTurn /\ q.turn = First(a) /\ q.pending = <<>> /\ q.items = r.items
    /\ q.replay = r.pending \/ q.replay = r.replay
Replayed(a, r, q) ==
    /\ r.replay # <<>> /\ q.turn = r.turn /\ q.pending = r.pending /\ q.replay = Tail(r.replay)
    /\ \/ q.items = r.items
       \/ /\ Head(r.replay).kind = "item" /\ Head(r.replay).turn = First(a)
          /\ q.items = Append(r.items, <<First(a), Head(r.replay).n>>)
Truthful(e) ==
    /\ e.kind = "item" => e.n = turn[e.turn].sent + 1 /\ (turn'[e.turn].sent = e.n \/ IsGoal(e.turn[1]))
    /\ e.kind \in {"completed", "failed"} => turn'[e.turn].state = e.kind
Noted(r, q) ==
    /\ r.turn = NoTurn /\ q.turn = r.turn /\ q.replay = r.replay /\ q.items = r.items
    /\ q.pending = r.pending \/ \E e \in Events : Truthful(e) /\ q.pending = Append(r.pending, e)
Shown(a, r, q) ==
    /\ r.turn = First(a) /\ q.turn = r.turn /\ q.pending = r.pending /\ q.replay = r.replay
    /\ turn'[First(a)].sent = turn[First(a)].sent + 1
    /\ q.items = Append(r.items, <<First(a), turn'[First(a)].sent>>)
BufferMove(a, r, q) ==
    SameBuffers(r, q) \/ Cleared(r, q) \/ Opened(a, r, q) \/ Replayed(a, r, q) \/ Noted(r, q) \/ Shown(a, r, q)

LEMMA BufferMoves ==
    ASSUME TypeOK, GenInv, PlainInv, [Next]_vars, NEW a \in Plain
    PROVE  BufferMove(a, at[a], at'[a])
<1>0. a \in Attempts /\ ~IsGoal(a) /\ a \notin GoalAttempts BY DEF Plain, IsGoal
<1>1. PlainOf(a, at[a]) BY DEF PlainInv
<1>2. ASSUME SameBuffers(at[a], at'[a]) PROVE BufferMove(a, at[a], at'[a]) BY <1>2 DEF BufferMove
<1>3. CASE at'[a] = at[a] BY <1>2, <1>3 DEF SameBuffers
<1>4. CASE client(a) \/ Register(a) \/ CancelContext(a)
  BY <1>0, <1>2, <1>4, clientShape, RegisterShape, CancelContextShape
<1>5. CASE SetGoal(a) \/ Start(a) BY <1>0, <1>2, <1>5, SetGoalShape, StartShape DEF Went
<1>6. CASE TurnStartFails(a) \/ waitAttemptDone(a) \/ GraceExpires(a) \/ StopByCaller(a)
  BY <1>0, <1>2, <1>6, LeavesShape DEF Went
<1>7. CASE waitAttemptTimer(a) \/ BoundAndOn(a) BY <1>0, <1>2, <1>7, TimerShape, BoundAndOnShape DEF Went
<1>8. CASE failAttempts(a) BY <1>0, <1>2, <1>8, failAttemptsShape DEF Ended
<1>9. CASE Return(a) BY <1>0, <1>9, ReturnShape DEF BufferMove, Cleared
<1>10. CASE bindAttempt(a)
  <2>1. at[a].turn = NoTurn BY <1>0, <1>1, <1>10, bindAttemptShape DEF PlainOf, Unbound
  <2>2. CASE Went(at[a], at'[a], "replay") BY <1>2, <2>2 DEF Went
  <2>3. CASE BoundTo(at[a], at'[a], First(a), at[a].pending) BY <2>1, <2>3 DEF BufferMove, Opened, BoundTo
  <2>4. CASE \E s \in AttemptRecords : BoundTo(at[a], s, First(a), at[a].replay) /\ (at'[a] = s \/ Refused(a, s, at'[a]))
    <3>1. PICK s \in AttemptRecords : BoundTo(at[a], s, First(a), at[a].replay) /\ (at'[a] = s \/ Refused(a, s, at'[a]))
      BY <2>4
    <3>2. at'[a].turn = s.turn /\ at'[a].pending = s.pending /\ at'[a].replay = s.replay /\ at'[a].items = s.items
      BY <3>1 DEF Refused, Stopped, SameBuffers
    <3> QED BY <2>1, <3>1, <3>2 DEF BufferMove, Opened, BoundTo
  <2> QED BY <1>0, <1>10, <2>2, <2>3, <2>4, bindAttemptShape
<1>11. ASSUME NEW s, NEW e, RoutedTo(a, s, at'[a], e)
       PROVE  /\ at'[a].turn = s.turn /\ at'[a].pending = s.pending /\ at'[a].replay = s.replay
              /\ at'[a].items = s.items \/ (e.kind = "item" /\ at'[a].items = Append(s.items, <<e.turn, e.n>>))
  BY <1>11 DEF RoutedTo, Added, Ended, Refused, Stopped, SameBuffers
<1>12. CASE Replay(a)
  <2> DEFINE e == Head(at[a].replay)
  <2>1. PICK s \in AttemptRecords : /\ Shifted(at[a], s)
                                    /\ at'[a] = s \/ (e.turn = First(a) /\ RoutedTo(a, s, at'[a], e))
    BY <1>0, <1>12, ReplayShape
  <2>2. at[a].replay # <<>> BY <1>0, <1>12, ReplayShape
  <2>3. s.turn = at[a].turn /\ s.pending = at[a].pending /\ s.items = at[a].items /\ s.replay = Tail(at[a].replay)
    BY <2>1 DEF Shifted
  <2> QED BY <1>11, <2>1, <2>2, <2>3 DEF BufferMove, Replayed
<1>13. CASE \E t \in Turns : Emit(t)
  <2>1. PICK t \in Turns : Emit(t) BY <1>13
  <2>2. CASE at'[a] # at[a]
    <3>1. PICK e \in Events :
             /\ e.turn = t
             /\ e.kind = "item" => e.n = turn[t].sent + 1 /\ (turn'[t].sent = e.n \/ IsGoal(t[1]))
             /\ e.kind \in {"completed", "failed"} => turn'[t].state = e.kind
             /\ Kept(at[a], at'[a], e) \/ (at[a].turn = t /\ RoutedTo(a, at[a], at'[a], e))
      BY <2>1, <2>2, EmitPlain
    <3>2. CASE Kept(at[a], at'[a], e)
      <4>1. Truthful(e) BY <3>1 DEF Truthful
      <4> QED BY <3>2, <4>1 DEF BufferMove, Noted, Kept
    <3>3. CASE at[a].turn = t /\ RoutedTo(a, at[a], at'[a], e)
      <4>1. t = First(a) BY <1>1, <3>3, NoTurnIsNone DEF PlainOf
      <4>5. ~IsGoal(t[1]) BY <1>0, <4>1 DEF First
      <4>2. /\ at'[a].turn = at[a].turn /\ at'[a].pending = at[a].pending /\ at'[a].replay = at[a].replay
            /\ at'[a].items = at[a].items \/ (e.kind = "item" /\ at'[a].items = Append(at[a].items, <<e.turn, e.n>>))
        BY <1>11, <3>3
      <4>3. CASE at'[a].items = at[a].items BY <1>2, <4>2, <4>3 DEF SameBuffers
      <4>4. CASE e.kind = "item" /\ at'[a].items = Append(at[a].items, <<e.turn, e.n>>)
        BY <3>1, <3>3, <4>1, <4>2, <4>4, <4>5 DEF BufferMove, Shown
      <4> QED BY <4>2, <4>3, <4>4
    <3> QED BY <3>1, <3>2, <3>3
  <2> QED BY <1>3, <2>2
<1> QED BY <1>0, <1>3, <1>4, <1>5, <1>6, <1>7, <1>8, <1>9, <1>10, <1>12, <1>13, WhoMoves DEF Caller

\* TrueEnds in terms of the next state's turns.
EndsNow(s) == \A k \in DOMAIN s : s[k].kind \in {"completed", "failed"} => turn'[s[k].turn].state = s[k].kind

LEMMA EndsFrame ==
    ASSUME TypeOK, GenInv, [Next]_vars, NEW s \in Seq(Events), TrueEnds(s) PROVE EndsNow(s)
<1> SUFFICES ASSUME NEW k \in DOMAIN s, s[k].kind \in {"completed", "failed"} PROVE turn'[s[k].turn].state = s[k].kind
  BY DEF EndsNow
<1>3. s[k] \in Events OBVIOUS
<1>1. s[k].turn \in Turns BY <1>3 DEF Events
<1>2. turn[s[k].turn].state = s[k].kind BY DEF TrueEnds
<1> QED BY <1>1, <1>2, WorldStep DEF World

\* An end is kept only for a turn that has it.
LEMMA EndsStep ==
    ASSUME TypeOK, GenInv, PlainInv, EndsInv, [Next]_vars
    PROVE  EndsInv'
<1> SUFFICES ASSUME NEW a \in Plain PROVE EndsNow(at'[a].pending) /\ EndsNow(at'[a].replay)
  BY DEF EndsInv, EndsNow, TrueEnds, Plain, Attempts
<1> DEFINE p == at[a].pending
           r == at[a].replay
<1>1. p \in Seq(Events) /\ r \in Seq(Events) BY Attempt DEF AttemptRecords, Plain
<1>2. EndsNow(p) /\ EndsNow(r) BY <1>1, EndsFrame DEF EndsInv
<1>3. EndsNow(<<>>) BY DEF EndsNow
<1>4. r # <<>> => EndsNow(Tail(r))
  <2> SUFFICES ASSUME r # <<>>, NEW k \in DOMAIN Tail(r), Tail(r)[k].kind \in {"completed", "failed"}
               PROVE  turn'[Tail(r)[k].turn].state = Tail(r)[k].kind
    BY DEF EndsNow
  <2>1. k + 1 \in DOMAIN r /\ Tail(r)[k] = r[k + 1] BY <1>1
  <2> QED BY <1>2, <2>1 DEF EndsNow
<1>5. \A e \in Events : Truthful(e) => EndsNow(Append(p, e))
  <2> SUFFICES ASSUME NEW e \in Events, Truthful(e), NEW k \in DOMAIN Append(p, e),
                      Append(p, e)[k].kind \in {"completed", "failed"}
               PROVE  turn'[Append(p, e)[k].turn].state = Append(p, e)[k].kind
    BY DEF EndsNow
  <2>1. (k \in DOMAIN p /\ Append(p, e)[k] = p[k]) \/ Append(p, e)[k] = e BY <1>1
  <2> QED BY <1>2, <2>1 DEF EndsNow, Truthful
<1>6. BufferMove(a, at[a], at'[a]) BY BufferMoves
<1> QED BY <1>2, <1>3, <1>4, <1>5, <1>6 DEF BufferMove, SameBuffers, Cleared, Opened, Replayed, Noted, Shown

LEMMA DistinctFacts ==
    ASSUME NEW t, NEW s \in Seq(Events), NEW m \in Nat, Distinct(t, s, m)
    PROVE  /\ \A n \in Nat : m <= n => Distinct(t, s, n)
           /\ s # <<>> => Distinct(t, Tail(s), m)
           /\ s # <<>> /\ ItemOf(t, Head(s)) =>
                 \A k \in DOMAIN Tail(s) : ItemOf(t, Tail(s)[k]) => Tail(s)[k].n # Head(s).n
           /\ \A e \in Events : (ItemOf(t, e) => e.n = m + 1) => Distinct(t, Append(s, e), m + 1)
<1>0. \A k \in DOMAIN s : s[k] \in Events /\ s[k].n \in Nat
  <2> SUFFICES ASSUME NEW k \in DOMAIN s PROVE s[k] \in Events /\ s[k].n \in Nat OBVIOUS
  <2>1. s[k] \in Events OBVIOUS
  <2> QED BY <2>1 DEF Events
<1>1. /\ \A k \in DOMAIN s : ItemOf(t, s[k]) => s[k].n <= m
      /\ \A j, k \in DOMAIN s : ItemOf(t, s[j]) /\ ItemOf(t, s[k]) /\ s[j].n = s[k].n => j = k
  BY DEF Distinct
<1>2. ASSUME NEW n \in Nat, m <= n PROVE Distinct(t, s, n)
  <2>1. \A k \in DOMAIN s : ItemOf(t, s[k]) => s[k].n <= n BY <1>0, <1>1, <1>2
  <2> QED BY <1>1, <2>1 DEF Distinct
<1>3. ASSUME s # <<>>
      PROVE  /\ Distinct(t, Tail(s), m)
             /\ ItemOf(t, Head(s)) => \A k \in DOMAIN Tail(s) : ItemOf(t, Tail(s)[k]) => Tail(s)[k].n # Head(s).n
  <2>1. \A k \in DOMAIN Tail(s) : k \in Nat /\ k + 1 \in DOMAIN s /\ k + 1 # 1 /\ Tail(s)[k] = s[k + 1] BY <1>3
  <2>2. \A j, k \in DOMAIN Tail(s) : j + 1 = k + 1 => j = k BY <2>1
  <2>3. 1 \in DOMAIN s /\ Head(s) = s[1] BY <1>3
  <2>4. \A k \in DOMAIN Tail(s) : ItemOf(t, Tail(s)[k]) => Tail(s)[k].n <= m BY <1>1, <2>1
  <2>5. \A j, k \in DOMAIN Tail(s) : ItemOf(t, Tail(s)[j]) /\ ItemOf(t, Tail(s)[k]) /\ Tail(s)[j].n = Tail(s)[k].n => j = k
    BY <1>1, <2>1, <2>2
  <2>6. ItemOf(t, Head(s)) => \A k \in DOMAIN Tail(s) : ItemOf(t, Tail(s)[k]) => Tail(s)[k].n # Head(s).n
    BY <1>1, <2>1, <2>3
  <2> QED BY <2>4, <2>5, <2>6 DEF Distinct
<1>4. ASSUME NEW e \in Events, ItemOf(t, e) => e.n = m + 1 PROVE Distinct(t, Append(s, e), m + 1)
  <2> DEFINE q == Append(s, e)
  <2>1. \A k \in DOMAIN q : (k \in DOMAIN s /\ q[k] = s[k]) \/ (k = Len(s) + 1 /\ q[k] = e) BY <1>4
  <2> HIDE DEF q
  <2>2. \A k \in DOMAIN s : ItemOf(t, s[k]) => s[k].n <= m + 1 /\ s[k].n # m + 1 BY <1>0, <1>1
  <2>3. m + 1 \in Nat /\ m + 1 <= m + 1 OBVIOUS
  <2>4. \A k \in DOMAIN q : ItemOf(t, q[k]) => q[k].n <= m + 1 BY <1>4, <2>1, <2>2, <2>3
  <2>5. \A j, k \in DOMAIN q : ItemOf(t, q[j]) /\ ItemOf(t, q[k]) /\ q[j].n = q[k].n => j = k
    BY <1>1, <1>4, <2>1, <2>2
  <2> QED BY <2>4, <2>5 DEF Distinct, q
<1> QED BY <1>2, <1>3, <1>4

\* The items shown so far, and one more that is new.
Fresh(a, items, n) == \A k \in DOMAIN items : items[k] # <<First(a), n>>
OwnDistinct(a, items, sent) ==
    /\ \A k \in DOMAIN items : items[k][1] = First(a) /\ items[k][2] <= sent
    /\ \A j, k \in DOMAIN items : items[j] = items[k] => j = k

LEMMA OwnAppend ==
    ASSUME NEW a, NEW items \in Seq(Turns \X Nat), NEW m \in Nat, NEW n \in Nat, n <= m,
           First(a) \in Turns, OwnDistinct(a, items, m), Fresh(a, items, n)
    PROVE  /\ OwnDistinct(a, Append(items, <<First(a), n>>), m)
           /\ \A i \in Nat : i # n /\ Fresh(a, items, i) => Fresh(a, Append(items, <<First(a), n>>), i)
<1> DEFINE x == <<First(a), n>>
           q == Append(items, x)
<1>1. x \in Turns \X Nat /\ x[1] = First(a) /\ x[2] = n /\ \A i \in Nat : x = <<First(a), i>> => i = n OBVIOUS
<1>2. \A k \in DOMAIN q : (k \in DOMAIN items /\ q[k] = items[k]) \/ (k = Len(items) + 1 /\ q[k] = x) BY <1>1
<1>3. \A k \in DOMAIN items : items[k] # x BY DEF Fresh
<1> HIDE DEF x, q
<1>4. \A k \in DOMAIN q : q[k][1] = First(a) /\ q[k][2] <= m BY <1>1, <1>2 DEF OwnDistinct
<1>5. \A j, k \in DOMAIN q : q[j] = q[k] => j = k BY <1>2, <1>3 DEF OwnDistinct
<1>6. \A i \in Nat : i # n /\ Fresh(a, items, i) => Fresh(a, q, i) BY <1>1, <1>2 DEF Fresh
<1> QED BY <1>4, <1>5, <1>6 DEF OwnDistinct, q, x

LEMMA OwnMono ==
    ASSUME NEW a, NEW items \in Seq(Turns \X Nat), NEW m \in Nat, NEW n \in Nat, m <= n, OwnDistinct(a, items, m)
    PROVE  OwnDistinct(a, items, n) /\ \A i \in Nat : m < i => Fresh(a, items, i)
<1>1. \A k \in DOMAIN items : items[k] \in Turns \X Nat OBVIOUS
<1>2. \A k \in DOMAIN items : items[k][2] \in Nat /\ items[k][2] <= m BY <1>1 DEF OwnDistinct
<1>3. \A k \in DOMAIN items : items[k][2] <= n BY <1>2
<1>4. OwnDistinct(a, items, n) BY <1>3 DEF OwnDistinct
<1>5. \A i \in Nat : m < i => Fresh(a, items, i)
  <2> SUFFICES ASSUME NEW i \in Nat, m < i, NEW k \in DOMAIN items PROVE items[k] # <<First(a), i>> BY DEF Fresh
  <2>1. items[k][2] # i BY <1>2
  <2> QED BY <2>1
<1> QED BY <1>4, <1>5

LEMMA ItemsParts ==
    ASSUME NEW a, NEW r, NEW m
    PROVE  ItemsOf(a, r, m) <=>
             /\ r.turn = NoTurn => r.items = <<>> /\ r.replay = <<>>
             /\ r.turn # NoTurn => r.pending = <<>>
             /\ Distinct(First(a), r.pending, m) /\ Distinct(First(a), r.replay, m)
             /\ OwnDistinct(a, r.items, m)
             /\ \A j \in DOMAIN r.replay : ItemOf(First(a), r.replay[j]) => Fresh(a, r.items, r.replay[j].n)
BY DEF ItemsOf, OwnDistinct, Fresh

\* Every item is in one place: a plain attempt shows its own items, each once.
LEMMA ItemsKept ==
    ASSUME TypeOK, GenInv, PlainInv, [Next]_vars, NEW a \in Plain, ItemsOf(a, at[a], turn[First(a)].sent)
    PROVE  ItemsOf(a, at'[a], turn'[First(a)].sent)
<1> DEFINE r == at[a]
           q == at'[a]
           t == First(a)
           m == turn[t].sent
           n == turn'[t].sent
<1>0. a \in Attempts /\ t \in Turns /\ t # NoTurn BY FirstTurn DEF Plain
<1>1. m \in Nat /\ n \in Nat /\ m <= n
  <2>1. turn[t] \in TurnRecords /\ turn'[t] \in TurnRecords /\ turn[t].sent <= turn'[t].sent
    BY <1>0, WorldStep DEF World, TypeOK
  <2> QED BY <2>1 DEF TurnRecords
<1>2. r.pending \in Seq(Events) /\ r.replay \in Seq(Events) /\ r.items \in Seq(Turns \X Nat)
  BY <1>0, Attempt DEF AttemptRecords
<1>3. BufferMove(a, r, q) BY BufferMoves
<1>4. /\ r.turn = NoTurn => r.items = <<>> /\ r.replay = <<>>
      /\ r.turn # NoTurn => r.pending = <<>>
      /\ Distinct(t, r.pending, m) /\ Distinct(t, r.replay, m)
      /\ OwnDistinct(a, r.items, m)
      /\ \A j \in DOMAIN r.replay : ItemOf(t, r.replay[j]) => Fresh(a, r.items, r.replay[j].n)
  BY ItemsParts
<1>5. Distinct(t, <<>>, n) /\ Distinct(t, <<>>, m) /\ OwnDistinct(a, <<>>, n) BY DEF Distinct, OwnDistinct
<1>6. \A j \in DOMAIN r.replay : r.replay[j] \in Events /\ r.replay[j].n \in Nat
  <2> SUFFICES ASSUME NEW j \in DOMAIN r.replay PROVE r.replay[j] \in Events /\ r.replay[j].n \in Nat OBVIOUS
  <2>1. r.replay[j] \in Events BY <1>2
  <2> QED BY <2>1 DEF Events
<1> HIDE DEF r, q, m, n, t
<1>7. /\ Distinct(t, r.pending, n) /\ Distinct(t, r.replay, n) /\ OwnDistinct(a, r.items, n)
  BY <1>1, <1>2, <1>4, DistinctFacts, OwnMono
<1>8. CASE SameBuffers(r, q) BY <1>4, <1>7, <1>8, ItemsParts DEF SameBuffers, t, n, q
<1>9. CASE Cleared(r, q) BY <1>5, <1>9, ItemsParts DEF Cleared, t, n, q
<1>10. CASE Opened(a, r, q)
  <2>1. q.turn = t /\ q.pending = <<>> /\ q.items = <<>> /\ (q.replay = r.pending \/ q.replay = <<>>)
    BY <1>4, <1>10 DEF Opened, t
  <2>2. \A i : Fresh(a, <<>>, i) BY DEF Fresh
  <2> QED BY <1>0, <1>5, <1>7, <2>1, <2>2, ItemsParts DEF t, n, q
<1>11. CASE Replayed(a, r, q)
  <2> DEFINE e == Head(r.replay)
             s == Tail(r.replay)
  <2>1. r.replay # <<>> /\ q.turn = r.turn /\ q.pending = r.pending /\ q.replay = s /\ r.turn # NoTurn
    BY <1>4, <1>11 DEF Replayed
  <2>2. Distinct(t, s, n) BY <1>1, <1>2, <1>7, <2>1, DistinctFacts
  <2>3. \A k \in DOMAIN s : k + 1 \in DOMAIN r.replay /\ s[k] = r.replay[k + 1] BY <1>2, <2>1
  <2>4. 1 \in DOMAIN r.replay /\ e = r.replay[1] BY <1>2, <2>1
  <2>5. \A k \in DOMAIN s : ItemOf(t, s[k]) => Fresh(a, r.items, s[k].n) BY <1>4, <2>3
  <2>6. CASE q.items = r.items BY <1>4, <1>7, <2>1, <2>2, <2>5, <2>6, ItemsParts DEF t, n, q
  <2>7. CASE e.kind = "item" /\ e.turn = t /\ q.items = Append(r.items, <<t, e.n>>)
    <3>1. ItemOf(t, e) /\ e.n \in Nat BY <1>6, <2>4, <2>7 DEF ItemOf
    <3>2. Fresh(a, r.items, e.n) BY <1>4, <2>4, <3>1
    <3>3. e.n <= n BY <1>7, <2>4, <3>1 DEF Distinct
    <3>4. \A k \in DOMAIN s : ItemOf(t, s[k]) => s[k].n # e.n BY <1>1, <1>2, <1>4, <2>1, <3>1, DistinctFacts
    <3>5. /\ OwnDistinct(a, q.items, n)
          /\ \A i \in Nat : i # e.n /\ Fresh(a, r.items, i) => Fresh(a, q.items, i)
      BY <1>0, <1>1, <1>2, <1>7, <2>7, <3>1, <3>2, <3>3, OwnAppend DEF t
    <3>6. \A k \in DOMAIN s : s[k].n \in Nat BY <1>6, <2>3
    <3>7. \A k \in DOMAIN s : ItemOf(t, s[k]) => Fresh(a, q.items, s[k].n) BY <2>5, <3>4, <3>5, <3>6
    <3> QED BY <1>4, <1>7, <2>1, <2>2, <3>5, <3>7, ItemsParts DEF t, n, q
  <2> QED BY <1>11, <2>6, <2>7 DEF Replayed, t
<1>12. CASE Noted(r, q)
  <2>1. q.turn = NoTurn /\ q.items = <<>> /\ q.replay = <<>> BY <1>4, <1>12 DEF Noted
  <2>2. Distinct(t, q.pending, n)
    <3>1. CASE q.pending = r.pending BY <1>7, <3>1
    <3>2. CASE \E e \in Events : Truthful(e) /\ q.pending = Append(r.pending, e)
      <4>1. PICK e \in Events : Truthful(e) /\ q.pending = Append(r.pending, e) BY <3>2
      <4>2. CASE ItemOf(t, e)
        <5>2. ~IsGoal(t[1]) BY DEF t, First, Plain, IsGoal
        <5>1. e.n = m + 1 /\ n = m + 1 BY <4>1, <4>2, <5>2 DEF Truthful, ItemOf, m, n
        <5> QED BY <1>1, <1>2, <1>4, <4>1, <5>1, DistinctFacts
      <4>3. CASE ~ItemOf(t, e)
        <5>1. \A k \in DOMAIN q.pending : (k \in DOMAIN r.pending /\ q.pending[k] = r.pending[k]) \/ q.pending[k] = e
          BY <1>2, <4>1
        <5> QED BY <1>7, <4>3, <5>1 DEF Distinct
      <4> QED BY <4>2, <4>3
    <3> QED BY <1>12, <3>1, <3>2 DEF Noted
  <2> QED BY <1>5, <2>1, <2>2, ItemsParts DEF t, n, q
<1>13. CASE Shown(a, r, q)
  <2>1. /\ r.turn = t /\ q.turn = t /\ q.pending = r.pending /\ q.replay = r.replay /\ n = m + 1
        /\ q.items = Append(r.items, <<t, n>>)
    BY <1>13 DEF Shown, t, m, n
  <2>2. m < n /\ n <= n BY <1>1, <2>1
  <2>3. Fresh(a, r.items, n) BY <1>1, <1>2, <1>4, <2>2, OwnMono
  <2>4. /\ OwnDistinct(a, q.items, n)
        /\ \A i \in Nat : i # n /\ Fresh(a, r.items, i) => Fresh(a, q.items, i)
    BY <1>0, <1>1, <1>2, <1>7, <2>1, <2>2, <2>3, OwnAppend DEF t
  <2>5. \A j \in DOMAIN r.replay : ItemOf(t, r.replay[j]) => r.replay[j].n # n
    BY <1>1, <1>4, <1>6, <2>2 DEF Distinct
  <2>6. \A j \in DOMAIN r.replay : ItemOf(t, r.replay[j]) => Fresh(a, q.items, r.replay[j].n)
    BY <1>4, <1>6, <2>4, <2>5
  <2> QED BY <1>0, <1>4, <1>7, <2>1, <2>4, <2>6, ItemsParts DEF t, n, q
<1> QED BY <1>3, <1>8, <1>9, <1>10, <1>11, <1>12, <1>13 DEF BufferMove, t, n, q

LEMMA ItemsStep ==
    ASSUME TypeOK, GenInv, PlainInv, ItemsInv, [Next]_vars
    PROVE  ItemsInv'
<1> SUFFICES ASSUME NEW a \in Plain PROVE ItemsOf(a, at'[a], turn'[First(a)].sent)
  BY DEF ItemsInv, ItemsOf, Distinct, ItemOf, First, NoTurn, Plain, Attempts
<1> QED BY ItemsKept DEF ItemsInv
-----------------------------------------------------------------------------
(* Goals.                                                                  *)

LEMMA EmitGoal ==
    ASSUME TypeOK, GenInv, NEW a \in GoalAttempts, NEW t \in Turns, Emit(t)
    PROVE  at'[a] = at[a] \/ (at[a].reg /\ GoalSteady(at[a], at'[a]))
<1>1. PICK kind \in Kinds, n \in Nat : dispatch(t, kind, n) BY EmitShape
<1>2. \/ at' = at
      \/ \E b \in Plain : Only(b)
      \/ \E b \in GoalAttempts : at[b].reg /\ Only(b) /\ GoalSteady(at[b], at'[b])
  BY <1>1, dispatchShape DEF Kinds
<1>3. a \in Attempts /\ a \notin Plain BY RuntimeAssumption DEF Plain
<1>4. CASE \E b \in Plain : Only(b) BY <1>3, <1>4 DEF Only
<1>5. CASE \E b \in GoalAttempts : at[b].reg /\ Only(b) /\ GoalSteady(at[b], at'[b])
  BY <1>3, <1>5 DEF Only
<1> QED BY <1>2, <1>4, <1>5

\* Where the steps of a goal's own actors lead its caller.
Led(a, r, q) ==
    /\ q.gen = r.gen \/ r.pc = "new"
    /\ r.pc \in {"stop", "returned"} => q.pc \in {"stop", "returned"}
    /\ q.pc = "returned" => \/ r.pc \in {"new", "leave", "close", "returned"}
                            \/ stopper[<<a, "caller">>].pc = "done"
    /\ q.pc \in {"new", "client", "set"} => r.pc \in {"new", "client", "set"} /\ ~SetGoal(a)
    /\ q.pc \in {"set", "start", "close"} => r.pc \in {"client", "set", "start", "close"}
    /\ q.pc = "close" => q.result = "error" \/ (r.pc = "close" /\ q.result = r.result)
    /\ q.pc = "returned" => \/ q.result = "ok"
                            \/ r.pc = "new" /\ q.result = "error"
                            \/ r.pc \in {"close", "returned"} /\ q.result = r.result
                            \/ stopper[<<a, "caller">>].pc = "done"

\* A step that tells the attempt nothing new of its goal.
Follows(r, q) ==
    /\ q.terminal = r.terminal /\ q.paused = r.paused /\ q.misled = r.misled
    /\ q.goalErr = r.goalErr \/ q.pc = "returned"
    /\ q.pc # "returned" => r.pc # "returned"
    /\ q.done \in {r.done, "error", "none"} \/ (r.terminal /\ r.pc # "returned" /\ q.done = r.goalErr)
    /\ q.result \in {r.result, r.done, "error"}

LEMMA WentFollows ==
    ASSUME NEW r, NEW q, NEW p, Went(r, q, p), r.pc # "returned", q.result \in {r.result, r.done, "error"}
    PROVE  Follows(r, q)
BY DEF Went, Follows, SameCore, SameEnd

LEMMA SteadyFollows ==
    ASSUME NEW r, NEW q, GoalSteady(r, q), r.pc # "returned" PROVE Follows(r, q)
BY DEF GoalSteady, Follows, SameCore

LEMMA GoalCaller ==
    ASSUME TypeOK, NEW a \in GoalAttempts, client(a) \/ Caller(a) \/ CancelContext(a) \/ failAttempts(a),
           ~Register(a)
    PROVE  Led(a, at[a], at'[a]) /\ Follows(at[a], at'[a])
<1>0. a \in Attempts /\ IsGoal(a) /\ a \notin Plain BY RuntimeAssumption DEF IsGoal, Plain
<1>1. CASE client(a)
  <2>1. ~SetGoal(a) BY <1>0, <1>1, clientShape DEF SetGoal
  <2> QED BY <1>0, <1>1, <2>1, clientShape DEF Led, Follows, SameEnd
<1>2. ASSUME NEW p \in Places \ {"new", "client", "set", "returned"}, Went(at[a], at'[a], p),
             at[a].pc \notin {"stop", "returned"} \/ p = "stop", at[a].pc # "returned",
             at'[a].result \in {at[a].result, at[a].done, "error"},
             p \in {"start", "close"} => at[a].pc = "set" /\ (p = "close" => at'[a].result = "error")
      PROVE  Led(a, at[a], at'[a]) /\ Follows(at[a], at'[a])
  <2>1. Led(a, at[a], at'[a]) BY <1>2 DEF Led, Went, SameCore
  <2> QED BY <1>2, <2>1, WentFollows
<1>3. CASE SetGoal(a)
  <2>1. CASE Went(at[a], at'[a], "start") /\ at'[a].result = at[a].result /\ at[a].pc = "set" BY <1>2, <2>1 DEF Places
  <2>2. CASE Went(at[a], at'[a], "close") /\ at'[a].result = "error" /\ at[a].pc = "set" BY <1>2, <2>2 DEF Places
  <2> QED BY <1>0, <1>3, <2>1, <2>2, SetGoalShape
<1>4. CASE Start(a)
  <2>1. at[a].pc = "start" BY <1>0, <1>4, StartShape
  <2>2. CASE Went(at[a], at'[a], "leave") /\ at'[a].result = at[a].done BY <1>2, <2>1, <2>2 DEF Places
  <2>3. CASE Went(at[a], at'[a], "stop") /\ at'[a].result = "error" BY <1>2, <2>1, <2>3 DEF Places
  <2>4. CASE Went(at[a], at'[a], "call") /\ at'[a].result = at[a].result BY <1>2, <2>1, <2>4 DEF Places
  <2> QED BY <1>0, <1>4, <2>2, <2>3, <2>4, StartShape
<1>5. CASE TurnStartFails(a) \/ waitAttemptDone(a) \/ GraceExpires(a)
  <2>1. /\ at[a].pc \in {"call", "wait", "grace"} /\ Went(at[a], at'[a], "leave")
        /\ at'[a].result \in {at[a].done, "error"}
    BY <1>0, <1>5, LeavesShape
  <2> QED BY <1>2, <2>1 DEF Places
<1>6. CASE StopByCaller(a)
  <2>1. at[a].pc \in {"leave", "stop"} /\ Went(at[a], at'[a], "stop") /\ at'[a].result = at[a].result
    BY <1>0, <1>6, LeavesShape
  <2> QED BY <1>2, <2>1 DEF Places
<1>7. CASE waitAttemptTimer(a)
  <2>1. CASE Went(at[a], at'[a], "leave") /\ at'[a].result = "error" /\ at[a].pc = "wait" BY <1>2, <2>1 DEF Places
  <2>2. CASE /\ at[a].pc = "wait" /\ at'[a].pc = "grace" /\ at'[a].result = at[a].result
             /\ SameCore(at[a], at'[a]) /\ at'[a].done = at[a].done
    BY <2>2 DEF Led, Follows, SameCore
  <2> QED BY <1>0, <1>7, <2>1, <2>2, TimerShape
<1>8. CASE BoundAndOn(a)
  <2>1. CASE Went(at[a], at'[a], "wait") /\ at'[a].result = at[a].result /\ at[a].pc = "replay" BY <1>2, <2>1 DEF Places
  <2>2. CASE Went(at[a], at'[a], "leave") /\ at'[a].result = at[a].done /\ at[a].pc = "replay" BY <1>2, <2>2 DEF Places
  <2> QED BY <1>0, <1>8, <2>1, <2>2, BoundAndOnShape
<1>9. CASE bindAttempt(a)
  <2>1. at[a].pc = "call" /\ at'[a].pc = "replay" BY <1>0, <1>9, bindAttemptShape
  <2>2. /\ SameCore(at[a], at'[a]) /\ at'[a].result = at[a].result
        /\ at'[a].done = at[a].done \/ at'[a].done = "error"
    BY <1>0, <1>9, bindAttemptShape DEF Went, BoundTo, Refused, Stopped, SameCore, SameEnd
  <2> QED BY <2>1, <2>2 DEF Led, Follows, SameCore
<1>10. CASE Replay(a)
  <2>1. PICK s \in AttemptRecords : Shifted(at[a], s) /\ (at'[a] = s \/ GoalRoutedTo(a, s, at'[a]))
    BY <1>0, <1>10, ReplayShape
  <2>2. at[a].pc = "replay" BY <1>0, <1>10, ReplayShape
  <2>3. at[a] \in AttemptRecords BY <1>0, Attempt
  <2>4. GoalSteady(at[a], at'[a]) BY <1>0, <2>1, <2>3, RoutedSteady DEF Shifted
  <2>5. Led(a, at[a], at'[a]) BY <2>2, <2>4 DEF Led, GoalSteady, SameCore
  <2> QED BY <2>2, <2>4, <2>5, SteadyFollows
<1>11. CASE Return(a) BY <1>0, <1>11, ReturnShape DEF Led, Follows
<1>12. CASE CancelContext(a)
  <2>1. ~SetGoal(a) \/ at[a].pc = "set" BY DEF SetGoal
  <2>2. at[a].pc = "set" => ~SetGoal(a)
    <3>1. SUFFICES ASSUME SetGoal(a) PROVE FALSE OBVIOUS
    <3>2. at'[a].pc # "set" BY <1>0, <3>1, SetGoalShape DEF Went
    <3> QED BY <1>0, <1>12, <3>1, <3>2, CancelContextShape, SetGoalShape
  <2> QED BY <1>0, <1>12, <2>1, <2>2, CancelContextShape DEF Led, Follows, SameCore
<1>13. CASE failAttempts(a)
  <2>1. Ended(at[a], at'[a], "error") BY <1>0, <1>13, failAttemptsShape
  <2>2. ~SetGoal(a)
    <3>1. SUFFICES ASSUME SetGoal(a) PROVE FALSE OBVIOUS
    <3>2. at'[a].pc # "set" BY <1>0, <3>1, SetGoalShape DEF Went
    <3> QED BY <1>0, <2>1, <3>1, <3>2, SetGoalShape DEF Ended
  <2>3. at'[a].done \in {at[a].done, "error"} BY <2>1 DEF Ended
  <2> QED BY <2>1, <2>2, <2>3 DEF Led, Follows, Ended, SameCore
<1> QED BY <1>1, <1>3, <1>4, <1>5, <1>6, <1>7, <1>8, <1>9, <1>10, <1>11, <1>12, <1>13 DEF Caller

\* A step that leaves the attempt where it is did not set its goal.
LEMMA NotSet ==
    ASSUME TypeOK, NEW a \in Attempts, at'[a].pc = at[a].pc PROVE ~SetGoal(a)
<1> SUFFICES ASSUME SetGoal(a) PROVE FALSE OBVIOUS
<1> QED BY SetGoalShape DEF Went

StatusNow(a) == goal'[ThreadOf[a]].status
OwnNow(a) == goal'[ThreadOf[a]].by = {a}

\* A goal that has ended stays so, and it stays the attempt's until the attempt has returned.
GoalKept(a) ==
    /\ OwnNow(a) => Own(a) \/ SetGoal(a)
    /\ Own(a) /\ at[a].pc # "returned" => OwnNow(a)
    /\ Own(a) /\ OwnNow(a) /\ StatusOf(a) \in Terminal => StatusNow(a) = StatusOf(a)

\* An active goal of thread h comes to its end.
GoalEnded(h, s, err) ==
    /\ goal[h].status = "active" /\ goal' = [goal EXCEPT ![h].status = s]
    /\ GoalUpdated(h, err) /\ (err = "ok" => s = "complete")

LEMMA GoalEndedKept ==
    ASSUME TypeOK, NEW a \in GoalAttempts, NEW h \in Threads, NEW s \in Terminal,
           NEW err \in {"ok", "error"}, GoalEnded(h, s, err)
    PROVE  GoalKept(a) /\ (ThreadOf[a] = h => StatusNow(a) = s /\ (OwnNow(a) <=> Own(a)))
<1>0. ThreadOf[a] \in Threads BY RuntimeAssumption, ThreadFacts
<1>1. /\ goal'[h].status = s /\ goal'[h].by = goal[h].by
      /\ \A k \in Threads : k # h => goal'[k] = goal[k]
  BY StatusStep DEF GoalEnded
<1>4. CASE ThreadOf[a] = h
  BY <1>1, <1>4 DEF GoalKept, StatusNow, StatusOf, Own, OwnNow, GoalEnded, Terminal
<1>5. CASE ThreadOf[a] # h
  BY <1>0, <1>1, <1>5 DEF GoalKept, StatusNow, StatusOf, Own, OwnNow
<1> QED BY <1>4, <1>5

LEMMA Ending ==
    ASSUME TypeOK, \/ \E b \in GoalAttempts, who \in Stoppers : PauseGoal(b, who) /\ ~UNCHANGED goal
                   \/ \E h \in Threads, s \in {"complete", "limited"} : GoalTerminates(h, s)
    PROVE  \E h \in Threads, s \in Terminal, err \in {"ok", "error"} : GoalEnded(h, s, err)
<1>1. CASE \E b \in GoalAttempts, who \in Stoppers : PauseGoal(b, who) /\ ~UNCHANGED goal
  <2>1. PICK b \in GoalAttempts, who \in Stoppers : PauseGoal(b, who) /\ ~UNCHANGED goal BY <1>1
  <2>2. ThreadOf[b] \in Threads BY RuntimeAssumption, ThreadFacts
  <2>3. GoalEnded(ThreadOf[b], "paused", "error") BY <2>1 DEF PauseGoal, GoalEnded
  <2> QED BY <2>2, <2>3 DEF Terminal
<1>2. CASE \E h \in Threads, s \in {"complete", "limited"} : GoalTerminates(h, s)
  <2>1. PICK h \in Threads, s \in {"complete", "limited"} : GoalTerminates(h, s) BY <1>2
  <2> DEFINE err == IF s = "complete" THEN "ok" ELSE "error"
  <2>2. GoalEnded(h, s, err) BY <2>1 DEF GoalTerminates, GoalEnded
  <2>3. err \in {"ok", "error"} /\ s \in Terminal BY DEF Terminal
  <2> HIDE DEF err
  <2> QED BY <2>2, <2>3
<1> QED BY <1>1, <1>2

LEMMA GoalWorld ==
    ASSUME TypeOK, SerInv, GoalInv, [Next]_vars, NEW a \in GoalAttempts
    PROVE  GoalKept(a)
<1> DEFINE h == ThreadOf[a]
<1>0. a \in Attempts /\ h \in Threads BY RuntimeAssumption, ThreadFacts
<1>1. GoalOf(a, at[a]) BY DEF GoalInv
<1>2. ASSUME goal'[h] = goal[h] PROVE GoalKept(a)
  BY <1>2 DEF GoalKept, StatusNow, StatusOf, Own, OwnNow
<1>3. CASE UNCHANGED <<stopper, early, goal>> BY <1>2, <1>3
<1>4. CASE \E b \in Attempts : Register(b) BY <1>2, <1>4 DEF Register, server
<1>5. CASE \E b \in Attempts : SetGoal(b)
  <2>1. PICK b \in Attempts : SetGoal(b) BY <1>5
  <2> DEFINE q == [by |-> {b}, status |-> "active"]
  <2>2. (goal' = goal \/ goal' = [goal EXCEPT ![ThreadOf[b]] = q]) /\ at[b].pc = "set" BY <2>1 DEF SetGoal
  <2>4. q \in GoalRecords /\ q.by = {b} /\ q.status = "active" BY DEF GoalRecords
  <2> HIDE DEF q
  <2>5. CASE goal' = goal BY <1>2, <2>5
  <2>6. CASE goal' = [goal EXCEPT ![ThreadOf[b]] = q]
    <3>1. goal'[ThreadOf[b]] = q /\ \A k \in Threads : k # ThreadOf[b] => goal'[k] = goal[k]
      BY <2>4, <2>6, ThreadFacts, GoalUpdate
    <3>2. CASE b = a
      <4>1. ~Own(a) BY <1>1, <2>2, <3>2 DEF GoalOf
      <4> QED BY <2>1, <3>2, <4>1 DEF GoalKept
    <3>3. CASE b # a /\ ThreadOf[b] = h
      <4>1. ~OwnNow(a) BY <2>4, <3>1, <3>3 DEF OwnNow
      <4>2. at[a].pc = "returned" \/ at[a].pc = "new"
        <5>1. a < b \/ b < a BY <1>0, <3>3, RuntimeAssumption DEF Attempts
        <5> QED BY <1>0, <2>2, <3>3, <5>1 DEF SerInv
      <4>3. at[a].pc = "returned" \/ ~Own(a) BY <1>1, <4>2 DEF GoalOf
      <4> QED BY <4>1, <4>3 DEF GoalKept
    <3>4. CASE ThreadOf[b] # h BY <1>0, <1>2, <3>1, <3>4
    <3> QED BY <3>2, <3>3, <3>4
  <2> QED BY <2>2, <2>5, <2>6
<1>6. CASE \E b \in Attempts : StopByCaller(b) BY <1>2, <1>6 DEF StopByCaller, server
<1>7. CASE \E b \in GoalAttempts : RequestGoalStop(b) BY <1>2, <1>7 DEF RequestGoalStop, server
<1>8. CASE \E b \in GoalAttempts, who \in Stoppers : BeginStop(b, who) \/ ConfirmPause(b, who) \/ StopFails(b, who)
  BY <1>2, <1>8 DEF BeginStop, ConfirmPause, StopFails, server
<1>9. CASE \/ \E b \in GoalAttempts, who \in Stoppers : PauseGoal(b, who) /\ ~UNCHANGED goal
           \/ \E k \in Threads, s \in {"complete", "limited"} : GoalTerminates(k, s)
  BY <1>9, Ending, GoalEndedKept
<1>10. CASE \E b \in GoalAttempts, who \in Stoppers : PauseGoal(b, who) /\ UNCHANGED goal BY <1>2, <1>10
<1> QED BY <1>3, <1>4, <1>5, <1>6, <1>7, <1>8, <1>9, <1>10, GoalsSame DEF Stopper

OwnInNow(a, q, S) == (q.pc # "returned" => OwnNow(a)) /\ (OwnNow(a) => StatusNow(a) \in S)

LEMMA GoalNow ==
    ASSUME NEW a \in GoalAttempts, NEW q, q = at'[a],
           q.pc \in {"new", "client", "set"} => ~OwnNow(a),
           q.terminal => q.misled \/ OwnInNow(a, q, Terminal),
           q.terminal /\ q.goalErr = "ok" /\ q.pc # "returned" => q.misled \/ OwnInNow(a, q, {"complete"}),
           q.paused => q.terminal,
           q.done = "ok" \/ q.result = "ok" => q.misled \/ OwnInNow(a, q, {"complete"})
    PROVE  GoalOf(a, at[a])'
BY DEF GoalOf, OwnIn, OwnInNow, Own, OwnNow, StatusNow, StatusOf, Terminal

\* What holds of an attempt's goal goes on to hold.
LEMMA OwnInKept ==
    ASSUME NEW a \in GoalAttempts, GoalOf(a, at[a]), GoalKept(a), NEW S \in SUBSET Terminal,
           OwnIn(a, at[a], S), at'[a].pc # "returned" => at[a].pc # "returned"
    PROVE  OwnInNow(a, at'[a], S)
<1>1. at'[a].pc # "returned" => OwnNow(a) BY DEF OwnIn, GoalKept
<1>2. SetGoal(a) => FALSE BY DEF SetGoal, GoalOf, OwnIn
<1>3. OwnNow(a) => StatusNow(a) \in S BY <1>2 DEF OwnIn, GoalKept
<1> QED BY <1>1, <1>3 DEF OwnInNow

LEMMA GoalFollows ==
    ASSUME NEW a \in GoalAttempts, GoalOf(a, at[a]), GoalKept(a), Led(a, at[a], at'[a]), Follows(at[a], at'[a])
    PROVE  GoalOf(a, at[a])'
<1> DEFINE r == at[a]
           q == at'[a]
<1>0. Terminal \in SUBSET Terminal /\ {"complete"} \in SUBSET Terminal BY DEF Terminal
<1>1. q.pc \in {"new", "client", "set"} => ~OwnNow(a) BY DEF GoalOf, GoalKept, Led
<1>2. /\ OwnIn(a, r, Terminal) => OwnInNow(a, q, Terminal)
      /\ OwnIn(a, r, {"complete"}) => OwnInNow(a, q, {"complete"})
  BY <1>0, OwnInKept DEF Follows
<1>3. q.terminal => q.misled \/ OwnInNow(a, q, Terminal) BY <1>2 DEF GoalOf, Follows
<1>5. q.terminal /\ q.goalErr = "ok" /\ q.pc # "returned" => q.misled \/ OwnInNow(a, q, {"complete"})
  BY <1>2 DEF GoalOf, Follows
<1>6. q.done = "ok" \/ q.result = "ok" => q.misled \/ OwnInNow(a, q, {"complete"}) BY <1>2 DEF GoalOf, Follows
<1>7. q.paused => q.terminal BY DEF GoalOf, Follows
<1> QED BY <1>1, <1>3, <1>5, <1>6, <1>7, GoalNow

\* What a step means for a goal: nothing new of its status, its terminal status from a stop
\* that asks for it or from the reader, or what earlyGoalUpdates kept of another goal.
LEMMA GoalMoves ==
    ASSUME TypeOK, GenInv, ToolInv, [Next]_vars, NEW a \in GoalAttempts, GoalOf(a, at[a])
    PROVE  /\ Led(a, at[a], at'[a])
           /\ \/ Follows(at[a], at'[a])
              \/ at'[a].misled /\ at'[a].terminal
              \/ \E who \in Stoppers : ConfirmPause(a, who)
              \/ \E s \in Terminal, err \in {"ok", "error"} :
                    /\ GoalEnded(ThreadOf[a], s, err) /\ at[a].pc # "returned"
                    /\ Terminated(at[a], at'[a], err) /\ Informed(a, at[a], at'[a])
<1>0. a \in Attempts /\ IsGoal(a) BY RuntimeAssumption DEF IsGoal
<1>1. ASSUME at'[a].pc = at[a].pc, at'[a].gen = at[a].gen, at'[a].result = at[a].result PROVE Led(a, at[a], at'[a])
  <2>1. ~SetGoal(a) BY <1>0, <1>1, NotSet
  <2>2. at[a].pc = "set" => at'[a].pc \notin {"start", "close"} BY <1>1
  <2> QED BY <1>1, <2>1 DEF Led
<1>2. CASE at'[a] = at[a] BY <1>1, <1>2 DEF Follows
<1>3. CASE (client(a) \/ Caller(a) \/ CancelContext(a) \/ failAttempts(a)) /\ ~Register(a) BY <1>3, GoalCaller
<1>4. CASE Register(a)
  <2>1. at[a].pc = "client" /\ ~SetGoal(a) BY <1>0, <1>4 DEF Register, SetGoal
  <2>2. ~Own(a) BY <2>1 DEF GoalOf
  <2>3. at'[a].pc = "set" /\ at'[a].gen = at[a].gen /\ at'[a].result = at[a].result BY <1>0, <1>4, RegisterShape
  <2>4. Led(a, at[a], at'[a]) BY <2>1, <2>3 DEF Led
  <2>5. CASE /\ at'[a].terminal = at[a].terminal /\ at'[a].goalErr = at[a].goalErr
             /\ at'[a].misled = at[a].misled /\ SameEnd(at[a], at'[a])
    <3>1. at'[a].paused = at[a].paused BY <1>0, <1>4, RegisterShape
    <3> QED BY <2>1, <2>3, <2>4, <2>5, <3>1 DEF Follows, SameEnd
  <2>6. CASE at'[a].terminal /\ Informed(a, at[a], at'[a]) BY <2>2, <2>4, <2>6 DEF Informed
  <2> QED BY <1>0, <1>4, <2>5, <2>6, RegisterShape
<1>5. CASE \E t \in Turns : Emit(t)
  <2>1. CASE at[a].reg /\ GoalSteady(at[a], at'[a])
    <3>1. at[a].pc # "returned" BY <1>0, <2>1 DEF ToolInv
    <3>2. at'[a].pc = at[a].pc /\ at'[a].gen = at[a].gen /\ at'[a].result = at[a].result
      BY <2>1 DEF GoalSteady, SameCore
    <3> QED BY <1>1, <2>1, <3>1, <3>2, SteadyFollows
  <2> QED BY <1>2, <1>5, <2>1, EmitGoal
<1>6. CASE \E who \in Stoppers : BeginStop(a, who)
  <2>1. PICK who \in Stoppers : BeginStop(a, who) BY <1>6
  <2>2. CASE /\ at'[a].pc = at[a].pc /\ at'[a].result = at[a].result
             /\ SameCore(at[a], at'[a]) /\ at'[a].done = at[a].done
    BY <1>1, <2>2 DEF SameCore, Follows
  <2> QED BY <1>2, <2>1, <2>2, BeginStopShape
<1>7. CASE \E who \in Stoppers : ConfirmPause(a, who)
  <2>1. at'[a].pc = at[a].pc /\ at'[a].gen = at[a].gen /\ at'[a].result = at[a].result BY <1>7, ConfirmPauseShape
  <2> QED BY <1>1, <1>7, <2>1
<1>8. CASE \E h \in Threads, s \in Terminal, err \in {"ok", "error"} : GoalEnded(h, s, err)
  <2>1. PICK h \in Threads, s \in Terminal, err \in {"ok", "error"} : GoalEnded(h, s, err) BY <1>8
  <2>2. GoalUpdated(h, err) BY <2>1 DEF GoalEnded
  <2>3. \/ at'[a] = at[a]
        \/ ThreadOf[a] = h /\ at[a].reg /\ Terminated(at[a], at'[a], err) /\ Informed(a, at[a], at'[a])
    BY <1>0, <2>2, GoalUpdatedShape
  <2>4. CASE ThreadOf[a] = h /\ at[a].reg /\ Terminated(at[a], at'[a], err) /\ Informed(a, at[a], at'[a])
    <3>1. at'[a].pc = at[a].pc /\ at'[a].gen = at[a].gen /\ at'[a].result = at[a].result BY <2>4 DEF Terminated
    <3>2. at[a].pc # "returned" BY <1>0, <2>4 DEF ToolInv
    <3> QED BY <1>1, <2>1, <2>4, <3>1, <3>2
  <2> QED BY <1>2, <2>3, <2>4
<1>9. CASE \E b \in GoalAttempts, who \in Stoppers : PauseGoal(b, who)
  <2>1. CASE \E b \in GoalAttempts, who \in Stoppers : PauseGoal(b, who) /\ ~UNCHANGED goal BY <1>8, <2>1, Ending
  <2>2. CASE \E b \in GoalAttempts, who \in Stoppers : PauseGoal(b, who) /\ UNCHANGED goal
    <3>1. PICK b \in GoalAttempts, who \in Stoppers : PauseGoal(b, who) /\ UNCHANGED goal BY <2>2
    <3>2. goal[ThreadOf[b]].status # "active"
      <4>1. SUFFICES ASSUME goal[ThreadOf[b]].status = "active" PROVE FALSE OBVIOUS
      <4>2. ThreadOf[b] \in Threads BY RuntimeAssumption, ThreadFacts
      <4>3. goal' = [goal EXCEPT ![ThreadOf[b]].status = "paused"] BY <3>1, <4>1 DEF PauseGoal
      <4>4. goal'[ThreadOf[b]].status = "paused" BY <4>2, <4>3, StatusStep DEF Terminal
      <4> QED BY <3>1, <4>1, <4>4
    <3>3. at' = at BY <3>1, <3>2 DEF PauseGoal
    <3> QED BY <1>2, <3>3
  <2> QED BY <1>9, <2>1, <2>2
<1>10. CASE \E h \in Threads, s \in {"complete", "limited"} : GoalTerminates(h, s) BY <1>8, <1>10, Ending
<1> QED BY <1>0, <1>2, <1>3, <1>4, <1>5, <1>6, <1>7, <1>9, <1>10, WhoMoves DEF Caller

LEMMA GoalOfStep ==
    ASSUME TypeOK, GenInv, ToolInv, SerInv, GoalInv, [Next]_vars, NEW a \in GoalAttempts
    PROVE  GoalOf(a, at[a])'
<1> DEFINE r == at[a]
           q == at'[a]
<1>0. GoalOf(a, r) /\ GoalKept(a) BY GoalWorld DEF GoalInv
<1>1. Led(a, r, q) BY <1>0, GoalMoves
<1>5. q.pc \in {"new", "client", "set"} => ~OwnNow(a) BY <1>0, <1>1 DEF GoalOf, GoalKept, Led
<1>2. CASE Follows(r, q) BY <1>0, <1>1, <1>2, GoalFollows
<1>6. CASE q.misled /\ q.terminal BY <1>5, <1>6, GoalNow
<1>3. CASE \E who \in Stoppers : ConfirmPause(a, who)
  <2>1. /\ q.pc = r.pc /\ q.result = r.result /\ StatusOf(a) \in Terminal /\ q.terminal /\ Informed(a, r, q)
        /\ q.goalErr = "ok" => StatusOf(a) = "complete"
        /\ q.done = "ok" => r.done = "ok" \/ StatusOf(a) = "complete"
    BY <1>3, ConfirmPauseShape
  <2>2. goal' = goal BY <1>3 DEF ConfirmPause
  <2>3. StatusNow(a) = StatusOf(a) /\ (OwnNow(a) <=> Own(a)) BY <2>2 DEF StatusNow, StatusOf, OwnNow, Own
  <2>4. CASE ~q.misled
    <3>1. ~r.misled /\ Own(a) BY <2>1, <2>4 DEF Informed
    <3>2. q.done = "ok" \/ q.result = "ok" => StatusOf(a) = "complete" BY <1>0, <2>1, <3>1 DEF GoalOf, OwnIn
    <3> QED BY <1>5, <2>1, <2>3, <3>1, <3>2, GoalNow DEF OwnInNow
  <2> QED BY <1>6, <2>1, <2>4
<1>4. CASE \E s \in Terminal, err \in {"ok", "error"} :
              /\ GoalEnded(ThreadOf[a], s, err) /\ r.pc # "returned"
              /\ Terminated(r, q, err) /\ Informed(a, r, q)
  <2>1. PICK s \in Terminal, err \in {"ok", "error"} :
              /\ GoalEnded(ThreadOf[a], s, err) /\ r.pc # "returned"
              /\ Terminated(r, q, err) /\ Informed(a, r, q) BY <1>4
  <2>2. ThreadOf[a] \in Threads BY RuntimeAssumption, ThreadFacts
  <2>3. StatusNow(a) = s /\ (OwnNow(a) <=> Own(a)) BY <2>1, <2>2, GoalEndedKept
  <2>4. StatusOf(a) = "active" /\ (err = "ok" => s = "complete") BY <2>1 DEF GoalEnded, StatusOf
  <2>5. /\ q.pc = r.pc /\ q.result = r.result /\ q.terminal /\ q.goalErr = err
        /\ q.done = r.done \/ q.done = err
    BY <2>1 DEF Terminated
  <2>6. CASE ~q.misled
    <3>1. ~r.misled /\ Own(a) BY <2>1, <2>6 DEF Informed
    <3>2. r.done # "ok" /\ r.result # "ok" BY <1>0, <2>4, <3>1 DEF GoalOf, OwnIn
    <3> QED BY <1>5, <2>3, <2>4, <2>5, <3>1, <3>2, GoalNow DEF OwnInNow
  <2> QED BY <1>6, <2>5, <2>6
<1> QED BY <1>0, <1>2, <1>3, <1>4, <1>6, GoalMoves

\* How the stop that the caller runs goes on: it is over once the goal has ended or
\* the client is closed.
StopAt(a) == stopper[<<a, "caller">>].pc
StopMoved(a, p, q) ==
    \/ q = p
    \/ p = "none" /\ q = "begin" /\ at'[a].pc = "stop"
    \/ /\ p \in {"begin", "pause", "confirm"} /\ at'[a].pc = at[a].pc
       /\ \/ q \in {"pause", "confirm"}
          \/ q = "done" /\ (at'[a].misled \/ (Own(a) => StatusOf(a) \in Terminal) \/ Shut(at[a].gen))

LEMMA ShutByClose == ASSUME TypeOK, NEW g, CloseClient(g) PROVE Shut(g)
BY DEF TypeOK, Generations, CloseClient, Shut, Open

LEMMA StopperMoves ==
    ASSUME TypeOK, NEW a \in GoalAttempts, GoalOf(a, at[a]), Stopper(a, "caller")
    PROVE  StopMoved(a, StopAt(a), stopper'[<<a, "caller">>].pc)
<1>0. "caller" \in Stoppers /\ a \in Attempts /\ ThreadOf[a] \in Threads
  BY RuntimeAssumption, ThreadFacts DEF Stoppers
<1>1. CASE BeginStop(a, "caller")
  <2>1. StopAt(a) = "begin" BY <1>0, <1>1, BeginStopShape DEF StopAt
  <2>2. CASE /\ at' = at /\ (at[a].paused \/ at[a].terminal)
             /\ stopper' = [stopper EXCEPT ![<<a, "caller">>].pc = "done"]
    <3>1. stopper'[<<a, "caller">>].pc = "done" BY <1>0, <2>2, StopMove
    <3>2. at[a].misled \/ (Own(a) => StatusOf(a) \in Terminal) BY <2>2 DEF GoalOf, OwnIn
    <3> QED BY <2>1, <2>2, <3>1, <3>2 DEF StopMoved
  <2>3. CASE /\ at'[a].pc = at[a].pc
             /\ stopper' = [stopper EXCEPT ![<<a, "caller">>] = [pc |-> "pause", turn |-> at[a].turn]]
    <3>1. [pc |-> "pause", turn |-> at[a].turn] \in StopRecords BY <1>0, Attempt DEF AttemptRecords, StopRecords
    <3>2. stopper'[<<a, "caller">>] = [pc |-> "pause", turn |-> at[a].turn] BY <1>0, <2>3, <3>1, StopUpdate
    <3> QED BY <2>1, <2>3, <3>2 DEF StopMoved
  <2> QED BY <1>0, <1>1, <2>2, <2>3, BeginStopShape
<1>2. CASE PauseGoal(a, "caller")
  <2>1. StopAt(a) = "pause" /\ stopper' = [stopper EXCEPT ![<<a, "caller">>].pc = "confirm"]
    BY <1>2 DEF PauseGoal, StopAt
  <2>2. stopper'[<<a, "caller">>].pc = "confirm" BY <1>0, <2>1, StopMove
  <2>3. at' = at \/ GoalUpdated(ThreadOf[a], "error") BY <1>2 DEF PauseGoal
  <2>4. at'[a].pc = at[a].pc BY <1>0, <2>3, GoalUpdatedShape DEF Terminated
  <2> QED BY <2>1, <2>2, <2>4 DEF StopMoved
<1>3. CASE ConfirmPause(a, "caller")
  <2>1. StopAt(a) = "confirm" BY <1>3 DEF ConfirmPause, StopAt
  <2>2. /\ at'[a].pc = at[a].pc /\ StatusOf(a) \in Terminal
        /\ stopper' = [stopper EXCEPT ![<<a, "caller">>] = StopOver]
    BY <1>0, <1>3, ConfirmPauseShape
  <2>3. stopper'[<<a, "caller">>].pc = "done" BY <1>0, <2>2, StopEnds
  <2> QED BY <2>1, <2>2, <2>3 DEF StopMoved
<1>4. CASE StopFails(a, "caller")
  <2>1. /\ StopAt(a) \in {"pause", "confirm"} /\ CloseClient(at[a].gen) /\ at' = at
        /\ stopper' = [stopper EXCEPT ![<<a, "caller">>] = StopOver]
    BY <1>4 DEF StopFails, StopAt
  <2>2. stopper'[<<a, "caller">>].pc = "done" BY <1>0, <2>1, StopEnds
  <2>3. Shut(at[a].gen) BY <2>1, ShutByClose
  <2> QED BY <2>1, <2>2, <2>3 DEF StopMoved
<1> QED BY <1>1, <1>2, <1>3, <1>4 DEF Stopper

\* The stops of others are left alone.
LEMMA OtherStop ==
    ASSUME TypeOK, NEW b \in GoalAttempts, NEW who \in Stoppers, Stopper(b, who),
           NEW x \in GoalAttempts \X Stoppers, x # <<b, who>>
    PROVE  stopper'[x] = stopper[x]
<1>1. CASE BeginStop(b, who)
  <2> DEFINE q == [pc |-> "pause", turn |-> at[b].turn]
  <2>1. b \in Attempts BY RuntimeAssumption
  <2>2. q \in StopRecords BY <2>1, Attempt DEF AttemptRecords, StopRecords
  <2>3. stopper' = [stopper EXCEPT ![<<b, who>>].pc = "done"] \/ stopper' = [stopper EXCEPT ![<<b, who>>] = q]
    BY <1>1, BeginStopShape
  <2> HIDE DEF q
  <2>4. CASE stopper' = [stopper EXCEPT ![<<b, who>>].pc = "done"] BY <2>4, StopMove
  <2>5. CASE stopper' = [stopper EXCEPT ![<<b, who>>] = q] BY <2>2, <2>5, StopUpdate
  <2> QED BY <2>3, <2>4, <2>5
<1>2. CASE PauseGoal(b, who)
  <2>1. stopper' = [stopper EXCEPT ![<<b, who>>].pc = "confirm"] BY <1>2 DEF PauseGoal
  <2> QED BY <2>1, StopMove
<1>3. CASE ConfirmPause(b, who) \/ StopFails(b, who)
  <2>1. stopper' = [stopper EXCEPT ![<<b, who>>] = StopOver] BY <1>3 DEF ConfirmPause, StopFails
  <2> QED BY <2>1, StopEnds
<1> QED BY <1>1, <1>2, <1>3 DEF Stopper

LEMMA CallerStopMoves ==
    ASSUME TypeOK, [Next]_vars, NEW a \in GoalAttempts, GoalOf(a, at[a])
    PROVE  StopMoved(a, StopAt(a), stopper'[<<a, "caller">>].pc)
<1> DEFINE x == <<a, "caller">>
<1>0. x \in GoalAttempts \X Stoppers BY DEF Stoppers
<1>1. ASSUME stopper'[x] = stopper[x] PROVE StopMoved(a, StopAt(a), stopper'[x].pc) BY <1>1 DEF StopMoved, StopAt
<1>2. CASE UNCHANGED <<stopper, early, goal>> BY <1>1, <1>2
<1>3. CASE \E b \in Attempts : Register(b) BY <1>1, <1>3, RegisterStops
<1>4. CASE \E b \in Attempts : SetGoal(b) BY <1>1, <1>4 DEF SetGoal, runtime
<1>5. CASE \E b \in Attempts : StopByCaller(b)
  <2>1. PICK b \in Attempts : StopByCaller(b) BY <1>5
  <2>2. /\ b \in GoalAttempts /\ "caller" \in Stoppers /\ stopper[<<b, "caller">>].pc = "none"
        /\ stopper' = [stopper EXCEPT ![<<b, "caller">>].pc = "begin"]
    BY <2>1 DEF StopByCaller, IsGoal, Stoppers
  <2>3. CASE b = a
    <3>1. at'[a].pc = "stop" BY <2>1, <2>3, LeavesShape DEF Went
    <3>2. stopper'[x].pc = "begin" BY <2>2, <2>3, StopMove
    <3> QED BY <2>2, <2>3, <3>1, <3>2 DEF StopMoved, StopAt
  <2>4. CASE b # a
    <3>1. x # <<b, "caller">> BY <2>4
    <3> QED BY <1>0, <1>1, <2>2, <3>1, StopMove
  <2> QED BY <2>3, <2>4
<1>6. CASE \E b \in GoalAttempts : RequestGoalStop(b)
  <2>1. PICK b \in GoalAttempts : RequestGoalStop(b) BY <1>6
  <2> DEFINE p == IF at[b].reg THEN "begin" ELSE "pending"
  <2>2. stopper' = [stopper EXCEPT ![<<b, "control">>].pc = p] BY <2>1 DEF RequestGoalStop
  <2>3. "control" \in Stoppers /\ p \in {"none", "pending", "begin", "pause", "confirm", "done"} BY DEF Stoppers
  <2>4. x # <<b, "control">> OBVIOUS
  <2> HIDE DEF p
  <2> QED BY <1>0, <1>1, <2>2, <2>3, <2>4, StopMove
<1>7. CASE \E b \in GoalAttempts : \E who \in Stoppers : Stopper(b, who)
  <2>1. PICK b \in GoalAttempts, who \in Stoppers : Stopper(b, who) BY <1>7
  <2>2. CASE <<b, who>> = x BY <2>1, <2>2, StopperMoves
  <2>3. CASE <<b, who>> # x BY <1>0, <1>1, <2>1, <2>3, OtherStop
  <2> QED BY <2>2, <2>3
<1>8. CASE \E h \in Threads, s \in {"complete", "limited"} : GoalTerminates(h, s)
  BY <1>1, <1>8 DEF GoalTerminates
<1> QED BY <1>2, <1>3, <1>4, <1>5, <1>6, <1>7, <1>8, GoalsSame

LEMMA StopNow ==
    ASSUME NEW a \in GoalAttempts, NEW q, q = at'[a], NEW p, p = stopper'[<<a, "caller">>].pc,
           p # "none" => q.pc \in {"stop", "returned"},
           q.pc = "returned" => p \in {"none", "done"},
           p = "done" => q.misled \/ (OwnNow(a) => StatusNow(a) \in Terminal) \/ Shut(q.gen)
    PROVE  StopOf(a, at[a])'
BY DEF StopOf, StatusNow, StatusOf, OwnNow, Own, Shut, Open, Terminal

\* Nothing makes an attempt sure of its goal again.
LEMMA StaysMisled ==
    ASSUME TypeOK, GenInv, ToolInv, [Next]_vars, NEW a \in GoalAttempts, GoalOf(a, at[a]), at[a].misled
    PROVE  at'[a].misled
BY GoalMoves, ConfirmPauseShape DEF Follows, Informed

LEMMA StopOfStep ==
    ASSUME TypeOK, GenInv, ToolInv, SerInv, GoalInv, [Next]_vars, NEW a \in GoalAttempts
    PROVE  StopOf(a, at[a])' /\ EarlyOf(a, at[a])'
<1> DEFINE r == at[a]
           q == at'[a]
           s == StopAt(a)
           p == stopper'[<<a, "caller">>].pc
<1>0. a \in Attempts /\ GoalOf(a, at[a]) /\ GoalKept(a) /\ EarlyOf(a, at[a])
  BY RuntimeAssumption, GoalWorld DEF GoalInv
<1>1. Led(a, r, q) BY <1>0, GoalMoves
<1>2. StopMoved(a, s, p) BY <1>0, CallerStopMoves
<1>3. /\ s # "none" => r.pc \in {"stop", "returned"}
      /\ r.pc = "returned" => s \in {"none", "done"}
      /\ s = "done" => r.misled \/ (Own(a) => StatusOf(a) \in Terminal) \/ ~Open(r.gen)
  BY DEF GoalInv, StopOf, StopAt
<1>4. s # "none" => q.gen = r.gen /\ q.pc \in {"stop", "returned"} BY <1>1, <1>3 DEF Led
<1>5. p # "none" => q.pc \in {"stop", "returned"} BY <1>2, <1>4 DEF StopMoved
<1>6. q.pc = "returned" => p \in {"none", "done"}
  <2>1. CASE p = s BY <1>1, <1>3, <2>1 DEF Led, StopAt
  <2> QED BY <1>2, <1>3, <2>1 DEF StopMoved
<1>7. p = "done" => q.misled \/ (OwnNow(a) => StatusNow(a) \in Terminal) \/ Shut(q.gen)
  <2>1. SUFFICES ASSUME p = "done" PROVE q.misled \/ (OwnNow(a) => StatusNow(a) \in Terminal) \/ Shut(q.gen) OBVIOUS
  <2>2. s # "none" BY <1>2, <2>1 DEF StopMoved
  <2>3. q.misled \/ (Own(a) => StatusOf(a) \in Terminal) \/ Shut(r.gen)
    <3>1. CASE s = "done" BY <1>0, <1>3, <3>1, StillShut, StaysMisled
    <3>2. CASE s # "done" BY <1>2, <2>1, <3>2 DEF StopMoved
    <3> QED BY <3>1, <3>2
  <2>4. ~SetGoal(a) BY <1>3, <2>2 DEF SetGoal
  <2>5. OwnNow(a) => Own(a) /\ (StatusOf(a) \in Terminal => StatusNow(a) \in Terminal) BY <1>0, <2>4 DEF GoalKept
  <2> QED BY <1>4, <2>2, <2>3, <2>5
<1>8. StopOf(a, at[a])' BY <1>5, <1>6, <1>7, StopNow
<1>9. r.pc # "call" /\ turn[First(a)].state = "none" => turn'[First(a)].state = "none"
  BY <1>0, WorldStep DEF World
<1>10. q.pc \in {"set", "start", "close"} => turn'[First(a)].state = "none"
  <2>1. q.pc \in {"set", "start", "close"} => r.pc \in {"client", "set", "start", "close"} BY <1>1 DEF Led
  <2> QED BY <1>0, <1>9, <2>1 DEF EarlyOf, GenInv
<1>11. q.pc = "close" => q.result = "error" BY <1>0, <1>1 DEF Led, EarlyOf
<1>12. q.pc = "returned" /\ p = "none" => q.result = "ok" \/ (q.result = "error" /\ turn'[First(a)].state = "none")
  <2>1. SUFFICES ASSUME q.pc = "returned", p = "none", q.result # "ok"
                 PROVE  q.result = "error" /\ turn'[First(a)].state = "none"
    OBVIOUS
  <2>2. s = "none" BY <1>2, <2>1 DEF StopMoved
  <2>3. \/ r.pc = "new" /\ q.result = "error"
        \/ r.pc \in {"close", "returned"} /\ q.result = r.result
    BY <1>1, <2>1, <2>2 DEF Led, StopAt
  <2>4. CASE r.pc = "new" /\ q.result = "error" BY <1>0, <1>9, <2>4 DEF GenInv
  <2>5. CASE r.pc \in {"close", "returned"} /\ q.result = r.result
    BY <1>0, <1>9, <2>1, <2>2, <2>5 DEF EarlyOf, StopAt
  <2> QED BY <2>3, <2>4, <2>5
<1>13. EarlyOf(a, at[a])' BY <1>10, <1>11, <1>12 DEF EarlyOf
<1> QED BY <1>8, <1>13

LEMMA GoalStep ==
    ASSUME TypeOK, GenInv, ToolInv, SerInv, GoalInv, [Next]_vars PROVE GoalInv'
<1>1. ASSUME NEW a \in GoalAttempts PROVE GoalOf(a, at[a])' /\ StopOf(a, at[a])' /\ EarlyOf(a, at[a])'
  BY <1>1, GoalOfStep, StopOfStep
<1> QED BY <1>1 DEF GoalInv
-----------------------------------------------------------------------------
(* The invariant holds.                                                    *)

LEMMA InitType == ASSUME Init PROVE TypeOK
<1>1. NewAttempt \in AttemptRecords
  <2>1. <<>> \in Seq(Events) /\ <<>> \in Seq(Turns \X Nat) OBVIOUS
  <2> QED BY <2>1 DEF NewAttempt, AttemptRecords, Verdicts, NoTurn
<1>2. gen \in Generations BY DEF Init, Generations
<1>3. at \in [Attempts -> AttemptRecords] BY <1>1 DEF Init
<1>4. call \in [Calls -> CallRecords] BY DEF Init, CallRecords
<1>5. stopper \in [GoalAttempts \X Stoppers -> StopRecords] BY DEF Init, StopRecords
<1>6. early \in [Threads -> Verdicts] BY DEF Init, Verdicts
<1>7. turn \in [Turns -> TurnRecords] BY DEF Init, TurnRecords
<1>8. goal \in [Threads -> GoalRecords] BY DEF Init, GoalRecords
<1>9. interrupted \subseteq Turns /\ disturbed \in Nat BY DEF Init
<1> QED BY <1>2, <1>3, <1>4, <1>5, <1>6, <1>7, <1>8, <1>9 DEF TypeOK

LEMMA InitInv == ASSUME Init PROVE IInv
<1>0. TypeOK BY InitType
<1>1. \A a \in Attempts : at[a] = NewAttempt BY DEF Init
<1>2. \A t \in Turns : turn[t].state = "none" /\ turn[t].sent = 0 /\ ~Running(t) BY DEF Init, Running
<1>3. gen.id = 1 /\ gen.failing = {} BY DEF Init
<1>4. GenInv BY <1>1, <1>2, <1>3, FirstTurn DEF GenInv, NewAttempt
<1>5. \A c \in Calls : call[c].owner = {} BY DEF Init
<1>6. ToolInv BY <1>1, <1>3, <1>5 DEF ToolInv, NewAttempt
<1>7. ASSUME NEW a \in Plain
      PROVE  /\ PlainOf(a, at[a]) /\ TrueEnds(at[a].pending) /\ TrueEnds(at[a].replay)
             /\ ItemsOf(a, at[a], turn[First(a)].sent)
  <2>1. at[a] = NewAttempt /\ First(a) \in Turns BY <1>1, <1>7, FirstTurn DEF Plain
  <2>2. PlainOf(a, at[a]) BY <2>1 DEF PlainOf, PlainPlaces, Unbound, NewAttempt
  <2>3. at[a].pending = <<>> /\ at[a].replay = <<>> /\ at[a].items = <<>> BY <2>1 DEF NewAttempt
  <2>4. DOMAIN at[a].pending = {} /\ DOMAIN at[a].replay = {} /\ DOMAIN at[a].items = {} BY <2>3
  <2> QED BY <2>2, <2>3, <2>4 DEF TrueEnds, ItemsOf, Distinct
<1>9. SerInv BY <1>1 DEF SerInv, NewAttempt
<1>8. ASSUME NEW a \in GoalAttempts PROVE GoalOf(a, at[a]) /\ StopOf(a, at[a]) /\ EarlyOf(a, at[a])
  <2>1. a \in Attempts /\ ThreadOf[a] \in Threads BY <1>8, RuntimeAssumption, ThreadFacts
  <2>2. ~Own(a) BY <2>1 DEF Init, Own
  <2>3. <<a, "caller">> \in GoalAttempts \X Stoppers BY <1>8 DEF Stoppers
  <2>4. stopper[<<a, "caller">>].pc = "none" BY <2>3 DEF Init
  <2> QED BY <1>1, <2>1, <2>2, <2>4 DEF GoalOf, StopOf, EarlyOf, NewAttempt
<1> QED BY <1>0, <1>4, <1>6, <1>7, <1>8, <1>9 DEF IInv, PlainInv, EndsInv, ItemsInv, GoalInv

LEMMA StepInv == ASSUME IInv, [Next]_vars PROVE IInv'
<1>0. TypeOK /\ GenInv /\ ToolInv /\ SerInv /\ PlainInv /\ EndsInv /\ ItemsInv /\ GoalInv BY DEF IInv
<1>1. TypeOK' /\ GenInv' /\ ToolInv' /\ SerInv' BY <1>0, TypeStep, GenStep, ToolStep, SerStep
<1>2. PlainInv' /\ EndsInv' /\ ItemsInv' BY <1>0, PlainStep, EndsStep, ItemsStep
<1>3. GoalInv' BY <1>0, GoalStep
<1> QED BY <1>1, <1>2, <1>3 DEF IInv

THEOREM Invariance == Spec => []IInv
BY InitInv, StepInv, PTL DEF Spec
-----------------------------------------------------------------------------
(* What follows from it.                                                   *)

\* Type correctness: generations, attempts, tool calls, stops, turns and goals only
\* ever hold the values that the code of runtime.go and goal.go gives them.
THEOREM TypeCorrect == Spec => []TypeOK
<1>1. IInv => TypeOK BY DEF IInv
<1> QED BY <1>1, Invariance, PTL

\* NothingRunsOn: when startAttempt has returned, a turn that App Server still runs
\* was interrupted, whichever of the answer, the timers, an exit, Close, a refused item
\* or an overflow of the kept events ended the attempt; and a handler of
\* handleServerRequest that outlives its attempt has a cancelled context.
THEOREM NothingLeftRunning == Spec => []NothingRunsOn
<1>1. IInv => NothingRunsOn
  <2> SUFFICES ASSUME IInv PROVE NothingRunsOn OBVIOUS
  <2>1. NoStrayTurn BY DEF IInv, PlainInv, PlainOf, Plain, Told, NoStrayTurn
  <2>2. ToolsStopWithTheirTurn
    <3>1. \A c \in Calls : call[c].owner \subseteq Attempts BY DEF IInv, TypeOK, CallRecords
    <3> QED BY <3>1 DEF IInv, ToolInv, ToolsStopWithTheirTurn
  <2> QED BY <2>1, <2>2 DEF NothingRunsOn
<1> QED BY <1>1, Invariance, PTL

\* OwnItems: what a plain attempt shows are items of its own turn, each once,
\* although they are kept before turn/start is answered and replayed by the caller while
\* the reader goes on routing.
THEOREM ItemsShownOnce == Spec => []OwnItems
<1>1. IInv => OwnItems
  <2> SUFFICES ASSUME IInv, NEW a \in Plain PROVE ItemsOf(a, at[a], turn[First(a)].sent) =>
          /\ \A k \in DOMAIN at[a].items : at[a].items[k][1] = First(a)
          /\ \A j, k \in DOMAIN at[a].items : at[a].items[j] = at[a].items[k] => j = k
    BY DEF IInv, ItemsInv, OwnItems, Plain
  <2> QED BY DEF ItemsOf
<1> QED BY <1>1, Invariance, PTL

\* A plain attempt that reports success had its own turn completed.
PlainSuccess ==
    \A a \in Plain : at[a].pc = "leave" /\ at[a].result = "ok" => turn[First(a)].state = "completed"

\* PlainSuccess has no exception: neither a stray event of an older turn nor a kept one
\* makes a success, with plain attempts and goals on the same thread.
THEOREM PlainSuccessIsReal == Spec => []PlainSuccess
<1>1. IInv => PlainSuccess BY DEF IInv, PlainInv, PlainOf, PlainSuccess
<1> QED BY <1>1, Invariance, PTL

LEMMA GoalSuccess ==
    ASSUME IInv PROVE SuccessIsReal
<1> SUFFICES ASSUME NEW a \in Attempts, at[a].pc = "leave", at[a].result = "ok"
             PROVE  IF IsGoal(a) THEN at[a].misled \/ goal[ThreadOf[a]] = [by |-> {a}, status |-> "complete"]
                                 ELSE turn[First(a)].state = "completed"
  BY DEF SuccessIsReal
<1>1. CASE IsGoal(a)
  <2>1. GoalOf(a, at[a]) BY <1>1 DEF IInv, GoalInv, IsGoal
  <2>2. at[a].misled \/ (goal[ThreadOf[a]].status = "complete" /\ goal[ThreadOf[a]].by = {a})
    BY <2>1 DEF GoalOf, OwnIn, Own, StatusOf
  <2>3. goal[ThreadOf[a]] \in GoalRecords BY ThreadFacts DEF IInv, TypeOK
  <2> QED BY <1>1, <2>2, <2>3 DEF GoalRecords
<1>2. CASE ~IsGoal(a) BY <1>2 DEF IInv, PlainInv, PlainOf, Plain, IsGoal
<1> QED BY <1>1, <1>2

\* SuccessIsReal: a success of StartTurn is a completed turn of the attempt, a success of
\* a goal is the goal that this attempt set, declared complete by App Server, with any number
\* of goals and turns on the thread before it.  The one way to a false success is named: the
\* attempt was told the end of a goal that another attempt had set (Misleads), through
\* earlyGoalUpdates or because the older goal was still going on.
THEOREM RealSuccess == Spec => []SuccessIsReal
<1>1. IInv => SuccessIsReal BY GoalSuccess
<1> QED BY <1>1, Invariance, PTL

\* ResultsAreOwn: success and items of an attempt are its own.
THEOREM OwnResults == Spec => []ResultsAreOwn
<1>1. SuccessIsReal /\ OwnItems => ResultsAreOwn BY DEF ResultsAreOwn
<1> QED BY <1>1, RealSuccess, ItemsShownOnce, PTL

\* NoOrphanGoal: a goal that is active after startGoal has returned has lost the generation
\* it was started on, for BeginStop, the pause, its confirmation and the close after any
\* failure leave no other way to return - unless the end of another goal of the thread made
\* the attempt believe that its own had ended, or the answer of the call that set the goal was
\* lost, and then no turn was ever started for it.
THEOREM NoGoalLeftBehind == Spec => []NoOrphanGoal
<1>1. IInv => NoOrphanGoal
  <2> SUFFICES ASSUME IInv, NEW a \in GoalAttempts, at[a].pc = "returned",
                      goal[ThreadOf[a]] = [by |-> {a}, status |-> "active"], ~at[a].misled, Open(at[a].gen)
               PROVE  at[a].result = "error" /\ turn[First(a)].state = "none" /\ stopper[<<a, "caller">>].pc = "none"
    BY DEF NoOrphanGoal
  <2>1. GoalOf(a, at[a]) /\ StopOf(a, at[a]) /\ EarlyOf(a, at[a]) BY DEF IInv, GoalInv
  <2>2. StatusOf(a) = "active" /\ Own(a) BY DEF StatusOf, Own
  <2>3. stopper[<<a, "caller">>].pc = "none" BY <2>1, <2>2 DEF StopOf, Terminal
  <2>4. at[a].result # "ok" BY <2>1, <2>2 DEF GoalOf, OwnIn
  <2> QED BY <2>1, <2>3, <2>4 DEF EarlyOf
<1> QED BY <1>1, Invariance, PTL
=============================================================================
