--------------------------- MODULE ToolCallsProofs ---------------------------
(***************************************************************************)
(* Proofs about ToolCalls, for every set of requests, every quota and every *)
(* number of deliveries, failed statements, lost answers, cancels and       *)
(* crashes; and that ToolCalls implements CallLedger.                       *)
(***************************************************************************)
EXTENDS ToolCalls, FiniteSetTheorems, TLAPS

-----------------------------------------------------------------------------
(* The inductive invariant.                                                *)

\* The places of a delivery that holds the row of its Feishu action.
Owning == {"claimed", "start", "request", "content", "announce", "complete"}

EffectOf(d) == [call |-> run[d].req.call, tool |-> run[d].req.tool, args |-> run[d].req.args, by |-> d]
FeishuDone(c) == \E e \in done : e.call = c /\ e.tool \in FeishuTools

\* A delivery is in the half of the code its tool belongs to.
PlaceInv(d) ==
    /\ run[d].pc \in Owning \cup {"replay", "claim"} => run[d].req.tool \in FeishuTools
    /\ run[d].pc \in {"check", "transaction"} => run[d].req.tool \in ScheduleTools
    /\ run[d].pc \in {"content", "announce"} => run[d].req.tool = "doc"

\* The row of an action belongs to the delivery that claimed it.
OwnerInv(d) ==
    /\ run[d].pc \in Owning => SameCall(Row(d), run[d].req)
    /\ run[d].pc \in {"claimed", "start"} => Row(d).state = "claimed"
    /\ run[d].pc \in {"request", "content", "announce"} => Row(d).state = "in_flight"
    /\ run[d].pc = "complete" => Row(d).state \in {"claimed", "in_flight"}
OneOwner ==
    \A d, e \in Deliveries :
        run[d].pc \in Owning /\ run[e].pc \in Owning /\ run[d].req.call = run[e].req.call => d = e

\* What the owner knows of the effect when it is about to record it.
OutcomeInv(d) ==
    /\ run[d].pc = "request" => ~FeishuDone(run[d].req.call)
    /\ run[d].pc \in {"content", "announce"} => EffectOf(d) \in done
    /\ run[d].pc = "complete" =>
          /\ run[d].state \in Terminal
          /\ run[d].ok <=> run[d].state = "succeeded"
          /\ run[d].ok => EffectOf(d) \in done
          /\ run[d].state \in {"rejected", "cancelled_before_send"} =>
                run[d].req.tool = "doc" \/ ~FeishuDone(run[d].req.call)

\* The rows of the Feishu ledger.
ActionInv(c) ==
    /\ action[c].state = "none" => action[c] = NoRow
    /\ action[c].ok <=> action[c].state = "succeeded"
    /\ action[c].state \in {"none", "claimed"} => ~FeishuDone(c)

\* The rows of the schedule ledger: a transaction never commits one open.
ToolCallInv(c) ==
    \/ toolCall[c] = NoRow
    \/ /\ toolCall[c].state = "succeeded" /\ toolCall[c].tool \in ScheduleTools
       /\ toolCall[c].by \in Deliveries

\* Every effect is told by a row.
EffectInv(e) ==
    /\ e.tool \in FeishuTools => SameCall(action[e.call], e)
    /\ e.tool \in ScheduleTools =>
          toolCall[e.call] = [state |-> "succeeded", tool |-> e.tool, args |-> e.args, ok |-> TRUE, by |-> e.by]
OneEffect == \A e, f \in done : KeyOf(e) = KeyOf(f) => e = f

\* Every success that was answered is the result of an effect.
ToldInv(d) ==
    run[d].pc = "answered" /\ run[d].ok =>
        \E e \in done : KeyOf(e) = KeyOf(run[d].req) /\ e.args = run[d].req.args /\ e.by = run[d].by

\* The updates so far, and the versions they replaced.
Updates == {c \in Calls : toolCall[c].tool = "update"}
UpdateInv ==
    /\ IsFiniteSet(Updates)
    /\ \A c \in Updates : toolCall[c].args < task[Seed].version
    /\ \A a, b \in Updates : toolCall[a].args = toolCall[b].args => a = b

DeliveryInv == \A d \in Deliveries : PlaceInv(d) /\ OwnerInv(d) /\ OutcomeInv(d) /\ ToldInv(d)
CallInv == \A c \in Calls : ActionInv(c) /\ ToolCallInv(c)
DoneInv == \A e \in done : EffectInv(e)

IInv ==
    /\ TypeOK /\ DeliveryInv /\ OneOwner /\ CallInv /\ DoneInv /\ OneEffect
    /\ RowsAreTrue /\ TasksMatchLedger /\ UpdateInv
-----------------------------------------------------------------------------
(* Type correctness.                                                       *)

\* What a delivery that has begun can be asked for.
LEMMA Request ==
    ASSUME TypeOK, NEW d \in Deliveries, run[d].pc # "idle"
    PROVE  /\ run[d].req \in Requests /\ run[d].req.call \in Calls
           /\ run[d].req.tool \in Tools /\ run[d].req.args \in Nat
           /\ Row(d) \in Rows /\ Stored(d) \in Rows
           /\ EffectOf(d) \in Effects
BY RequestsAssumption DEF TypeOK, Calls, Row, Stored, EffectOf, Effects

\* The constants of the initial state, and who is not a delivery.
LEMMA Constants ==
    /\ NoRow \in Rows /\ Fresh \in Progress
    /\ Deliveries \subseteq Nat \ {0} /\ Seed = 0 /\ NoOne = 0
BY RequestsAssumption DEF NoRow, Rows, Fresh, Progress, Ended, Terminal, Deliveries, Seed, NoOne

\* A handler that answers or has an outcome stays in the type.
LEMMA ProgressTyped ==
    ASSUME NEW q \in Progress, NEW ok \in BOOLEAN
    PROVE  /\ \A by \in Deliveries \cup {NoOne} :
                 [q EXCEPT !.pc = "answered", !.ok = ok, !.by = by] \in Progress
           /\ \A state \in Terminal :
                 [q EXCEPT !.pc = "complete", !.ok = ok, !.state = state] \in Progress
<1>1. ASSUME NEW by \in Deliveries \cup {NoOne}
      PROVE  [q EXCEPT !.pc = "answered", !.ok = ok, !.by = by] \in Progress
  BY Zenon DEF Progress, Ended
<1>2. ASSUME NEW state \in Terminal
      PROVE  [q EXCEPT !.pc = "complete", !.ok = ok, !.state = state] \in Progress
  BY Zenon DEF Progress
<1> QED BY <1>1, <1>2

\* One delivery goes on; the others and its request stay as they are.
Moved(d) ==
    /\ run' \in [Deliveries -> Progress]
    /\ \A e \in Deliveries \ {d} : run'[e] = run[e]
    /\ run'[d].req = run[d].req

\* What the handler's ways to go on make of its delivery.
LEMMA Moves ==
    ASSUME TypeOK, NEW d \in Deliveries
    PROVE  /\ \A p \in {"replay", "claim", "claimed", "start", "request", "content", "transaction"} :
                 Goto(d, p) => Moved(d) /\ run'[d].pc = p
           /\ \A ok \in BOOLEAN, by \in Deliveries \cup {NoOne} :
                 Answer(d, ok, by) => /\ Moved(d) /\ run'[d].pc = "answered"
                                      /\ run'[d].ok = ok /\ run'[d].by = by
           /\ \A ok \in BOOLEAN, state \in Terminal :
                 Outcome(d, ok, state) => /\ Moved(d) /\ run'[d].pc = "complete"
                                          /\ run'[d].ok = ok /\ run'[d].state = state
           /\ Fail(d) => Moved(d) /\ run'[d].pc = "answered" /\ ~run'[d].ok
<1>0. run \in [Deliveries -> Progress] BY DEF TypeOK
<1>1. ASSUME NEW p \in {"replay", "claim", "claimed", "start", "request", "content", "transaction"},
             Goto(d, p)
      PROVE  Moved(d) /\ run'[d].pc = p
  BY <1>0, <1>1 DEF Goto, Progress, Moved
<1>2. ASSUME NEW ok \in BOOLEAN, NEW by \in Deliveries \cup {NoOne}, Answer(d, ok, by)
      PROVE  Moved(d) /\ run'[d].pc = "answered" /\ run'[d].ok = ok /\ run'[d].by = by
  <2> DEFINE r == [run[d] EXCEPT !.pc = "answered", !.ok = ok, !.by = by]
  <2>1. r \in Progress BY <1>0, ProgressTyped
  <2>2. run' = [run EXCEPT ![d] = r] BY <1>0, <1>2 DEF Answer
  <2>3. r.req = run[d].req /\ r.pc = "answered" /\ r.ok = ok /\ r.by = by BY <1>0 DEF Progress
  <2> HIDE DEF r
  <2> QED BY <1>0, <2>1, <2>2, <2>3 DEF Moved
<1>3. ASSUME NEW ok \in BOOLEAN, NEW state \in Terminal, Outcome(d, ok, state)
      PROVE  Moved(d) /\ run'[d].pc = "complete" /\ run'[d].ok = ok /\ run'[d].state = state
  <2> DEFINE r == [run[d] EXCEPT !.pc = "complete", !.ok = ok, !.state = state]
  <2>1. r \in Progress BY <1>0, ProgressTyped
  <2>2. run' = [run EXCEPT ![d] = r] BY <1>0, <1>3 DEF Outcome
  <2>3. r.req = run[d].req /\ r.pc = "complete" /\ r.ok = ok /\ r.state = state BY <1>0 DEF Progress
  <2> HIDE DEF r
  <2> QED BY <1>0, <2>1, <2>2, <2>3 DEF Moved
<1>4. Fail(d) => Moved(d) /\ run'[d].pc = "answered" /\ ~run'[d].ok
  BY <1>2 DEF Fail
<1> QED BY <1>1, <1>2, <1>3, <1>4
-----------------------------------------------------------------------------
(* The four kinds of step: a delivery goes on, a row of the Feishu ledger   *)
(* is written, a Feishu effect takes place, a schedule transaction commits. *)

LocalInv(d) == PlaceInv(d) /\ OwnerInv(d) /\ OutcomeInv(d) /\ ToldInv(d)
Counted == disturbances' \in 0 .. MaxDisturbances

\* A delivery goes on and leaves the tables alone.
LEMMA QuietStep ==
    ASSUME IInv, NEW d \in Deliveries, Moved(d), Counted, UNCHANGED <<action, toolCall, task, done>>,
           run[d].pc # "idle", run'[d].pc # "idle",
           run'[d].pc \in Owning => run[d].pc \in Owning,
           LocalInv(d)'
    PROVE  IInv'
<1> USE DEF IInv, Moved, Counted
<1>1. TypeOK' BY DEF TypeOK
<1>2. DeliveryInv'
  <2>1. ASSUME NEW e \in Deliveries \ {d} PROVE LocalInv(e)'
    BY DEF LocalInv, DeliveryInv, PlaceInv, OwnerInv, OutcomeInv, ToldInv, Row, EffectOf, FeishuDone
  <2> QED BY <2>1 DEF DeliveryInv, LocalInv
<1>3. OneOwner' BY DEF OneOwner
<1>4. CallInv' BY DEF CallInv, ActionInv, ToolCallInv, FeishuDone
<1>5. DoneInv' /\ OneEffect' BY DEF DoneInv, EffectInv, OneEffect
<1>6. RowsAreTrue' BY DEF RowsAreTrue
<1>7. TasksMatchLedger' /\ UpdateInv' BY DEF TasksMatchLedger, UpdateInv, Updates
<1> QED BY <1>1, <1>2, <1>3, <1>4, <1>5, <1>6, <1>7

\* A delivery writes the row of its call, which no other delivery owns.
LEMMA RowStep ==
    ASSUME IInv, NEW d \in Deliveries, Moved(d), Counted, UNCHANGED <<toolCall, task, done>>,
           run[d].pc \in Owning \cup {"claim"}, run'[d].pc # "idle",
           run[d].pc = "claim" => Row(d).state = "none",
           NEW row \in Rows, SetRow(d, row), SameCall(row, run[d].req), row.state # "none",
           row.ok <=> row.state = "succeeded",
           row.state = "claimed" => ~FeishuDone(run[d].req.call),
           row.state = "succeeded" =>
               [call |-> run[d].req.call, tool |-> row.tool, args |-> row.args, by |-> row.by] \in done,
           row.state \in {"rejected", "cancelled_before_send"} =>
               run[d].req.tool = "doc" \/ ~FeishuDone(run[d].req.call),
           LocalInv(d)'
    PROVE  IInv'
<1> DEFINE c == run[d].req.call
<1> USE DEF IInv
<1>0. /\ c \in Calls /\ run[d].pc # "idle"
      /\ action' = [action EXCEPT ![c] = row] /\ action \in [Calls -> Rows]
      /\ action'[c] = row /\ \A b \in Calls \ {c} : action'[b] = action[b]
  BY Request DEF TypeOK, SetRow, Owning
<1>1. TypeOK' BY <1>0 DEF TypeOK, Moved, Counted
<1>2. ASSUME NEW e \in Deliveries \ {d}, run[e].pc \in Owning PROVE run[e].req.call # c
  BY <1>2 DEF DeliveryInv, OwnerInv, OneOwner, Row, Owning
<1>3. DeliveryInv'
  <2>1. ASSUME NEW e \in Deliveries \ {d} PROVE LocalInv(e)'
    <3>1. run'[e] = run[e] BY DEF Moved
    <3>2. PlaceInv(e)' /\ OutcomeInv(e)' /\ ToldInv(e)'
      BY <3>1 DEF DeliveryInv, PlaceInv, OutcomeInv, ToldInv, EffectOf, FeishuDone
    <3>3. run[e].pc \in Owning => Row(e)' = Row(e)
      BY <1>0, <1>2, <3>1, Request DEF Row, Owning
    <3>4. OwnerInv(e)' BY <3>1, <3>3 DEF DeliveryInv, OwnerInv, Owning
    <3> QED BY <3>2, <3>4 DEF LocalInv
  <2> QED BY <2>1 DEF DeliveryInv, LocalInv
<1>4. OneOwner' BY <1>2 DEF OneOwner, Moved
<1>5. CallInv' BY <1>0 DEF CallInv, ActionInv, ToolCallInv, FeishuDone
<1>6. DoneInv'
  <2>1. ASSUME NEW e \in done, e.tool \in FeishuTools, e.call = c PROVE SameCall(row, e)
    <3>1. run[d].pc # "claim" BY <1>0, <2>1 DEF Row, CallInv, ActionInv, FeishuDone
    <3>2. SameCall(action[c], e) BY <2>1 DEF DoneInv, EffectInv
    <3>3. SameCall(action[c], run[d].req) BY <3>1 DEF DeliveryInv, OwnerInv, Row
    <3> QED BY <3>2, <3>3 DEF SameCall
  <2>2. ASSUME NEW e \in done PROVE e.call \in Calls BY DEF TypeOK, Effects
  <2> QED BY <1>0, <2>1, <2>2 DEF DoneInv, EffectInv
<1>7. OneEffect' BY DEF OneEffect
<1>8. RowsAreTrue'
  <2>1. row.state \in {"rejected", "cancelled_before_send"} =>
            \A e \in done : e.call = c => e.tool \in ScheduleTools \cup {"doc"}
    <3>1. ASSUME NEW e \in done, e.call = c, e.tool \in FeishuTools, run[d].req.tool = "doc"
          PROVE  e.tool = "doc"
      BY <1>0, <1>6, <3>1 DEF DoneInv, EffectInv, SameCall
    <3>2. ASSUME NEW e \in done PROVE e.tool \in FeishuTools \cup ScheduleTools
      BY DEF TypeOK, Effects, Tools
    <3> QED BY <3>1, <3>2 DEF FeishuDone
  <2> QED BY <1>0, <2>1 DEF RowsAreTrue
<1>9. TasksMatchLedger' /\ UpdateInv' BY DEF TasksMatchLedger, UpdateInv, Updates
<1> QED BY <1>1, <1>3, <1>4, <1>5, <1>6, <1>7, <1>8, <1>9

\* A Feishu effect takes place, once, for the delivery that owns the row.
LEMMA EffectStep ==
    ASSUME IInv, NEW d \in Deliveries, Moved(d), Counted, UNCHANGED <<action, toolCall, task>>,
           run[d].pc = "request", Happened(d), run'[d].pc \in {"content", "complete"},
           LocalInv(d)'
    PROVE  IInv'
<1> DEFINE c == run[d].req.call
<1> USE DEF IInv
<1>0. /\ c \in Calls /\ run[d].req.tool \in FeishuTools
      /\ EffectOf(d) \in Effects /\ done' = done \cup {EffectOf(d)}
      /\ SameCall(action[c], run[d].req) /\ action[c].state = "in_flight" /\ ~FeishuDone(c)
  BY Request DEF Happened, EffectOf, DeliveryInv, PlaceInv, OwnerInv, OutcomeInv, Owning, Row
<1>a. EffectOf(d).call = c /\ EffectOf(d).tool = run[d].req.tool /\ EffectOf(d).args = run[d].req.args
  BY DEF EffectOf
<1>b. \A b \in Calls \ {c} : FeishuDone(b)' <=> FeishuDone(b) BY <1>0, <1>a DEF FeishuDone
<1>1. TypeOK' BY <1>0 DEF TypeOK, Moved, Counted
<1>2. ASSUME NEW e \in Deliveries \ {d}, run[e].pc \in Owning PROVE run[e].req.call \in Calls \ {c}
  <2>1. run[d].pc \in Owning BY DEF Owning
  <2> QED BY <1>2, <2>1, Request DEF OneOwner, Owning
<1>3. DeliveryInv'
  <2>1. ASSUME NEW e \in Deliveries \ {d} PROVE LocalInv(e)'
    <3>1. run'[e] = run[e] BY DEF Moved
    <3>2. PlaceInv(e)' /\ OwnerInv(e)' BY <3>1 DEF DeliveryInv, PlaceInv, OwnerInv, Row
    <3>3. OutcomeInv(e)'
      <4>1. run[e].pc \in Owning => (FeishuDone(run[e].req.call)' <=> FeishuDone(run[e].req.call))
        BY <1>2, <1>b, <3>1 DEF FeishuDone
      <4>2. EffectOf(e)' = EffectOf(e) BY <3>1 DEF EffectOf
      <4> QED BY <1>0, <3>1, <4>1, <4>2 DEF DeliveryInv, OutcomeInv, Owning
    <3>4. ToldInv(e)' BY <1>0, <3>1 DEF DeliveryInv, ToldInv
    <3> QED BY <3>2, <3>3, <3>4 DEF LocalInv
  <2> QED BY <2>1 DEF DeliveryInv, LocalInv
<1>4. OneOwner' BY DEF OneOwner, Moved, Owning
<1>5. CallInv' BY <1>0, <1>b DEF CallInv, ActionInv, ToolCallInv
<1>6. DoneInv'
  <2>1. PICK x : x = EffectOf(d) OBVIOUS
  <2>2. EffectInv(x)' BY <1>0, <1>a, <2>1 DEF EffectInv, SameCall, FeishuTools, ScheduleTools
  <2>3. \A e \in done : EffectInv(e)' BY DEF DoneInv, EffectInv
  <2> QED BY <1>0, <2>1, <2>2, <2>3 DEF DoneInv
<1>7. OneEffect'
  <2>1. ASSUME NEW e \in done PROVE KeyOf(e) # KeyOf(EffectOf(d))
    BY <1>0, <1>a DEF KeyOf, FeishuDone
  <2> QED BY <1>0, <2>1 DEF OneEffect
<1>8. RowsAreTrue' BY <1>0, <1>a DEF RowsAreTrue
<1>9. TasksMatchLedger' /\ UpdateInv' BY DEF TasksMatchLedger, UpdateInv, Updates
<1> QED BY <1>1, <1>3, <1>4, <1>5, <1>6, <1>7, <1>8, <1>9

\* A schedule transaction commits: the task, the effect and the row together.
LEMMA CommitStep ==
    ASSUME IInv, NEW d \in Deliveries, Moved(d), Counted, UNCHANGED action,
           run[d].pc = "transaction", ~Replayed(d), Happened(d),
           toolCall' = [toolCall EXCEPT ![run[d].req.call] =
                           [state |-> "succeeded", tool |-> run[d].req.tool,
                            args |-> run[d].req.args, ok |-> TRUE, by |-> d]],
           Seed \in DOMAIN task', DOMAIN task' \subseteq Deliveries \cup {Seed}, task' \in [DOMAIN task' -> Tasks],
           run'[d].pc = "answered", run'[d].ok => run'[d].by = d,
           TasksMatchLedger', UpdateInv'
    PROVE  IInv'
<1> DEFINE c == run[d].req.call
<1> DEFINE row == [state |-> "succeeded", tool |-> run[d].req.tool, args |-> run[d].req.args, ok |-> TRUE, by |-> d]
<1> USE DEF IInv
<1>0. /\ c \in Calls /\ run[d].req.tool \in ScheduleTools /\ row \in Rows
      /\ toolCall \in [Calls -> Rows] /\ toolCall' = [toolCall EXCEPT ![c] = row]
      /\ toolCall'[c] = row /\ \A b \in Calls \ {c} : toolCall'[b] = toolCall[b]
      /\ toolCall[c].state = "none"
  BY Request DEF TypeOK, DeliveryInv, PlaceInv, Replayed, Stored, Rows, Terminal, Tools
<1>a. PICK x : x = EffectOf(d) OBVIOUS
<1>b. /\ x \in Effects /\ done' = done \cup {x}
      /\ x.call = c /\ x.tool = run[d].req.tool /\ x.args = run[d].req.args /\ x.by = d
  BY <1>a, Request DEF Happened, EffectOf
<1>c. \A b : FeishuDone(b)' <=> FeishuDone(b)
  BY <1>0, <1>b DEF FeishuDone, FeishuTools, ScheduleTools
<1>d. ASSUME NEW e \in done, e.tool \in ScheduleTools PROVE e.call # c
  <2>1. toolCall[e.call] =
            [state |-> "succeeded", tool |-> e.tool, args |-> e.args, ok |-> TRUE, by |-> e.by]
    BY <1>d, Zenon DEF DoneInv, EffectInv
  <2>2. toolCall[e.call].state = "succeeded" BY <2>1
  <2> QED BY <1>0, <2>2
<1>1. TypeOK' BY <1>0, <1>b DEF TypeOK, Moved, Counted
<1>2. DeliveryInv'
  <2>1. ASSUME NEW e \in Deliveries \ {d} PROVE LocalInv(e)'
    <3>1. run'[e] = run[e] BY DEF Moved
    <3>2. PlaceInv(e)' /\ OwnerInv(e)' BY <3>1 DEF DeliveryInv, PlaceInv, OwnerInv, Row
    <3>3. OutcomeInv(e)'
      <4>1. FeishuDone(run[e].req.call)' <=> FeishuDone(run[e].req.call)
        BY <1>0, <1>b, <3>1 DEF FeishuDone, FeishuTools, ScheduleTools
      <4>2. EffectOf(e)' = EffectOf(e) BY <3>1 DEF EffectOf
      <4> QED BY <1>b, <3>1, <4>1, <4>2 DEF DeliveryInv, OutcomeInv
    <3>4. ToldInv(e)' BY <1>b, <3>1 DEF DeliveryInv, ToldInv
    <3> QED BY <3>2, <3>3, <3>4 DEF LocalInv
  <2>2. PlaceInv(d)' /\ OwnerInv(d)' /\ OutcomeInv(d)' BY DEF PlaceInv, OwnerInv, OutcomeInv, Owning
  <2>3. ToldInv(d)'
    <3>1. KeyOf(x) = KeyOf(run'[d].req) BY <1>b DEF KeyOf, Moved
    <3> QED BY <1>b, <3>1 DEF ToldInv, Moved
  <2> QED BY <2>1, <2>2, <2>3 DEF DeliveryInv, LocalInv
<1>3. OneOwner' BY DEF OneOwner, Moved, Owning
<1>4. CallInv'
  <2>1. \A b \in Calls : ActionInv(b)' BY <1>c DEF CallInv, ActionInv
  <2>2. \A b \in Calls \ {c} : ToolCallInv(b)' BY <1>0 DEF CallInv, ToolCallInv
  <2>3. /\ toolCall'[c].state = "succeeded" /\ toolCall'[c].tool \in ScheduleTools
        /\ toolCall'[c].by \in Deliveries
    BY <1>0
  <2> QED BY <2>1, <2>2, <2>3 DEF CallInv, ToolCallInv
<1>5. DoneInv'
  <2>1. EffectInv(x)' BY <1>0, <1>b DEF EffectInv, FeishuTools, ScheduleTools
  <2>2. ASSUME NEW e \in done PROVE EffectInv(e)'
    <3>1. e.call \in Calls BY DEF TypeOK, Effects
    <3> QED BY <1>0, <1>d, <3>1 DEF DoneInv, EffectInv
  <2> QED BY <1>b, <2>1, <2>2 DEF DoneInv
<1>6. OneEffect'
  <2>1. ASSUME NEW e \in done PROVE KeyOf(e) # KeyOf(x)
    <3>1. e.tool \in FeishuTools \cup ScheduleTools BY DEF TypeOK, Effects, Tools
    <3> QED BY <1>0, <1>b, <1>d, <3>1 DEF KeyOf, FeishuTools, ScheduleTools
  <2> QED BY <1>b, <2>1 DEF OneEffect
<1>7. RowsAreTrue'
  <2>1. [call |-> c, tool |-> row.tool, args |-> row.args, by |-> row.by] = x BY <1>a DEF EffectOf
  <2>2. ASSUME NEW b \in Calls
        PROVE  \A r \in {action'[b], toolCall'[b]} : r.state = "succeeded" =>
                  [call |-> b, tool |-> r.tool, args |-> r.args, by |-> r.by] \in done'
    <3>1. \A r \in {action[b], toolCall[b]} : r.state = "succeeded" =>
              [call |-> b, tool |-> r.tool, args |-> r.args, by |-> r.by] \in done
      BY DEF RowsAreTrue
    <3>2. CASE b = c BY <1>0, <1>b, <2>1, <3>1, <3>2
    <3>3. CASE b # c BY <1>0, <1>b, <3>1, <3>3
    <3> QED BY <3>2, <3>3
  <2>3. ASSUME NEW b \in Calls, action[b].state \in {"rejected", "cancelled_before_send"}
        PROVE  \A e \in done' : e.call = b => e.tool \in ScheduleTools \cup {"doc"}
    BY <1>0, <1>b, <2>3 DEF RowsAreTrue
  <2> QED BY <2>2, <2>3 DEF RowsAreTrue
<1> QED BY <1>1, <1>2, <1>3, <1>4, <1>5, <1>6, <1>7
-----------------------------------------------------------------------------
(* The actions.                                                            *)

\* A disturbance that is counted, or none.
LEMMA Counting == TypeOK /\ (Disturb \/ Calm) => Counted
BY RequestsAssumption DEF TypeOK, Disturb, Calm, Counted

\* A delivery that is answered with a failure claims nothing.
LEMMA FailStep ==
    ASSUME IInv, NEW d \in Deliveries, Fail(d), Counted, run[d].pc # "idle",
           UNCHANGED <<action, toolCall, task, done>>
    PROVE  IInv'
<1>1. Moved(d) /\ run'[d].pc = "answered" /\ ~run'[d].ok BY Moves DEF IInv
<1>2. LocalInv(d)' BY <1>1 DEF LocalInv, PlaceInv, OwnerInv, OutcomeInv, ToldInv, Owning
<1> QED BY <1>1, <1>2, QuietStep DEF Owning

\* A request arrives.
LEMMA DeliverStep ==
    ASSUME IInv, NEW d \in Deliveries, NEW r \in Requests, Deliver(d, r)
    PROVE  IInv'
<1> USE DEF IInv, Deliver
<1>1. r.tool \in Tools BY RequestsAssumption
<1>2. /\ run \in [Deliveries -> Progress] /\ run' \in [Deliveries -> Progress]
      /\ \A e \in Deliveries \ {d} : run'[e] = run[e]
      /\ run'[d].pc = IF r.tool \in ScheduleTools THEN "check" ELSE "replay"
      /\ run'[d].req = r
  <2> DEFINE p == IF r.tool \in ScheduleTools THEN "check" ELSE "replay"
  <2> DEFINE q == [run[d] EXCEPT !.pc = p, !.req = r]
  <2>1. run \in [Deliveries -> Progress] BY DEF TypeOK
  <2>2. q \in Progress /\ q.pc = p /\ q.req = r BY <2>1 DEF Progress
  <2>3. run' = [run EXCEPT ![d] = q] BY <2>1
  <2> HIDE DEF q
  <2> QED BY <2>1, <2>2, <2>3
<1>3. TypeOK' BY <1>2 DEF TypeOK
<1>4. DeliveryInv'
  <2>1. ASSUME NEW e \in Deliveries \ {d} PROVE LocalInv(e)'
    BY <1>2 DEF LocalInv, DeliveryInv, PlaceInv, OwnerInv, OutcomeInv, ToldInv, Row, EffectOf, FeishuDone
  <2>2. LocalInv(d)'
    BY <1>1, <1>2 DEF LocalInv, PlaceInv, OwnerInv, OutcomeInv, ToldInv, Owning, Tools
  <2> QED BY <2>1, <2>2 DEF DeliveryInv, LocalInv
<1>5. OneOwner' BY <1>2 DEF OneOwner, Owning
<1>6. CallInv' BY DEF CallInv, ActionInv, ToolCallInv, FeishuDone
<1>7. DoneInv' /\ OneEffect' BY DEF DoneInv, EffectInv, OneEffect
<1>8. RowsAreTrue' BY DEF RowsAreTrue
<1>9. TasksMatchLedger' /\ UpdateInv' BY DEF TasksMatchLedger, UpdateInv, Updates
<1> QED BY <1>3, <1>4, <1>5, <1>6, <1>7, <1>8, <1>9

\* A finished action is answered from its row, which is true.
LEMMA GetCompletedActionStep ==
    ASSUME IInv, NEW d \in Deliveries, GetCompletedAction(d)
    PROVE  IInv'
<1> USE DEF IInv, GetCompletedAction, FeishuUnchanged
<1>0. Counted /\ run[d].pc # "idle" /\ Row(d) \in Rows /\ run[d].req.call \in Calls BY Counting, Request
<1>1. CASE Fail(d) BY <1>0, <1>1, FailStep
<1>2. CASE Row(d).state \notin Terminal /\ Goto(d, "claim")
  <2>1. Moved(d) /\ run'[d].pc = "claim" BY <1>2, Moves
  <2>2. LocalInv(d)'
    BY <2>1 DEF LocalInv, DeliveryInv, PlaceInv, OwnerInv, OutcomeInv, ToldInv, Owning, Moved
  <2> QED BY <1>0, <2>1, <2>2, QuietStep DEF Owning
<1>3. CASE Row(d).state \in Terminal /\ Answer(d, SameCall(Row(d), run[d].req) /\ Row(d).ok, Row(d).by)
  <2>1. /\ Moved(d) /\ run'[d].pc = "answered"
        /\ run'[d].ok <=> SameCall(Row(d), run[d].req) /\ Row(d).ok
        /\ run'[d].by = Row(d).by
    BY <1>0, <1>3, Moves DEF Rows
  <2>2. ASSUME run'[d].ok
        PROVE  \E e \in done : KeyOf(e) = KeyOf(run[d].req) /\ e.args = run[d].req.args /\ e.by = Row(d).by
    <3>1. SameCall(Row(d), run[d].req) /\ Row(d).state = "succeeded"
      BY <1>0, <2>1, <2>2 DEF CallInv, ActionInv, Row
    <3> DEFINE e == [call |-> run[d].req.call, tool |-> Row(d).tool, args |-> Row(d).args, by |-> Row(d).by]
    <3>2. e \in done BY <1>0, <3>1 DEF RowsAreTrue, Row
    <3>3. KeyOf(e) = KeyOf(run[d].req) /\ e.args = run[d].req.args BY <3>1 DEF KeyOf, SameCall
    <3> QED BY <3>2, <3>3
  <2>3. ToldInv(d)' BY <2>1, <2>2 DEF ToldInv, Moved
  <2>4. LocalInv(d)' BY <2>1, <2>3 DEF LocalInv, PlaceInv, OwnerInv, OutcomeInv, Owning
  <2> QED BY <1>0, <2>1, <2>4, QuietStep DEF Owning
<1> QED BY <1>1, <1>2, <1>3

\* The row is inserted by the first delivery only.
LEMMA ClaimActionStep ==
    ASSUME IInv, NEW d \in Deliveries, ClaimAction(d)
    PROVE  IInv'
<1> USE DEF IInv
<1>0. /\ Counted /\ run[d].pc = "claim" /\ UNCHANGED <<toolCall, task, done>>
      /\ run[d].req.call \in Calls /\ run[d].req.tool \in Tools /\ run[d].req.args \in Nat
  BY Counting, Request DEF ClaimAction, FeishuUnchanged, Statement
<1>1. CASE Fail(d) /\ UNCHANGED action BY <1>0, <1>1, FailStep
<1>2. CASE Row(d).state = "none" /\ SetRow(d, Claimed(d)) /\ (Goto(d, "claimed") \/ Fail(d))
  <2>1. /\ Moved(d) /\ run'[d].pc \in {"claimed", "answered"}
        /\ run'[d].pc = "answered" => ~run'[d].ok
    BY <1>2, Moves
  <2>2. Claimed(d) \in Rows BY <1>0 DEF Claimed, Rows, NoOne
  <2>3. /\ Claimed(d).state = "claimed" /\ ~Claimed(d).ok
        /\ SameCall(Claimed(d), run[d].req)
    BY DEF Claimed, SameCall
  <2>4. ~FeishuDone(run[d].req.call) BY <1>0, <1>2 DEF CallInv, ActionInv, Row
  <2>5. Row(d)' = Claimed(d) BY <1>0, <1>2, <2>1 DEF SetRow, Row, Moved, TypeOK
  <2>6. LocalInv(d)'
    <3>1. PlaceInv(d)' BY <1>0, <2>1 DEF DeliveryInv, PlaceInv, Owning, Moved
    <3>2. OwnerInv(d)' BY <2>1, <2>3, <2>5 DEF OwnerInv, Owning, SameCall, Moved
    <3>3. OutcomeInv(d)' /\ ToldInv(d)' BY <2>1 DEF OutcomeInv, ToldInv
    <3> QED BY <3>1, <3>2, <3>3 DEF LocalInv
  <2> HIDE DEF IInv
  <2> QED BY <1>0, <1>2, <2>1, <2>2, <2>3, <2>4, <2>6, RowStep
<1> QED BY <1>1, <1>2 DEF ClaimAction, Statement

\* The checks before the request.
LEMMA ValidateStep ==
    ASSUME IInv, NEW d \in Deliveries, Validate(d)
    PROVE  IInv'
<1> USE DEF IInv, Validate, FeishuUnchanged
<1>0. Counted /\ run[d].pc = "claimed" BY DEF TypeOK, Counted
<1>1. /\ Moved(d)
      /\ \/ run'[d].pc = "start"
         \/ run'[d].pc = "complete" /\ ~run'[d].ok /\ run'[d].state \in {"rejected", "cancelled_before_send"}
  BY Moves DEF Terminal
<1>2. ~FeishuDone(run[d].req.call) /\ Row(d).state = "claimed" /\ SameCall(Row(d), run[d].req)
  BY <1>0, Request DEF CallInv, ActionInv, Row, DeliveryInv, OwnerInv, Owning
<1>3. Row(d)' = Row(d) /\ (FeishuDone(run[d].req.call)' <=> FeishuDone(run[d].req.call))
  BY <1>1 DEF Row, Moved, FeishuDone
<1>4. PlaceInv(d)' BY <1>0, <1>1 DEF DeliveryInv, PlaceInv, Owning, Moved
<1>5. OwnerInv(d)' BY <1>1, <1>2, <1>3 DEF OwnerInv, SameCall, Moved
<1>6. OutcomeInv(d)' /\ ToldInv(d)'
  BY <1>1, <1>2, <1>3 DEF OutcomeInv, ToldInv, Terminal, Moved
<1> QED BY <1>0, <1>1, <1>4, <1>5, <1>6, QuietStep DEF LocalInv, Owning

\* The row is in_flight before the request leaves.
LEMMA StartActionStep ==
    ASSUME IInv, NEW d \in Deliveries, StartAction(d)
    PROVE  IInv'
<1> USE DEF IInv
<1>0. /\ Counted /\ run[d].pc = "start" /\ UNCHANGED <<toolCall, task, done>>
      /\ run[d].req.call \in Calls /\ Row(d) \in Rows
      /\ ~FeishuDone(run[d].req.call) /\ Row(d).state = "claimed" /\ SameCall(Row(d), run[d].req)
  BY Counting, Request
     DEF StartAction, FeishuUnchanged, Statement, CallInv, ActionInv, Row, DeliveryInv, OwnerInv, Owning
<1>1. /\ Moved(d)
      /\ \/ run'[d].pc = "request"
         \/ run'[d].pc = "complete" /\ ~run'[d].ok /\ run'[d].state = "unknown"
  BY Moves DEF StartAction, Statement, Terminal
<1>2. PlaceInv(d)' BY <1>0, <1>1 DEF DeliveryInv, PlaceInv, Owning, Moved
<1>3. FeishuDone(run[d].req.call)' <=> FeishuDone(run[d].req.call) BY <1>0, <1>1 DEF Moved, FeishuDone
<1>4. OutcomeInv(d)' /\ ToldInv(d)' BY <1>0, <1>1, <1>3 DEF OutcomeInv, ToldInv, Terminal, Moved
<1>5. CASE UNCHANGED action /\ Outcome(d, FALSE, "unknown")
  <2>1. run'[d].pc = "complete" BY <1>5, Moves DEF Terminal
  <2>2. OwnerInv(d)' BY <1>0, <1>1, <1>5, <2>1 DEF OwnerInv, SameCall, Moved, Row
  <2> QED BY <1>0, <1>1, <1>2, <1>4, <1>5, <2>1, <2>2, QuietStep DEF LocalInv, Owning
<1>6. CASE SetRow(d, [Row(d) EXCEPT !.state = "in_flight"])
  <2> DEFINE row == [Row(d) EXCEPT !.state = "in_flight"]
  <2>1. /\ row \in Rows /\ row.state = "in_flight" /\ row.tool = Row(d).tool /\ row.args = Row(d).args
        /\ row.ok = Row(d).ok
    BY <1>0 DEF Rows
  <2>2. row.ok <=> row.state = "succeeded" BY <1>0, <2>1 DEF CallInv, ActionInv, Row
  <2>3. Row(d)' = row BY <1>0, <1>1, <1>6 DEF SetRow, Row, Moved, TypeOK
  <2> HIDE DEF row
  <2>4. SameCall(row, run[d].req) BY <1>0, <2>1 DEF SameCall
  <2>5. OwnerInv(d)' BY <1>1, <2>1, <2>3, <2>4 DEF OwnerInv, SameCall, Moved
  <2>6. SetRow(d, row) BY <1>6 DEF row
  <2>7. LocalInv(d)' BY <1>2, <1>4, <2>5 DEF LocalInv
  <2> HIDE DEF IInv
  <2> QED BY <1>0, <1>1, <2>1, <2>2, <2>4, <2>6, <2>7, RowStep DEF Owning
<1> QED BY <1>5, <1>6 DEF StartAction, Statement

\* What the owner of a row knows while its request is under way.
LEMMA RequestFacts ==
    ASSUME IInv, NEW d \in Deliveries, run[d].pc \in {"request", "content", "announce"}
    PROVE  /\ run[d].req.call \in Calls /\ run[d].req.tool \in FeishuTools
           /\ Row(d).state = "in_flight" /\ SameCall(Row(d), run[d].req)
BY Request DEF IInv, DeliveryInv, PlaceInv, OwnerInv, Owning

\* The request of a message, a file or a read is answered, or not.
LEMMA SendOnceStep ==
    ASSUME IInv, NEW d \in Deliveries, SendOnce(d)
    PROVE  IInv'
<1> USE DEF IInv
<1>0. /\ Counted /\ run[d].pc = "request" /\ UNCHANGED <<action, toolCall, task>>
      /\ run[d].req.tool \in FeishuTools /\ run[d].req.tool # "doc"
      /\ Row(d).state = "in_flight" /\ SameCall(Row(d), run[d].req) /\ ~FeishuDone(run[d].req.call)
  BY RequestFacts DEF SendOnce, FeishuUnchanged, TypeOK, Counted, DeliveryInv, OutcomeInv
<1>1. /\ Moved(d) /\ run'[d].pc = "complete"
      /\ \/ Happened(d) /\ run'[d].ok /\ run'[d].state = "succeeded"
         \/ Happened(d) /\ ~run'[d].ok /\ run'[d].state = "unknown"
         \/ UNCHANGED done /\ ~run'[d].ok /\ run'[d].state \in {"rejected", "unknown"}
  BY Moves DEF SendOnce, Terminal
<1>2. PlaceInv(d)' /\ OwnerInv(d)' /\ ToldInv(d)'
  BY <1>0, <1>1 DEF PlaceInv, OwnerInv, ToldInv, SameCall, Row, Moved
<1>3. CASE UNCHANGED done /\ ~run'[d].ok /\ run'[d].state \in {"rejected", "unknown"}
  <2>1. OutcomeInv(d)' BY <1>0, <1>1, <1>3 DEF OutcomeInv, FeishuDone, Terminal, Moved
  <2> QED BY <1>0, <1>1, <1>2, <1>3, <2>1, QuietStep DEF LocalInv, Owning
<1>4. CASE /\ Happened(d)
           /\ (run'[d].ok /\ run'[d].state = "succeeded") \/ (~run'[d].ok /\ run'[d].state = "unknown")
  <2>1. (EffectOf(d) \in done)' BY <1>1, <1>4 DEF Happened, EffectOf, Moved
  <2>2. OutcomeInv(d)' BY <1>1, <1>4, <2>1 DEF OutcomeInv, Terminal
  <2> QED BY <1>0, <1>1, <1>2, <1>4, <2>2, EffectStep DEF LocalInv
<1> QED BY <1>1, <1>3, <1>4

\* The document is created, or not.
LEMMA CreateDocumentStep ==
    ASSUME IInv, NEW d \in Deliveries, CreateDocument(d)
    PROVE  IInv'
<1> USE DEF IInv
<1>0. /\ Counted /\ run[d].pc = "request" /\ UNCHANGED <<action, toolCall, task>>
      /\ run[d].req.tool = "doc" /\ run[d].req.tool \in FeishuTools
      /\ Row(d).state = "in_flight" /\ SameCall(Row(d), run[d].req) /\ ~FeishuDone(run[d].req.call)
  BY RequestFacts DEF CreateDocument, FeishuUnchanged, TypeOK, Counted, DeliveryInv, OutcomeInv
<1>1. /\ Moved(d)
      /\ \/ Happened(d) /\ run'[d].pc = "content"
         \/ Happened(d) /\ run'[d].pc = "complete" /\ ~run'[d].ok /\ run'[d].state = "unknown"
         \/ UNCHANGED done /\ run'[d].pc = "complete" /\ ~run'[d].ok /\ run'[d].state \in {"rejected", "unknown"}
  BY Moves DEF CreateDocument, Terminal
<1>2. PlaceInv(d)' /\ OwnerInv(d)' /\ ToldInv(d)'
  BY <1>0, <1>1 DEF PlaceInv, OwnerInv, ToldInv, SameCall, Row, Moved
<1>3. CASE UNCHANGED done /\ run'[d].pc = "complete" /\ ~run'[d].ok /\ run'[d].state \in {"rejected", "unknown"}
  <2>1. OutcomeInv(d)' BY <1>0, <1>1, <1>3 DEF OutcomeInv, Terminal, Moved
  <2> QED BY <1>0, <1>1, <1>2, <1>3, <2>1, QuietStep DEF LocalInv, Owning
<1>4. CASE /\ Happened(d)
           /\ \/ run'[d].pc = "content"
              \/ run'[d].pc = "complete" /\ ~run'[d].ok /\ run'[d].state = "unknown"
  <2>1. (EffectOf(d) \in done)' BY <1>1, <1>4 DEF Happened, EffectOf, Moved
  <2>2. OutcomeInv(d)' BY <1>4, <2>1 DEF OutcomeInv, Terminal
  <2> QED BY <1>0, <1>1, <1>2, <1>4, <2>2, EffectStep DEF LocalInv
<1> QED BY <1>1, <1>3, <1>4

\* The content is written, or not.
LEMMA WriteContentStep ==
    ASSUME IInv, NEW d \in Deliveries, WriteContent(d)
    PROVE  IInv'
<1> USE DEF IInv
<1>0. /\ Counted /\ run[d].pc = "content" /\ UNCHANGED <<action, toolCall, task, done>>
      /\ run[d].req.tool = "doc" /\ EffectOf(d) \in done
      /\ Row(d).state = "in_flight" /\ SameCall(Row(d), run[d].req)
  BY RequestFacts
     DEF WriteContent, FeishuUnchanged, TypeOK, Counted, DeliveryInv, OutcomeInv, PlaceInv
<1>1. PICK written \in BOOLEAN : run' = [run EXCEPT ![d].pc = "announce", ![d].written = written]
  BY DEF WriteContent
<1>2. Moved(d) /\ run'[d].pc = "announce"
  <2> DEFINE q == [run[d] EXCEPT !.pc = "announce", !.written = written]
  <2>1. run \in [Deliveries -> Progress] BY DEF TypeOK
  <2>2. q \in Progress BY <2>1, Zenon DEF Progress
  <2>3. q.pc = "announce" /\ q.req = run[d].req BY <2>1 DEF Progress
  <2>4. run' = [run EXCEPT ![d] = q] BY <1>1, <2>1
  <2> HIDE DEF q
  <2> QED BY <2>1, <2>2, <2>3, <2>4 DEF Moved
<1>3. EffectOf(d)' = EffectOf(d) /\ Row(d)' = Row(d) BY <1>0, <1>2 DEF EffectOf, Row, Moved
<1>4. LocalInv(d)'
  BY <1>0, <1>2, <1>3 DEF LocalInv, PlaceInv, OwnerInv, OutcomeInv, ToldInv, SameCall, Owning, Moved, FeishuTools
<1> QED BY <1>0, <1>2, <1>4, QuietStep DEF Owning

\* The URL is announced, or not.
LEMMA AnnounceDocumentStep ==
    ASSUME IInv, NEW d \in Deliveries, AnnounceDocument(d)
    PROVE  IInv'
<1> USE DEF IInv
<1>0. /\ Counted /\ run[d].pc = "announce" /\ UNCHANGED <<action, toolCall, task, done>>
      /\ run[d].req.tool = "doc" /\ EffectOf(d) \in done
      /\ Row(d).state = "in_flight" /\ SameCall(Row(d), run[d].req)
  BY RequestFacts
     DEF AnnounceDocument, FeishuUnchanged, TypeOK, Counted, DeliveryInv, OutcomeInv, PlaceInv
<1>1. /\ Moved(d) /\ run'[d].pc = "complete" /\ run'[d].state \in Terminal
      /\ run'[d].ok <=> run'[d].state = "succeeded"
  BY Moves DEF AnnounceDocument, Terminal
<1>2. EffectOf(d)' = EffectOf(d) /\ Row(d)' = Row(d) BY <1>0, <1>1 DEF EffectOf, Row, Moved
<1>3. PlaceInv(d)' /\ OwnerInv(d)' /\ ToldInv(d)'
  BY <1>0, <1>1, <1>2 DEF PlaceInv, OwnerInv, ToldInv, SameCall, Owning, Moved, FeishuTools
<1>4. OutcomeInv(d)' BY <1>0, <1>1, <1>2 DEF OutcomeInv, Moved
<1> QED BY <1>0, <1>1, <1>3, <1>4, QuietStep DEF LocalInv, Owning

\* The outcome is recorded; the success that is answered is the recorded one.
LEMMA CompleteActionStep ==
    ASSUME IInv, NEW d \in Deliveries, CompleteAction(d)
    PROVE  IInv'
<1> USE DEF IInv
<1>0. /\ Counted /\ run[d].pc = "complete" /\ UNCHANGED <<toolCall, task, done>>
      /\ run[d].req.call \in Calls /\ Row(d) \in Rows /\ run[d].ok \in BOOLEAN
      /\ SameCall(Row(d), run[d].req)
  BY Counting, Request
     DEF CompleteAction, FeishuUnchanged, Statement, DeliveryInv, OwnerInv, Owning, TypeOK, Progress
<1>1. /\ run[d].state \in Terminal
      /\ run[d].ok <=> run[d].state = "succeeded"
      /\ run[d].ok => EffectOf(d) \in done
      /\ run[d].state \in {"rejected", "cancelled_before_send"} =>
            run[d].req.tool = "doc" \/ ~FeishuDone(run[d].req.call)
  BY <1>0 DEF DeliveryInv, OutcomeInv
<1>2. CASE Fail(d) /\ UNCHANGED action BY <1>0, <1>2, FailStep
<1>3. CASE SetRow(d, Recorded(d)) /\ (Answer(d, run[d].ok, Recorded(d).by) \/ Fail(d))
  <2>1. /\ Recorded(d) \in Rows
        /\ Recorded(d).state = run[d].state /\ Recorded(d).ok = run[d].ok
        /\ Recorded(d).tool = Row(d).tool /\ Recorded(d).args = Row(d).args
        /\ Recorded(d).by = IF run[d].ok THEN d ELSE NoOne
    <3> DEFINE by == IF run[d].ok THEN d ELSE NoOne
    <3>1. by \in Deliveries \cup {NoOne} OBVIOUS
    <3> HIDE DEF by
    <3>2. [Row(d) EXCEPT !.state = run[d].state, !.ok = run[d].ok, !.by = by] \in Rows
      BY <1>0, <1>1, <3>1, Zenon DEF Rows
    <3>3. LET row == [Row(d) EXCEPT !.state = run[d].state, !.ok = run[d].ok, !.by = by]
          IN  row.state = run[d].state /\ row.ok = run[d].ok /\ row.tool = Row(d).tool
              /\ row.args = Row(d).args /\ row.by = by
      BY <1>0 DEF Rows
    <3> QED BY <3>2, <3>3 DEF Recorded, by
  <2>2. /\ Moved(d) /\ run'[d].pc = "answered"
        /\ run'[d].ok => run[d].ok /\ run'[d].by = d
    BY <1>0, <1>3, <2>1, Moves DEF NoOne
  <2>3. ToldInv(d)'
    <3>1. KeyOf(EffectOf(d)) = KeyOf(run'[d].req) /\ EffectOf(d).args = run'[d].req.args /\ EffectOf(d).by = d
      BY <2>2 DEF KeyOf, EffectOf, Moved
    <3> QED BY <1>0, <1>1, <2>2, <3>1 DEF ToldInv
  <2>4. LocalInv(d)' BY <2>2, <2>3 DEF LocalInv, PlaceInv, OwnerInv, OutcomeInv, Owning
  <2>5. SameCall(Recorded(d), run[d].req) BY <1>0, <2>1 DEF SameCall
  <2>6. Recorded(d).state = "succeeded" =>
            [call |-> run[d].req.call, tool |-> Recorded(d).tool, args |-> Recorded(d).args,
             by |-> Recorded(d).by] \in done
    BY <1>1, <2>1, <2>5 DEF EffectOf, SameCall
  <2>7. Recorded(d).ok <=> Recorded(d).state = "succeeded" BY <1>1, <2>1
  <2>8. Recorded(d).state \notin {"none", "claimed"} BY <1>1, <2>1 DEF Terminal
  <2> HIDE DEF IInv
  <2> QED BY <1>0, <1>1, <1>3, <2>1, <2>2, <2>4, <2>5, <2>6, <2>7, <2>8, RowStep DEF Owning
<1> QED BY <1>2, <1>3 DEF CompleteAction, Statement

\* The checks of a schedule tool before the ledger is looked at.
LEMMA CheckedStep ==
    ASSUME IInv, NEW d \in Deliveries, create(d) \/ list(d) \/ update(d)
    PROVE  IInv'
<1> USE DEF IInv, create, list, update, Checked
<1>0. Counted /\ run[d].pc = "check" /\ UNCHANGED <<action, toolCall, task, done>> BY DEF TypeOK, Counted
<1>1. CASE Fail(d) BY <1>0, <1>1, FailStep
<1>2. CASE Goto(d, "transaction")
  <2>1. Moved(d) /\ run'[d].pc = "transaction" BY <1>2, Moves
  <2>2. LocalInv(d)'
    BY <1>0, <2>1 DEF LocalInv, DeliveryInv, PlaceInv, OwnerInv, OutcomeInv, ToldInv, Owning, Moved
  <2> QED BY <1>0, <2>1, <2>2, QuietStep DEF Owning
<1> QED BY <1>1, <1>2

\* A transaction that replays its row, is refused or fails.
LEMMA NoCommitStep ==
    ASSUME IInv, NEW d \in Deliveries, run[d].pc = "transaction", Counted,
           UNCHANGED <<action, toolCall, task, done>>,
           \/ Fail(d)
           \/ Replayed(d) /\ Answer(d, Stored(d).args = run[d].req.args, Stored(d).by)
    PROVE  IInv'
<1> USE DEF IInv
<1>1. CASE Fail(d) BY <1>1, FailStep
<1>2. CASE Replayed(d) /\ Answer(d, Stored(d).args = run[d].req.args, Stored(d).by)
  <2>0. Stored(d) \in Rows /\ run[d].req.call \in Calls /\ run[d].req.tool \in ScheduleTools
    BY Request DEF DeliveryInv, PlaceInv
  <2>1. /\ Moved(d) /\ run'[d].pc = "answered"
        /\ run'[d].ok <=> Stored(d).args = run[d].req.args
        /\ run'[d].by = Stored(d).by
    BY <1>2, <2>0, Moves DEF Rows
  <2>2. Stored(d).state = "succeeded" /\ Stored(d).tool \in ScheduleTools
    BY <1>2, <2>0 DEF Replayed, Stored, CallInv, ToolCallInv, NoRow
  <2> DEFINE e == [call |-> run[d].req.call, tool |-> Stored(d).tool, args |-> Stored(d).args, by |-> Stored(d).by]
  <2>3. e \in done BY <2>0, <2>2 DEF RowsAreTrue, Stored
  <2>4. KeyOf(e) = KeyOf(run[d].req) BY <2>0, <2>2 DEF KeyOf, FeishuTools, ScheduleTools
  <2>5. ToldInv(d)' BY <2>1, <2>3, <2>4 DEF ToldInv, Moved
  <2>6. LocalInv(d)' BY <2>1, <2>5 DEF LocalInv, PlaceInv, OwnerInv, OutcomeInv, Owning
  <2> QED BY <2>1, <2>6, QuietStep DEF Owning
<1> QED BY <1>1, <1>2

\* What a commit does to the row of its call.
LEMMA CommitFacts ==
    ASSUME IInv, NEW d \in Deliveries, run[d].pc = "transaction", ~Replayed(d), NEW change, Commit(d, change)
    PROVE  /\ change /\ Happened(d) /\ run[d].req.call \in Calls
           /\ toolCall[run[d].req.call].tool = "none"
           /\ toolCall'[run[d].req.call].tool = run[d].req.tool
           /\ toolCall'[run[d].req.call].by = d
           /\ toolCall'[run[d].req.call].args = run[d].req.args
           /\ \A b \in Calls \ {run[d].req.call} : toolCall'[b] = toolCall[b]
BY Request DEF IInv, Commit, Replayed, Stored, CallInv, ToolCallInv, NoRow, TypeOK

\* A delivery that committed is answered with its own result or with a failure.
LEMMA CommitAnswer ==
    ASSUME IInv, NEW d \in Deliveries, Answer(d, TRUE, d) \/ Fail(d)
    PROVE  Moved(d) /\ run'[d].pc = "answered" /\ (run'[d].ok => run'[d].by = d)
BY Moves DEF IInv

\* scheduled_task_create: the quota, then the task under a fresh identity.
LEMMA CreateTaskStep ==
    ASSUME IInv, NEW d \in Deliveries, CreateTaskForToolCall(d)
    PROVE  IInv'
<1> DEFINE c == run[d].req.call
<1> USE DEF CreateTaskForToolCall, Transaction, Statement
<1>0. Counted /\ UNCHANGED action /\ run[d].pc = "transaction" /\ run[d].req.tool = "create"
  BY Counting DEF IInv
<1>1. CASE /\ UNCHANGED <<toolCall, task, done>>
           /\ Fail(d) \/ (Replayed(d) /\ Answer(d, Stored(d).args = run[d].req.args, Stored(d).by))
  BY <1>0, <1>1, NoCommitStep
<1>2. CASE ~Replayed(d) /\ Commit(d, createTaskExec(d)) /\ (Answer(d, TRUE, d) \/ Fail(d))
  <2>1. /\ createTaskExec(d) /\ Happened(d) /\ c \in Calls
        /\ toolCall[c].tool = "none" /\ toolCall'[c].tool = "create" /\ toolCall'[c].by = d
        /\ \A b \in Calls \ {c} : toolCall'[b] = toolCall[b]
    BY <1>0, <1>2, CommitFacts
  <2>2. /\ DOMAIN task' = DOMAIN task \cup {d} /\ task'[Seed] = task[Seed]
        /\ task' \in [DOMAIN task' -> Tasks]
    BY <2>1, Constants DEF IInv, TypeOK, createTaskExec, Tasks
  <2>3. Updates' = Updates BY <2>1 DEF Updates
  <2>4. TasksMatchLedger'
    <3>1. {b \in Calls : toolCall'[b].tool = "create"} = {b \in Calls : toolCall[b].tool = "create"} \cup {c}
      BY <2>1
    <3>2. {toolCall'[b].by : b \in {a \in Calls : toolCall'[a].tool = "create"}}
            = {toolCall[b].by : b \in {a \in Calls : toolCall[a].tool = "create"}} \cup {d}
      BY <2>1, <3>1
    <3>3. DOMAIN task' \ {Seed} = (DOMAIN task \ {Seed}) \cup {d} BY <2>2, Constants
    <3> QED BY <2>2, <2>3, <3>2, <3>3 DEF TasksMatchLedger, IInv, Updates
  <2>5. UpdateInv'
    <3>1. \A b \in Updates : toolCall'[b] = toolCall[b] BY <2>1 DEF Updates
    <3> QED BY <2>2, <2>3, <3>1 DEF UpdateInv, IInv
  <2>6. Seed \in DOMAIN task' /\ DOMAIN task' \subseteq Deliveries \cup {Seed} BY <2>2 DEF IInv, TypeOK
  <2>7. Moved(d) /\ run'[d].pc = "answered" /\ (run'[d].ok => run'[d].by = d) BY <1>2, CommitAnswer
  <2>8. toolCall' = [toolCall EXCEPT ![c] = [state |-> "succeeded", tool |-> run[d].req.tool,
                                             args |-> run[d].req.args, ok |-> TRUE, by |-> d]]
    BY <1>2 DEF Commit
  <2> QED BY <1>0, <1>2, <2>1, <2>2, <2>4, <2>5, <2>6, <2>7, <2>8, CommitStep
<1> QED BY <1>1, <1>2

\* scheduled_task_update: the expected version is replaced by the next one.
LEMMA UpdateTaskStep ==
    ASSUME IInv, NEW d \in Deliveries, UpdateTaskForToolCall(d)
    PROVE  IInv'
<1> DEFINE c == run[d].req.call
<1> USE DEF UpdateTaskForToolCall, Transaction, Statement
<1>0. Counted /\ UNCHANGED action /\ run[d].pc = "transaction" /\ run[d].req.tool = "update"
  BY Counting DEF IInv
<1>1. CASE /\ UNCHANGED <<toolCall, task, done>>
           /\ Fail(d) \/ (Replayed(d) /\ Answer(d, Stored(d).args = run[d].req.args, Stored(d).by))
  BY <1>0, <1>1, NoCommitStep
<1>2. CASE /\ ~Replayed(d) /\ CurrentVersion(d)
           /\ Commit(d, updateTaskTx) /\ (Answer(d, TRUE, d) \/ Fail(d))
  <2>1. /\ updateTaskTx /\ Happened(d) /\ c \in Calls
        /\ toolCall[c].tool = "none" /\ toolCall'[c].tool = "update" /\ toolCall'[c].by = d
        /\ toolCall'[c].args = run[d].req.args
        /\ \A b \in Calls \ {c} : toolCall'[b] = toolCall[b]
    BY <1>0, <1>2, CommitFacts
  <2>2. task \in [DOMAIN task -> Tasks] /\ Seed \in DOMAIN task /\ task[Seed].version \in Nat
    BY DEF IInv, TypeOK, Tasks
  <2>3. /\ DOMAIN task' = DOMAIN task /\ task'[Seed].version = task[Seed].version + 1
        /\ task' \in [DOMAIN task' -> Tasks]
    <3> DEFINE row == [version |-> task[Seed].version + 1, enabled |-> ~task[Seed].enabled]
    <3>1. row \in Tasks /\ row.version = task[Seed].version + 1 BY <2>2 DEF Tasks
    <3>2. task' = [task EXCEPT ![Seed] = row] BY <2>1, <2>2 DEF updateTaskTx
    <3> HIDE DEF row
    <3> QED BY <2>2, <3>1, <3>2
  <2>4. Updates' = Updates \cup {c} /\ c \notin Updates BY <2>1 DEF Updates
  <2>5. /\ IsFiniteSet(Updates') /\ Cardinality(Updates') = Cardinality(Updates) + 1
        /\ Cardinality(Updates) \in Nat
    BY <2>4, FS_AddElement, FS_CardinalityType DEF IInv, UpdateInv
  <2>6. TasksMatchLedger'
    <3>1. {b \in Calls : toolCall'[b].tool = "create"} = {b \in Calls : toolCall[b].tool = "create"}
      BY <2>1
    <3>2. {toolCall'[b].by : b \in {a \in Calls : toolCall'[a].tool = "create"}}
            = {toolCall[b].by : b \in {a \in Calls : toolCall[a].tool = "create"}}
      BY <2>1, <3>1
    <3>3. task[Seed].version = 1 + Cardinality(Updates) BY DEF IInv, TasksMatchLedger, Updates
    <3>4. task'[Seed].version = 1 + Cardinality(Updates') BY <2>3, <2>5, <3>3
    <3> QED BY <2>3, <3>2, <3>4 DEF TasksMatchLedger, IInv, Updates
  <2>7. UpdateInv'
    <3>1. toolCall'[c].args = task[Seed].version BY <1>2, <2>1 DEF CurrentVersion
    <3>2. ASSUME NEW b \in Updates PROVE toolCall'[b].args < task'[Seed].version
      <4>1. toolCall[b].args < task[Seed].version /\ toolCall[b].args \in Nat
        BY DEF IInv, UpdateInv, Updates, TypeOK, Rows
      <4>2. toolCall'[b] = toolCall[b] BY <2>1, <2>4 DEF Updates
      <4> QED BY <2>2, <2>3, <4>1, <4>2
    <3>3. ASSUME NEW b \in Updates
          PROVE  toolCall'[b].args # toolCall'[c].args /\ toolCall'[b] = toolCall[b]
      <4>1. toolCall[b].args < task[Seed].version /\ toolCall[b].args \in Nat
        BY DEF IInv, UpdateInv, Updates, TypeOK, Rows
      <4>2. toolCall'[b] = toolCall[b] BY <2>1, <2>4 DEF Updates
      <4> QED BY <2>2, <3>1, <4>1, <4>2
    <3>4. \A a, b \in Updates' : toolCall'[a].args = toolCall'[b].args => a = b
      BY <2>4, <3>3 DEF IInv, UpdateInv
    <3> QED BY <2>2, <2>3, <2>4, <2>5, <3>1, <3>2, <3>4 DEF UpdateInv
  <2>8. Seed \in DOMAIN task' /\ DOMAIN task' \subseteq Deliveries \cup {Seed} BY <2>3 DEF IInv, TypeOK
  <2>9. Moved(d) /\ run'[d].pc = "answered" /\ (run'[d].ok => run'[d].by = d) BY <1>2, CommitAnswer
  <2>10. toolCall' = [toolCall EXCEPT ![c] = [state |-> "succeeded", tool |-> run[d].req.tool,
                                              args |-> run[d].req.args, ok |-> TRUE, by |-> d]]
    BY <1>2 DEF Commit
  <2> QED BY <1>0, <1>2, <2>1, <2>3, <2>6, <2>7, <2>8, <2>9, <2>10, CommitStep
<1> QED BY <1>1, <1>2

\* scheduled_task_list: a row, no change of a task.
LEMMA ListTasksStep ==
    ASSUME IInv, NEW d \in Deliveries, ListOwnedTasksForToolCall(d)
    PROVE  IInv'
<1> DEFINE c == run[d].req.call
<1> USE DEF ListOwnedTasksForToolCall, Transaction, Statement
<1>0. Counted /\ UNCHANGED action /\ run[d].pc = "transaction" /\ run[d].req.tool = "list"
  BY Counting DEF IInv
<1>1. CASE /\ UNCHANGED <<toolCall, task, done>>
           /\ Fail(d) \/ (Replayed(d) /\ Answer(d, Stored(d).args = run[d].req.args, Stored(d).by))
  BY <1>0, <1>1, NoCommitStep
<1>2. CASE ~Replayed(d) /\ Commit(d, UNCHANGED task) /\ (Answer(d, TRUE, d) \/ Fail(d))
  <2>1. /\ task' = task /\ Happened(d) /\ c \in Calls
        /\ toolCall[c].tool = "none" /\ toolCall'[c].tool = "list"
        /\ \A b \in Calls \ {c} : toolCall'[b] = toolCall[b]
    BY <1>0, <1>2, CommitFacts
  <2>2. Updates' = Updates BY <2>1 DEF Updates
  <2>3. TasksMatchLedger'
    <3>1. {b \in Calls : toolCall'[b].tool = "create"} = {b \in Calls : toolCall[b].tool = "create"}
      BY <2>1
    <3>2. {toolCall'[b].by : b \in {a \in Calls : toolCall'[a].tool = "create"}}
            = {toolCall[b].by : b \in {a \in Calls : toolCall[a].tool = "create"}}
      BY <2>1, <3>1
    <3> QED BY <2>1, <2>2, <3>2 DEF TasksMatchLedger, IInv, Updates
  <2>4. UpdateInv'
    <3>1. \A b \in Updates : toolCall'[b] = toolCall[b] BY <2>1 DEF Updates
    <3> QED BY <2>1, <2>2, <3>1 DEF UpdateInv, IInv
  <2>5. Moved(d) /\ run'[d].pc = "answered" /\ (run'[d].ok => run'[d].by = d) BY <1>2, CommitAnswer
  <2>6. toolCall' = [toolCall EXCEPT ![c] = [state |-> "succeeded", tool |-> run[d].req.tool,
                                             args |-> run[d].req.args, ok |-> TRUE, by |-> d]]
    BY <1>2 DEF Commit
  <2>7. /\ Seed \in DOMAIN task' /\ DOMAIN task' \subseteq Deliveries \cup {Seed}
        /\ task' \in [DOMAIN task' -> Tasks]
    BY <2>1 DEF IInv, TypeOK
  <2> QED BY <1>0, <1>2, <2>1, <2>3, <2>4, <2>5, <2>6, <2>7, CommitStep
<1> QED BY <1>1, <1>2

\* The turn of a delivery is cancelled.
LEMMA CancelTurnStep ==
    ASSUME IInv, NEW d \in Deliveries, CancelTurn(d)
    PROVE  IInv'
<1> USE DEF IInv
<1>0. Counted /\ run[d].pc \notin Ended /\ UNCHANGED <<action, toolCall, task, done>>
  BY Counting DEF CancelTurn, Running
<1>1. /\ Moved(d) /\ run'[d].pc = run[d].pc /\ run'[d].ok = run[d].ok /\ run'[d].state = run[d].state
  BY DEF CancelTurn, TypeOK, Progress, Moved
<1>2. Row(d)' = Row(d) /\ EffectOf(d)' = EffectOf(d) BY <1>0, <1>1 DEF Row, EffectOf, Moved
<1>3. PlaceInv(d)' /\ OwnerInv(d)' BY <1>1, <1>2 DEF DeliveryInv, PlaceInv, OwnerInv, Moved
<1>4. OutcomeInv(d)'
  BY <1>0, <1>1, <1>2 DEF DeliveryInv, OutcomeInv, FeishuDone, Moved
<1>5. ToldInv(d)' BY <1>0, <1>1 DEF ToldInv, Ended
<1> QED BY <1>0, <1>1, <1>3, <1>4, <1>5, QuietStep DEF LocalInv, Ended

\* The process dies: what ran is lost, the tables stay.
LEMMA CrashStep ==
    ASSUME IInv, Crash
    PROVE  IInv'
<1> USE DEF IInv
<1>0. Counted /\ UNCHANGED <<action, toolCall, task, done>> BY Counting DEF Crash
<1>1. /\ run' \in [Deliveries -> Progress]
      /\ \A d \in Deliveries : (run'[d].pc = "lost" /\ run'[d].req = run[d].req) \/ run'[d] = run[d]
      /\ \A d \in Deliveries : run'[d].pc = "lost" => run[d].pc # "idle"
  BY DEF Crash, Running, TypeOK, Progress, Ended
<1>2. TypeOK' BY <1>0, <1>1 DEF TypeOK, Counted
<1>3. DeliveryInv'
  <2>1. ASSUME NEW d \in Deliveries, run'[d].pc = "lost" PROVE LocalInv(d)'
    BY <2>1 DEF LocalInv, PlaceInv, OwnerInv, OutcomeInv, ToldInv, Owning
  <2>2. ASSUME NEW d \in Deliveries, run'[d] = run[d] PROVE LocalInv(d)'
    BY <1>0, <2>2 DEF LocalInv, DeliveryInv, PlaceInv, OwnerInv, OutcomeInv, ToldInv, Row, EffectOf, FeishuDone
  <2> QED BY <1>1, <2>1, <2>2 DEF DeliveryInv, LocalInv
<1>4. OneOwner' BY <1>1 DEF OneOwner, Owning
<1>5. CallInv' BY <1>0 DEF CallInv, ActionInv, ToolCallInv, FeishuDone
<1>6. DoneInv' /\ OneEffect' BY <1>0 DEF DoneInv, EffectInv, OneEffect
<1>7. RowsAreTrue' BY <1>0 DEF RowsAreTrue
<1>8. TasksMatchLedger' /\ UpdateInv' BY <1>0 DEF TasksMatchLedger, UpdateInv, Updates
<1> QED BY <1>2, <1>3, <1>4, <1>5, <1>6, <1>7, <1>8

-----------------------------------------------------------------------------
(* The theorems.                                                           *)

\* Every initial state satisfies the inductive invariant.
LEMMA InitInv == Init => IInv
<1> SUFFICES ASSUME Init PROVE IInv OBVIOUS
<1> USE DEF Init
<1>0. /\ \A c \in Calls : action[c] = NoRow /\ toolCall[c] = NoRow
      /\ \A d \in Deliveries : run[d].pc = "idle"
      /\ NoRow.state = "none" /\ NoRow.tool = "none" /\ ~NoRow.ok
      /\ DOMAIN task = {Seed} /\ task \in [{Seed} -> Tasks] /\ task[Seed].version = 1
  BY DEF Fresh, NoRow, Tasks
<1>1. TypeOK BY <1>0, Constants, RequestsAssumption DEF TypeOK
<1>2. DeliveryInv BY <1>0 DEF DeliveryInv, PlaceInv, OwnerInv, OutcomeInv, ToldInv, Owning
<1>3. OneOwner BY <1>0 DEF OneOwner, Owning
<1>4. CallInv BY <1>0 DEF CallInv, ActionInv, ToolCallInv, FeishuDone
<1>5. DoneInv /\ OneEffect BY DEF DoneInv, OneEffect
<1>6. RowsAreTrue BY <1>0 DEF RowsAreTrue
<1>7. Updates = {} /\ IsFiniteSet(Updates) /\ Cardinality(Updates) = 0
  BY <1>0, FS_EmptySet DEF Updates
<1>8. TasksMatchLedger BY <1>0, <1>7 DEF TasksMatchLedger, Updates
<1>9. UpdateInv BY <1>7 DEF UpdateInv
<1> QED BY <1>1, <1>2, <1>3, <1>4, <1>5, <1>6, <1>8, <1>9 DEF IInv

\* Every step keeps it.
LEMMA NextInv == IInv /\ [Next]_vars => IInv'
<1> SUFFICES ASSUME IInv, [Next]_vars PROVE IInv' OBVIOUS
<1>1. ASSUME NEW d \in Deliveries, Step(d) PROVE IInv'
  BY <1>1, GetCompletedActionStep, ClaimActionStep, ValidateStep, StartActionStep, SendOnceStep,
     CreateDocumentStep, WriteContentStep, AnnounceDocumentStep, CompleteActionStep, CheckedStep,
     CreateTaskStep, UpdateTaskStep, ListTasksStep DEF Step
<1>2. CASE Next BY <1>1, <1>2, DeliverStep, CancelTurnStep, CrashStep DEF Next
<1>3. CASE UNCHANGED vars
  <2> USE <1>3 DEF vars, IInv
  <2>1. TypeOK' BY DEF TypeOK
  <2>2. DeliveryInv'
    BY DEF DeliveryInv, PlaceInv, OwnerInv, OutcomeInv, ToldInv, Row, EffectOf, FeishuDone
  <2>3. OneOwner' BY DEF OneOwner
  <2>4. CallInv' BY DEF CallInv, ActionInv, ToolCallInv, FeishuDone
  <2>5. DoneInv' /\ OneEffect' BY DEF DoneInv, EffectInv, OneEffect
  <2>6. RowsAreTrue' BY DEF RowsAreTrue
  <2>7. TasksMatchLedger' /\ UpdateInv' BY DEF TasksMatchLedger, UpdateInv, Updates
  <2> QED BY <2>1, <2>2, <2>3, <2>4, <2>5, <2>6, <2>7
<1> QED BY <1>2, <1>3

\* The inductive invariant holds in every reachable state.
THEOREM Inductive == Spec => []IInv
BY InitInv, NextInv, PTL DEF Spec

\* The two ledgers, the tasks and the deliveries keep their types.
THEOREM TypeCorrect == Spec => []TypeOK
<1>1. IInv => TypeOK BY DEF IInv
<1> QED BY Inductive, <1>1, PTL

\* What feishu_action_calls, scheduled_task_tool_calls and scheduled_tasks record
\* is what happened, whichever statement failed or was answered too late.
THEOREM Tables == Spec => []TablesAreTrue
<1>1. IInv => TablesAreTrue BY DEF IInv, TablesAreTrue
<1> QED BY Inductive, <1>1, PTL

\* The updates of a task are serialised by its version: no version is replaced
\* twice, however many calls expect it.
THEOREM Serialized == Spec => []UpdatesSerialize
<1>1. IInv => UpdatesSerialize BY DEF IInv, UpdateInv, Updates, UpdatesSerialize
<1> QED BY Inductive, <1>1, PTL
-----------------------------------------------------------------------------
(* ToolCalls implements CallLedger.                                        *)

Deed(e) == [key |-> KeyOf(e), args |-> e.args, result |-> e.by]
Report(d) == [key |-> KeyOf(run[d].req), args |-> run[d].req.args, result |-> run[d].by]
Deeds == {Deed(e) : e \in done}
Reports == {Report(d) : d \in Successes}

\* A step of one delivery that changes no other delivery, and does at most what
\* the delivery was asked for.
Solo(d) ==
    /\ \A e \in Deliveries \ {d} : run'[e] = run[e]
    /\ run[d].pc # "answered"
    /\ run'[d].pc = "answered" => run'[d].req = run[d].req
    /\ UNCHANGED done \/ (run[d].pc # "idle" /\ Happened(d))

\* Every action of a delivery is such a step.
LEMMA StepIsSolo ==
    ASSUME TypeOK, NEW d \in Deliveries, Step(d) \/ CancelTurn(d) \/ \E r \in Requests : Deliver(d, r)
    PROVE  Solo(d)
<1> USE DEF Solo
<1>0. run \in [Deliveries -> Progress] BY DEF TypeOK
<1>1. ASSUME NEW p, NEW ok, NEW by, NEW state,
             Goto(d, p) \/ Answer(d, ok, by) \/ Fail(d) \/ Outcome(d, ok, state)
      PROVE  (\A e \in Deliveries \ {d} : run'[e] = run[e]) /\ run'[d].req = run[d].req
  BY <1>0, <1>1 DEF Goto, Answer, Fail, Outcome, Progress
<1>2. CASE GetCompletedAction(d) BY <1>1, <1>2 DEF GetCompletedAction
<1>3. CASE ClaimAction(d) BY <1>1, <1>3 DEF ClaimAction, Statement
<1>4. CASE Validate(d) BY <1>1, <1>4 DEF Validate
<1>5. CASE StartAction(d) BY <1>1, <1>5 DEF StartAction, Statement
<1>6. CASE SendOnce(d) BY <1>1, <1>6 DEF SendOnce
<1>7. CASE CreateDocument(d) BY <1>1, <1>7 DEF CreateDocument
<1>8. CASE WriteContent(d) BY <1>0, <1>8 DEF WriteContent, Progress
<1>9. CASE AnnounceDocument(d) BY <1>1, <1>9 DEF AnnounceDocument
<1>10. CASE CompleteAction(d) BY <1>1, <1>10 DEF CompleteAction, Statement
<1>11. CASE create(d) \/ list(d) \/ update(d) BY <1>1, <1>11 DEF create, list, update, Checked
<1>12. CASE CreateTaskForToolCall(d)
  BY <1>1, <1>12 DEF CreateTaskForToolCall, Transaction, Statement, Commit
<1>13. CASE UpdateTaskForToolCall(d)
  BY <1>1, <1>13 DEF UpdateTaskForToolCall, Transaction, Statement, Commit
<1>14. CASE ListOwnedTasksForToolCall(d)
  BY <1>1, <1>14 DEF ListOwnedTasksForToolCall, Transaction, Statement, Commit
<1>15. CASE CancelTurn(d) BY <1>0, <1>15 DEF CancelTurn, Running, Ended, Progress
<1>16. ASSUME NEW r \in Requests, Deliver(d, r) PROVE Solo(d)
  <2>1. run'[d].pc \in {"check", "replay"} /\ \A e \in Deliveries \ {d} : run'[e] = run[e]
    BY <1>0, <1>16 DEF Deliver, Progress
  <2> QED BY <1>16, <2>1 DEF Deliver
<1> QED BY <1>2, <1>3, <1>4, <1>5, <1>6, <1>7, <1>8, <1>9, <1>10, <1>11, <1>12, <1>13, <1>14, <1>15, <1>16
        DEF Step

\* What happened was asked for.
AskedInv == \A e \in done : \E r \in Requests : KeyOf(e) = KeyOf(r) /\ e.args = r.args

\* A step of one delivery adds only what it was asked for.
LEMMA AskedStep ==
    ASSUME IInv, AskedInv, NEW d \in Deliveries, Solo(d)
    PROVE  AskedInv'
<1>1. CASE UNCHANGED done BY <1>1 DEF AskedInv
<1>2. CASE run[d].pc # "idle" /\ Happened(d)
  <2>1. done' = done \cup {EffectOf(d)} /\ run[d].req \in Requests
    BY <1>2, Request DEF Happened, EffectOf, IInv
  <2>2. KeyOf(EffectOf(d)) = KeyOf(run[d].req) /\ EffectOf(d).args = run[d].req.args
    BY DEF EffectOf, KeyOf
  <2> QED BY <2>1, <2>2 DEF AskedInv
<1> QED BY <1>1, <1>2 DEF Solo

\* An effect that was asked for is a deed of the abstract ledger.
LEMMA DeedTyped ==
    ASSUME NEW e \in Effects, NEW r \in Requests, KeyOf(e) = KeyOf(r), e.args = r.args
    PROVE  Deed(e) \in Ledger!Deeds
BY DEF Ledger!Deeds, Deed, Effects

\* The steps of the abstract ledger, in terms of Deeds and Reports.
LEMMA LedgerSteps ==
    ASSUME NEW x \in Ledger!Deeds
    PROVE  /\ (\A f \in Deeds : f.key # x.key) /\ Deeds' = Deeds \cup {x} /\ Reports' = Reports => Ledger!Next
           /\ x \in Deeds' /\ Reports' = Reports \cup {x} /\ Deeds' = Deeds => Ledger!Next
           /\ (\A f \in Deeds : f.key # x.key) /\ Deeds' = Deeds \cup {x}
              /\ Reports' = Reports \cup {x} => Ledger!Next
BY DEF Ledger!Next, Ledger!Do, Ledger!Tell, Deeds, Deed, Reports, Report

\* A step of one delivery does, tells, does and tells, or stutters.
LEMMA SoloRefines ==
    ASSUME IInv, IInv', AskedInv', NEW d \in Deliveries, Solo(d)
    PROVE  Ledger!Next \/ UNCHANGED <<Deeds, Reports>>
<1>1. PICK x : x = Deed(EffectOf(d)) OBVIOUS
<1>2. \/ Deeds' = Deeds
      \/ /\ Deeds' = Deeds \cup {x} /\ (\A f \in Deeds : f.key # x.key)
         /\ x \in Ledger!Deeds /\ \A e \in done' : KeyOf(e) = KeyOf(run[d].req) => Deed(e) = x
  <2>1. CASE done' = done BY <2>1 DEF Deeds
  <2>2. CASE run[d].pc # "idle" /\ Happened(d) /\ EffectOf(d) \notin done
    <3>1. done' = done \cup {EffectOf(d)} BY <2>2 DEF Happened, EffectOf
    <3>2. Deeds' = Deeds \cup {x} BY <1>1, <3>1 DEF Deeds
    <3>3. \A e \in done' : KeyOf(e) = KeyOf(EffectOf(d)) => e = EffectOf(d)
      BY <3>1 DEF IInv, OneEffect
    <3>4. \A f \in Deeds : f.key # x.key BY <1>1, <2>2, <3>1, <3>3 DEF Deeds, Deed
    <3>5. Deeds' \subseteq Ledger!Deeds
      BY DeedTyped DEF Deeds, AskedInv, IInv, TypeOK
    <3>6. KeyOf(EffectOf(d)) = KeyOf(run[d].req) BY DEF EffectOf, KeyOf
    <3> QED BY <1>1, <3>2, <3>3, <3>4, <3>5, <3>6
  <2>3. CASE Happened(d) /\ EffectOf(d) \in done
    <3>1. done' = done BY <2>3 DEF Happened, EffectOf
    <3> QED BY <3>1 DEF Deeds
  <2> QED BY <2>1, <2>2, <2>3 DEF Solo
<1>3. \/ Reports' = Reports
      \/ \E e \in done' : /\ KeyOf(e) = KeyOf(run[d].req) /\ Reports' = Reports \cup {Deed(e)}
  <2>1. /\ \A e \in Deliveries \ {d} : (e \in Successes') <=> (e \in Successes)
        /\ \A e \in Deliveries \ {d} : Report(e)' = Report(e)
        /\ d \notin Successes
    BY DEF Solo, Successes, Report
  <2>2. CASE d \notin Successes'
    BY <2>1, <2>2 DEF Reports, Successes
  <2>3. CASE d \in Successes'
    <3>1. /\ run'[d].req = run[d].req
          /\ \E e \in done' : /\ KeyOf(e) = KeyOf(run'[d].req) /\ e.args = run'[d].req.args
                              /\ e.by = run'[d].by
      BY <2>3 DEF Solo, Successes, IInv, DeliveryInv, ToldInv
    <3>2. PICK e \in done' : /\ KeyOf(e) = KeyOf(run[d].req) /\ e.args = run'[d].req.args
                             /\ e.by = run'[d].by
      BY <3>1
    <3>3. Deed(e) = Report(d)' BY <3>1, <3>2 DEF Deed, Report
    <3>4. Reports' = Reports \cup {Report(d)'} BY <2>1, <2>3 DEF Reports, Successes
    <3> QED BY <3>2, <3>3, <3>4
  <2> QED BY <2>2, <2>3
<1>4. CASE Deeds' = Deeds
  <2>1. CASE Reports' = Reports BY <1>4, <2>1
  <2>2. ASSUME NEW e \in done', Reports' = Reports \cup {Deed(e)} PROVE Ledger!Next
    <3>1. Deed(e) \in Deeds' BY DEF Deeds
    <3>2. Deed(e) \in Ledger!Deeds BY DeedTyped DEF AskedInv, IInv, TypeOK
    <3> QED BY <1>4, <2>2, <3>1, <3>2, LedgerSteps
  <2> QED BY <1>3, <2>1, <2>2
<1>5. CASE /\ Deeds' = Deeds \cup {x} /\ (\A f \in Deeds : f.key # x.key)
           /\ x \in Ledger!Deeds /\ \A e \in done' : KeyOf(e) = KeyOf(run[d].req) => Deed(e) = x
  <2>1. Reports' = Reports \/ Reports' = Reports \cup {x} BY <1>3, <1>5
  <2> QED BY <1>5, <2>1, LedgerSteps
<1> QED BY <1>2, <1>4, <1>5

\* A crash changes neither the effects nor the answers.
LEMMA CrashRefines ==
    ASSUME TypeOK, Crash
    PROVE  UNCHANGED <<Deeds, Reports>>
<1>1. \A d \in Deliveries : run[d].pc = "answered" => run'[d] = run[d]
  BY DEF Crash, Running, Ended, TypeOK
<1>2. \A d \in Deliveries : run'[d].pc = "answered" => run'[d] = run[d]
  BY DEF Crash, Running, Ended, TypeOK, Progress
<1>3. Successes' = Successes BY <1>1, <1>2 DEF Successes
<1>4. \A d \in Successes : Report(d)' = Report(d) BY <1>1 DEF Successes, Report
<1> QED BY <1>3, <1>4 DEF Crash, Deeds, Reports

\* Refinement: with duplicates, crashes, cancels and lost answers, the handlers of
\* feishuaction and scheduleaction do every call at most once, and every success
\* they answer is the result of that one effect.
THEOREM LedgerImplemented == Spec => LedgerSpec
<1>1. Init => Ledger!Init BY DEF Init, Ledger!Init, Successes, Fresh
<1>2. Init => AskedInv BY DEF Init, AskedInv
<1>3. IInv /\ AskedInv /\ [Next]_vars => AskedInv'
  <2> SUFFICES ASSUME IInv, AskedInv, [Next]_vars PROVE AskedInv' OBVIOUS
  <2>1. ASSUME NEW d \in Deliveries, Step(d) \/ CancelTurn(d) \/ \E r \in Requests : Deliver(d, r)
        PROVE  AskedInv'
    BY <2>1, StepIsSolo, AskedStep DEF IInv
  <2>2. CASE Crash \/ UNCHANGED vars BY <2>2 DEF Crash, vars, AskedInv
  <2> QED BY <2>1, <2>2 DEF Next
<1>4. IInv /\ IInv' /\ AskedInv' /\ [Next]_vars => Ledger!Next \/ UNCHANGED <<Deeds, Reports>>
  <2> SUFFICES ASSUME IInv, IInv', AskedInv', [Next]_vars PROVE Ledger!Next \/ UNCHANGED <<Deeds, Reports>>
    OBVIOUS
  <2>1. ASSUME NEW d \in Deliveries, Step(d) \/ CancelTurn(d) \/ \E r \in Requests : Deliver(d, r)
        PROVE  Ledger!Next \/ UNCHANGED <<Deeds, Reports>>
    BY <2>1, StepIsSolo, SoloRefines DEF IInv
  <2>2. CASE Crash BY <2>2, CrashRefines DEF IInv
  <2>3. CASE UNCHANGED vars BY <2>3 DEF vars, Deeds, Reports, Report, Successes
  <2> QED BY <2>1, <2>2, <2>3 DEF Next
<1>5. IInv /\ IInv' /\ AskedInv' /\ [Next]_vars => [Ledger!Next]_<<Deeds, Reports>> BY <1>4
<1> QED BY <1>1, <1>2, <1>3, <1>5, Inductive, PTL DEF Spec, LedgerSpec, Ledger!Spec, Deeds, Deed, Reports, Report
=============================================================================
