--------------------------- MODULE SchedulerProofs ---------------------------
(***************************************************************************)
(* Proofs about Scheduler, for every set of tasks, cron expressions and    *)
(* runs and every bound.                                                   *)
(***************************************************************************)
EXTENDS Scheduler, TLAPS

USE DEF Tasks, Active, Terminal, Instants

\* Cron.Next is never at or before its argument; 0 stands for "never".
LEMMA NextSlotIsLater ==
    ASSUME NEW c \in Crons, NEW t \in Instants
    PROVE  NextSlot(c, t) \in Nat /\ (NextSlot(c, t) = 0 \/ NextSlot(c, t) > t)
  BY CronAssumption, BoundsAssumption

\* The identity of a new run row is unused.
LEMMA NewIDIsFree ==
    ASSUME FreeRuns # {}
    PROVE  NewID \in RunIds /\ row[NewID].state = "none"
  BY DEF NewID, FreeRuns

\* The row that stands for a missing task has the type of a task row.
LEMMA NoTaskRowType == NoTaskRow \in TaskRows
  <1>1. (CHOOSE c \in Crons : TRUE) \in Crons
    BY TasksAssumption
  <1> QED BY <1>1 DEF NoTaskRow, TaskRows

-----------------------------------------------------------------------------
\* A Tick never looks into the future: the slots it holds are due at the
\* instant it read, and that instant has passed.
TickInv ==
    /\ clock <= MaxTime
    /\ sched.now <= clock
    /\ \A o \in sched.due : o.slot # 0 /\ o.slot <= sched.now

TypeInv == TypeOK /\ TickInv

\* Types hold on an empty database.
LEMMA TypeInit == Init => TypeInv
  <1> SUFFICES ASSUME Init PROVE TypeInv
    OBVIOUS
  <1>1. row \in [RunIds -> RunRows]
    BY DEF Init, NoRow, RunRows, Codes
  <1>2. task \in [Tasks -> TaskRows]
    BY NoTaskRowType DEF Init
  <1>3. routeOn \in [Tasks -> BOOLEAN]
    BY DEF Init
  <1>4. sched \in [pc : PCs, now : Nat, due : SUBSET DueTasks, held : SUBSET RunIds, prompts : Nat]
    BY DEF Init, Idle, At, PCs
  <1>5. TickInv
    BY BoundsAssumption DEF Init, Idle, At, TickInv
  <1> QED BY <1>1, <1>2, <1>3, <1>4, <1>5 DEF Init, TypeInv, TypeOK

\* Recording a slot keeps both tables well-formed.
LEMMA RecordType ==
    ASSUME TypeInv, NEW o \in sched.due, NEW state, NEW code, NEW next \in Nat,
           state \in Active \cup Terminal, code \in Codes,
           Record(o, state, code, next)
    PROVE  task' \in [Tasks -> TaskRows] /\ row' \in [RunIds -> RunRows]
  BY NewIDIsFree DEF TypeInv, TypeOK, Record, TaskRows, RunRows, DueTasks

\* Finishing a run keeps the table well-formed.
LEMMA FinishedType ==
    ASSUME TypeOK, NEW r \in RunIds, NEW state \in Terminal, NEW code \in Codes
    PROVE  Finished(r, state, code) \in [RunIds -> RunRows]
  <1>1. [row[r] EXCEPT !.state = state, !.code = code] \in RunRows
    BY DEF TypeOK, RunRows
  <1> QED BY <1>1 DEF Finished, TypeOK

\* So does the reconciliation of a restart.
LEMMA ReconcileType ==
    ASSUME TypeOK PROVE ReconcileInterruptedRuns \in [RunIds -> RunRows]
  <1>1. ASSUME NEW r \in RunIds
        PROVE  [row[r] EXCEPT !.state = "unknown", !.code = "unknown_interrupted"] \in RunRows
    BY DEF TypeOK, RunRows, Codes
  <1> QED BY <1>1 DEF ReconcileInterruptedRuns, TypeOK

\* Every step keeps the types.
LEMMA TypeStep == TypeInv /\ [Next]_vars => TypeInv'
  <1> SUFFICES ASSUME TypeInv, [Next]_vars PROVE TypeInv'
    OBVIOUS
  <1> USE BoundsAssumption DEF TypeInv
  <1>0. clock \in Instants /\ sched.now \in Instants /\ \A o \in sched.due : o.slot \in Instants
    BY DEF TypeOK, TickInv, DueTasks
  <1>1. ASSUME NEW t \in Tasks, NEW c \in Crons, CreateTask(t, c) PROVE TypeInv'
    <2>1. NextSlot(c, clock) \in Nat
      BY <1>0, NextSlotIsLater
    <2>2. task' \in [Tasks -> TaskRows]
      BY <1>1, <2>1 DEF CreateTask, TypeOK, TaskRows
    <2> QED BY <1>1, <2>2 DEF CreateTask, TypeOK, TickInv
  <1>2. ASSUME NEW t \in Tasks, NEW c \in Crons, NEW cronGiven \in BOOLEAN, NEW enabled \in BOOLEAN,
               UpdateTask(t, cronGiven, c, enabled)
        PROVE  TypeInv'
    <2>1. NextSlot(c, clock) \in Nat
      BY <1>0, NextSlotIsLater
    <2>2. task' \in [Tasks -> TaskRows]
      BY <1>2, <2>1 DEF UpdateTask, TypeOK, TaskRows
    <2> QED BY <1>2, <2>2 DEF UpdateTask, TypeOK, TickInv
  <1>3. ASSUME NEW t \in Tasks, SetRoute(t) PROVE TypeInv'
    BY <1>3 DEF SetRoute, TypeOK, TickInv
  <1>4. CASE AdvanceClock
    BY <1>4 DEF AdvanceClock, TypeOK, TickInv
  <1>5. CASE ListDue
    <2>1. AllDue \subseteq DueTasks /\ \A o \in AllDue : o.slot # 0 /\ o.slot <= clock
      <3>1. SUFFICES ASSUME NEW t \in Tasks, t \in Enabled, task[t].next # 0, task[t].next <= clock,
                            NEW o, o = [task |-> t, version |-> task[t].version,
                                        slot |-> task[t].next, revoked |-> ~routeOn[t]]
                     PROVE  o \in DueTasks /\ o.slot # 0 /\ o.slot <= clock
        BY DEF AllDue, Enabled
      <3>2. task[t].version \in Nat /\ task[t].next \in Nat
        BY DEF TypeOK, TaskRows
      <3>3. (~routeOn[t]) \in BOOLEAN
        BY Zenon
      <3> QED BY <3>1, <3>2, <3>3 DEF DueTasks
    <2> QED BY <1>5, <2>1 DEF ListDue, At, TypeOK, TickInv, PCs
  <1>6. ASSUME NEW o \in sched.due, FailRouteRevoked(o) PROVE TypeInv'
    <2>1. NextSlot(task[o.task].cron, sched.now) \in Nat
      BY <1>0, NextSlotIsLater DEF TypeOK, TaskRows, DueTasks
    <2>2. task' \in [Tasks -> TaskRows] /\ row' \in [RunIds -> RunRows]
      BY <1>6, <2>1, RecordType DEF FailRouteRevoked, Codes, TypeOK
    <2> QED BY <1>6, <2>2 DEF FailRouteRevoked, Continue, At, TypeOK, TickInv, PCs
  <1>7. ASSUME NEW o \in sched.due, SkipMisfire(o) PROVE TypeInv'
    <2>1. NextSlot(task[o.task].cron, sched.now) \in Nat
      BY <1>0, NextSlotIsLater DEF TypeOK, TaskRows, DueTasks
    <2>2. task' \in [Tasks -> TaskRows] /\ row' \in [RunIds -> RunRows]
      BY <1>7, <2>1, RecordType DEF SkipMisfire, Codes, TypeOK
    <2> QED BY <1>7, <2>2 DEF SkipMisfire, Continue, Stopped, At, TypeOK, TickInv, PCs
  <1>8. ASSUME NEW o \in sched.due, ClaimDue(o) PROVE TypeInv'
    <2>1. NextSlot(task[o.task].cron, o.slot) \in Nat
      BY <1>0, NextSlotIsLater DEF TypeOK, TaskRows, DueTasks
    <2>2. task' \in [Tasks -> TaskRows] /\ row' \in [RunIds -> RunRows]
      BY <1>8, <2>1, RecordType DEF ClaimDue, Codes, TypeOK
    <2>3. CASE FreeRuns # {}
      <3>1. NewID \in RunIds
        BY <2>3, NewIDIsFree
      <3>2. CASE sched' = Continue(o)
        BY <1>8, <2>2, <3>2 DEF ClaimDue, Continue, At, TypeOK, TickInv, PCs
      <3>3. CASE sched' = At("route", sched.now, sched.due \ {o}, {NewID}, sched.prompts + 1)
        <4>1. sched' \in [pc : PCs, now : Nat, due : SUBSET DueTasks, held : SUBSET RunIds, prompts : Nat]
          BY <3>1, <3>3 DEF At, TypeOK, PCs
        <4>2. TickInv'
          BY <1>8, <3>3 DEF ClaimDue, At, TickInv
        <4> QED BY <1>8, <2>2, <4>1, <4>2 DEF ClaimDue, TypeOK
      <3>4. CASE sched' = At("script", sched.now, sched.due \ {o}, {NewID}, sched.prompts)
        BY <1>8, <2>2, <3>1, <3>4 DEF ClaimDue, At, TypeOK, TickInv, PCs
      <3> QED BY <1>8, <3>2, <3>3, <3>4 DEF ClaimDue
    <2>4. CASE FreeRuns = {}
      BY <1>8, <2>2, <2>4 DEF ClaimDue, Record, Continue, At, TypeOK, TickInv, PCs
    <2> QED BY <2>3, <2>4
  <1>9. CASE EndTick
    BY <1>9 DEF EndTick, Idle, At, TypeOK, TickInv, PCs
  <1>10. ASSUME NEW r \in sched.held,
                \/ LoadPromptRoute(r) \/ MarkRunQueued(r) \/ AcceptPrompt(r)
                \/ RejectPrompt(r) \/ DispatchScript(r)
         PROVE  TypeInv'
    <2>1. r \in RunIds
      BY DEF TypeOK
    <2>2. CASE LoadPromptRoute(r)
      BY <2>1, <2>2 DEF LoadPromptRoute, Stopped, At, TypeOK, TickInv, PCs
    <2>3. CASE MarkRunQueued(r)
      BY <2>1, <2>3 DEF MarkRunQueued, TypeOK, TickInv, PCs, RunRows
    <2>4. CASE AcceptPrompt(r)
      BY <2>1, <2>4 DEF AcceptPrompt, At, TypeOK, TickInv, PCs
    <2>5. CASE RejectPrompt(r)
      <3>1. row' \in [RunIds -> RunRows]
        <4>1. Finished(r, "failed", "failed_enqueue") \in [RunIds -> RunRows]
          BY <2>1, FinishedType DEF Codes
        <4> QED BY <2>5, <4>1 DEF RejectPrompt, TypeOK
      <3> QED BY <2>1, <2>5, <3>1 DEF RejectPrompt, Stopped, At, TypeOK, TickInv, PCs
    <2>6. CASE DispatchScript(r)
      <3>1. row' \in [RunIds -> RunRows]
        <4>1. Finished(r, "failed", "failed_capacity") \in [RunIds -> RunRows]
          BY <2>1, FinishedType DEF Codes
        <4> QED BY <2>6, <4>1 DEF DispatchScript, TypeOK
      <3> QED BY <2>1, <2>6, <3>1 DEF DispatchScript, At, TypeOK, TickInv, PCs
    <2> QED BY <1>10, <2>2, <2>3, <2>4, <2>5, <2>6
  <1>11. ASSUME NEW r \in RunIds, ExecutorStep(r) \/ ExecutorGivesUp(r) PROVE TypeInv'
    <2>1. CASE ExecutorMarks(r)
      BY <2>1 DEF ExecutorMarks, TypeOK, TickInv, RunRows
    <2>2. ASSUME NEW s \in {"succeeded", "failed", "cancelled"}, CompleteRun(r, s) PROVE TypeInv'
      <3>1. row' \in [RunIds -> RunRows]
        BY <2>2, FinishedType DEF CompleteRun, Codes
      <3> QED BY <2>2, <3>1 DEF CompleteRun, TypeOK, TickInv
    <2>3. CASE ExecutorGivesUp(r)
      BY <2>3 DEF ExecutorGivesUp, TypeOK, TickInv
    <2> QED BY <1>11, <2>1, <2>2, <2>3, OutcomesAssumption DEF ExecutorStep
  <1>12. CASE StoreFails \/ Crash \/ ServerStops
    BY <1>12 DEF StoreFails, Crash, ServerStops, Stopped, Down, At, TypeOK, TickInv, PCs
  <1>13. CASE Restart
    <2>1. row' \in [RunIds -> RunRows]
      BY <1>13, ReconcileType DEF Restart
    <2> QED BY <1>13, <2>1 DEF Restart, Idle, At, TypeOK, TickInv, PCs
  <1>14. CASE UNCHANGED vars
    BY <1>14 DEF vars, TypeOK, TickInv
  <1> QED
    BY <1>1, <1>2, <1>3, <1>4, <1>5, <1>6, <1>7, <1>8, <1>9, <1>10, <1>11, <1>12, <1>13, <1>14
    DEF Next, SchedulerStep

\* The inductive form, with what a Tick holds.
LEMMA TypeInvariant == Spec => []TypeInv
  BY TypeInit, TypeStep, PTL DEF Spec

\* Every table and every field of the scheduler keeps its type, in particular
\* a next slot is NULL or an instant, whatever expression an update stores.
THEOREM TypeCorrect == Spec => []TypeOK
  <1>1. TypeInv => TypeOK
    BY DEF TypeInv
  <1> QED BY <1>1, TypeInvariant, PTL

-----------------------------------------------------------------------------
(* Every active run has one owner.                                         *)

\* The scheduler dispatches one run at a time and no executor has it yet; a
\* run an executor owns is active, and a process that is down owns none.
OwnerInv ==
    /\ sched.pc \in {"idle", "scan", "stopped", "down"} => sched.held = {}
    /\ \A r, s \in sched.held : r = s
    /\ \A r \in sched.held : /\ row[r].state = IF sched.pc = "accept" THEN "queued" ELSE "claimed"
                             /\ r \notin live
    /\ \A r \in live : row[r].state \in Active
    /\ sched.pc = "down" => live = {}
    /\ NoOrphanRun

\* A row recorded by a scan is terminal or held by the scheduler.
LEMMA OwnerRecord ==
    ASSUME TypeInv, OwnerInv, NEW o \in sched.due, sched.pc = "scan",
           NEW state, NEW code, NEW next, Record(o, state, code, next),
           UNCHANGED <<live, lost>>, sched'.pc # "accept",
           \/ state \in Terminal /\ sched' = Continue(o)
           \/ state = "claimed" /\ sched'.held = {NewID} /\ sched'.pc \in {"route", "script"}
    PROVE  OwnerInv'
  <1> DEFINE n == NewID
  <1>1. n \in RunIds /\ row[n].state = "none" /\ n \notin live /\ sched.held = {}
    BY NewIDIsFree DEF Record, OwnerInv
  <1>2. row'[n].state = state
    BY <1>1 DEF Record, TypeInv, TypeOK
  <1>3. \A r \in RunIds : r # n => row'[r] = row[r]
    BY DEF Record, TypeInv, TypeOK
  <1>4. live \subseteq RunIds
    BY DEF TypeInv, TypeOK
  <1> HIDE DEF n
  <1>5. CASE state \in Terminal /\ sched' = Continue(o)
    <2>1. sched'.pc = "scan" /\ sched'.held = {}
      BY <1>5 DEF Continue, At
    <2> QED BY <1>1, <1>2, <1>3, <1>4, <1>5, <2>1 DEF OwnerInv, NoOrphanRun
  <1>6. CASE state = "claimed" /\ sched'.held = {n} /\ sched'.pc \in {"route", "script"}
    BY <1>1, <1>2, <1>3, <1>4, <1>6 DEF OwnerInv, NoOrphanRun
  <1> QED BY <1>5, <1>6 DEF n

\* Every step keeps every active run owned.
LEMMA OwnerStep == TypeInv /\ OwnerInv /\ [Next]_vars => OwnerInv'
  <1> SUFFICES ASSUME TypeInv, OwnerInv, [Next]_vars PROVE OwnerInv'
    OBVIOUS
  <1>0. /\ row \in [RunIds -> RunRows] /\ live \subseteq RunIds
        /\ sched.held \subseteq RunIds
        /\ \A r \in RunIds : row[r] \in RunRows
        /\ sched \in [pc : PCs, now : Nat, due : SUBSET DueTasks, held : SUBSET RunIds, prompts : Nat]
    BY DEF TypeInv, TypeOK
  <1>1. ASSUME UNCHANGED <<row, sched, live, lost>> PROVE OwnerInv'
    BY <1>1 DEF OwnerInv, NoOrphanRun
  <1>2. CASE ListDue
    BY <1>2 DEF ListDue, At, OwnerInv, NoOrphanRun
  <1>3. CASE EndTick
    BY <1>3 DEF EndTick, Idle, At, OwnerInv, NoOrphanRun
  <1>4. ASSUME NEW o \in sched.due, FailRouteRevoked(o) PROVE OwnerInv'
    <2>1. CASE Record(o, "failed", "failed_route_revoked", NextSlot(task[o.task].cron, sched.now))
      BY <1>4, <2>1, OwnerRecord DEF FailRouteRevoked, Head, Continue, At
    <2>2. CASE UNCHANGED <<task, row>>
      BY <1>4, <2>2 DEF FailRouteRevoked, Head, Continue, At, OwnerInv, NoOrphanRun
    <2> QED BY <1>4, <2>1, <2>2 DEF FailRouteRevoked
  <1>5. ASSUME NEW o \in sched.due, SkipMisfire(o) PROVE OwnerInv'
    <2>1. CASE /\ Record(o, "skipped", "skipped_misfire", NextSlot(task[o.task].cron, sched.now))
               /\ sched' = Continue(o)
      BY <1>5, <2>1, OwnerRecord DEF SkipMisfire, Head, Continue, At
    <2>2. CASE UNCHANGED <<task, row>> /\ sched' = Stopped
      BY <1>5, <2>2 DEF SkipMisfire, Head, Stopped, At, OwnerInv, NoOrphanRun
    <2> QED BY <1>5, <2>1, <2>2 DEF SkipMisfire
  <1>6. ASSUME NEW o \in sched.due, ClaimDue(o) PROVE OwnerInv'
    <2> DEFINE next == NextSlot(task[o.task].cron, o.slot)
    <2>0. sched.pc = "scan" /\ UNCHANGED <<live, lost>>
      BY <1>6 DEF ClaimDue, Head
    <2>1. CASE /\ Record(o, "claimed", "", next)
               /\ \/ sched' = At("route", sched.now, sched.due \ {o}, {NewID}, sched.prompts + 1)
                  \/ sched' = At("script", sched.now, sched.due \ {o}, {NewID}, sched.prompts)
      <3>1. sched'.held = {NewID} /\ sched'.pc \in {"route", "script"}
        <4>1. CASE sched' = At("route", sched.now, sched.due \ {o}, {NewID}, sched.prompts + 1)
          BY <4>1 DEF At
        <4>2. CASE sched' = At("script", sched.now, sched.due \ {o}, {NewID}, sched.prompts)
          BY <4>2 DEF At
        <4> QED BY <2>1, <4>1, <4>2
      <3> QED BY <2>0, <2>1, <3>1, OwnerRecord
    <2>2. CASE UNCHANGED <<task, row>> /\ sched' = Continue(o)
      BY <2>0, <2>2 DEF Continue, At, OwnerInv, NoOrphanRun
    <2> QED BY <1>6, <2>1, <2>2 DEF ClaimDue
  <1>7. ASSUME NEW r \in sched.held, LoadPromptRoute(r) PROVE OwnerInv'
    <2>1. CASE sched' = [sched EXCEPT !.pc = "queue"]
      BY <1>0, <1>7, <2>1 DEF LoadPromptRoute, Dispatching, OwnerInv, NoOrphanRun
    <2>2. CASE sched' = Stopped
      BY <1>7, <2>2 DEF LoadPromptRoute, Stopped, At, OwnerInv, NoOrphanRun
    <2> QED BY <1>7, <2>1, <2>2 DEF LoadPromptRoute
  <1>8. ASSUME NEW r \in sched.held, MarkRunQueued(r) PROVE OwnerInv'
    <2>1. row'[r].state = "queued" /\ \A q \in RunIds : q # r => row'[q] = row[q]
      BY <1>0, <1>8 DEF MarkRunQueued, RunRows
    <2>2. sched'.pc = "accept" /\ sched'.held = sched.held
      BY <1>0, <1>8 DEF MarkRunQueued
    <2> QED BY <1>0, <1>8, <2>1, <2>2 DEF MarkRunQueued, Dispatching, OwnerInv, NoOrphanRun
  <1>9. ASSUME NEW r \in sched.held, AcceptPrompt(r) PROVE OwnerInv'
    BY <1>9 DEF AcceptPrompt, Dispatching, At, OwnerInv, NoOrphanRun
  <1>10. ASSUME NEW r \in sched.held, RejectPrompt(r) PROVE OwnerInv'
    <2>1. \A q \in RunIds : q # r => row'[q] = row[q]
      BY <1>0, <1>10 DEF RejectPrompt, Finished
    <2>2. sched'.pc = "stopped" /\ sched'.held = {} /\ UNCHANGED <<live, lost>>
      BY <1>10 DEF RejectPrompt, Stopped, At
    <2> QED BY <1>0, <2>1, <2>2 DEF OwnerInv, NoOrphanRun
  <1>11. ASSUME NEW r \in sched.held, DispatchScript(r) PROVE OwnerInv'
    <2>1. sched'.pc = "scan" /\ sched'.held = {} /\ sched.pc = "script" /\ UNCHANGED lost
      BY <1>11 DEF DispatchScript, Dispatching, At
    <2>2. CASE live' = live \cup {r} /\ UNCHANGED row
      BY <1>0, <2>1, <2>2 DEF OwnerInv, NoOrphanRun
    <2>3. CASE row' = Finished(r, "failed", "failed_capacity") /\ UNCHANGED live
      <3>1. row'[r].state = "failed" /\ \A q \in RunIds : q # r => row'[q] = row[q]
        BY <1>0, <2>3 DEF Finished, RunRows
      <3> QED BY <1>0, <2>1, <2>3, <3>1 DEF OwnerInv, NoOrphanRun
    <2> QED BY <1>11, <2>2, <2>3 DEF DispatchScript
  <1>12. ASSUME NEW r \in RunIds, ExecutorMarks(r) PROVE OwnerInv'
    <2>1. row'[r].state \in Active /\ \A q \in RunIds : q # r => row'[q] = row[q]
      BY <1>0, <1>12 DEF ExecutorMarks, RunRows
    <2> QED BY <1>0, <1>12, <2>1 DEF ExecutorMarks, OwnerInv, NoOrphanRun
  <1>13. ASSUME NEW r \in RunIds, NEW s \in {"succeeded", "failed", "cancelled"}, CompleteRun(r, s)
         PROVE  OwnerInv'
    <2>1. row'[r].state = s /\ \A q \in RunIds : q # r => row'[q] = row[q]
      BY <1>0, <1>13 DEF CompleteRun, Finished, RunRows
    <2> QED BY <1>0, <1>13, <2>1 DEF CompleteRun, OwnerInv, NoOrphanRun
  <1>14. ASSUME NEW r \in RunIds, ExecutorGivesUp(r) PROVE OwnerInv'
    BY <1>14 DEF ExecutorGivesUp, OwnerInv, NoOrphanRun
  <1>15. CASE StoreFails
    BY <1>15 DEF StoreFails, Stopped, At, OwnerInv, NoOrphanRun
  <1>16. CASE Crash \/ ServerStops
    BY <1>16 DEF Crash, ServerStops, Down, At, OwnerInv, NoOrphanRun
  <1>17. CASE Restart
    <2>1. \A r \in RunIds : row'[r].state \notin Active
      BY <1>0, <1>17 DEF Restart, ReconcileInterruptedRuns, RunRows
    <2> QED BY <1>0, <1>17, <2>1 DEF Restart, Idle, At, OwnerInv, NoOrphanRun
  <1>18. CASE \/ \E t \in Tasks, c \in Crons : CreateTask(t, c)
              \/ \E t \in Tasks, c \in Crons, cronGiven, enabled \in BOOLEAN :
                    UpdateTask(t, cronGiven, c, enabled)
              \/ \E t \in Tasks : SetRoute(t)
              \/ AdvanceClock
              \/ UNCHANGED vars
    BY <1>1, <1>18 DEF CreateTask, UpdateTask, SetRoute, AdvanceClock, vars
  <1> QED
    BY <1>2, <1>3, <1>4, <1>5, <1>6, <1>7, <1>8, <1>9, <1>10, <1>11, <1>12, <1>13, <1>14,
       <1>15, <1>16, <1>17, <1>18, OutcomesAssumption
    DEF Next, SchedulerStep, ExecutorStep

\* An empty database has no run.
LEMMA NoRunAtStart == ASSUME Init PROVE \A r \in RunIds : row[r].state = "none"
  BY DEF Init, NoRow

\* Nothing is owned at the start.
LEMMA OwnerInit == Init => OwnerInv
  <1> SUFFICES ASSUME Init PROVE OwnerInv
    OBVIOUS
  <1>1. sched.pc = "idle" /\ sched.held = {} /\ live = {}
    BY DEF Init, Idle, At
  <1> QED BY <1>1, NoRunAtStart DEF OwnerInv, NoOrphanRun

\* Ownership holds in every reachable state.
LEMMA OwnerCorrect == Spec => []OwnerInv
  BY OwnerInit, OwnerStep, TypeInvariant, PTL DEF Spec

\* Every active run of the table is held by the scheduler, an executor or a
\* process about to restart, whatever the interleaving of edits, crashes and
\* refusals.
THEOREM RunsAreOwned == Spec => []NoOrphanRun
  <1>1. OwnerInv => NoOrphanRun
    BY DEF OwnerInv
  <1> QED BY <1>1, OwnerCorrect, PTL

-----------------------------------------------------------------------------
(* One run per slot.  SlotsUnique is not inductive: that the slot of a new  *)
(* row is unused follows from where the task's next slot is, ahead of every *)
(* slot ever recorded for it.                                               *)

\* Every recorded slot has passed and lies behind the next slot of its task.
SlotsBehind ==
    \A r \in RunIds : row[r].state # "none" =>
        /\ row[r].task \in Tasks
        /\ row[r].slot <= clock
        /\ task[row[r].task].next # 0 => row[r].slot < task[row[r].task].next

SlotInv == SlotsBehind /\ SlotsUnique

\* A step that records no slot and moves the next slot of no task backwards.
LEMMA SlotInvKept ==
    ASSUME TypeInv, TypeInv', SlotInv, clock <= clock',
           \A r \in RunIds : /\ row'[r].state = "none" <=> row[r].state = "none"
                             /\ row'[r].task = row[r].task /\ row'[r].slot = row[r].slot,
           \A t \in Tasks : \/ task'[t].next = task[t].next
                            \/ task'[t].next = 0
                            \/ task'[t].next > clock
    PROVE  SlotInv'
  <1>1. ASSUME NEW r \in RunIds, row'[r].state # "none"
        PROVE  /\ row'[r].task \in Tasks
               /\ row'[r].slot <= clock'
               /\ task'[row'[r].task].next # 0 => row'[r].slot < task'[row'[r].task].next
    <2>1. row[r].task \in Tasks /\ row[r].slot \in Nat /\ row[r].slot <= clock
      BY <1>1 DEF SlotInv, SlotsBehind, TypeInv, TypeOK, RunRows
    <2>2. task[row[r].task].next # 0 => row[r].slot < task[row[r].task].next
      BY <1>1 DEF SlotInv, SlotsBehind
    <2>3. task'[row[r].task].next \in Nat /\ clock \in Nat /\ clock' \in Nat
      BY <2>1 DEF TypeInv, TypeOK, TaskRows
    <2> QED BY <2>1, <2>2, <2>3
  <1>2. SlotsUnique'
    BY DEF SlotInv, SlotsUnique
  <1> QED BY <1>1, <1>2 DEF SlotInv, SlotsBehind

\* Claiming, skipping and refusing a current observation all record an unused slot.
LEMMA SlotInvRecord ==
    ASSUME TypeInv, TypeInv', SlotInv, clock' = clock,
           NEW o \in sched.due, Current(o),
           NEW state \in Active \cup Terminal, NEW code, NEW next \in Nat,
           next = 0 \/ next > o.slot,
           Record(o, state, code, next)
    PROVE  SlotInv'
  <1> DEFINE n == NewID
  <1>1. n \in RunIds /\ row[n].state = "none"
    BY NewIDIsFree DEF Record
  <1>2. o.task \in Tasks /\ o.slot \in Nat /\ o.slot # 0 /\ o.slot <= clock /\ clock \in Nat
    BY DEF TypeInv, TypeOK, TickInv, DueTasks
  <1>3. /\ row' = [row EXCEPT ![n] = [state |-> state, task |-> o.task,
                                      slot |-> o.slot, code |-> code]]
        /\ task' = [task EXCEPT ![o.task].next = next]
    BY DEF Record
  <1> HIDE DEF n
  <1>4. row'[n].task = o.task /\ row'[n].slot = o.slot
    BY <1>1, <1>3 DEF TypeInv, TypeOK
  <1>5. \A r \in RunIds : r # n => row'[r] = row[r]
    BY <1>3 DEF TypeInv, TypeOK
  <1>6. task[o.task].next = o.slot
    BY DEF Current
  <1>7. task'[o.task].next = next /\ \A t \in Tasks : t # o.task => task'[t] = task[t]
    BY <1>2, <1>3 DEF TypeInv, TypeOK, TaskRows
  <1>8. \A r \in RunIds : row[r].state # "none" /\ row[r].task = o.task => row[r].slot < o.slot
    BY <1>2, <1>6 DEF SlotInv, SlotsBehind
  <1>9. ASSUME NEW r \in RunIds, row'[r].state # "none"
        PROVE  /\ row'[r].task \in Tasks
               /\ row'[r].slot <= clock'
               /\ task'[row'[r].task].next # 0 => row'[r].slot < task'[row'[r].task].next
    <2>1. CASE r = n
      BY <1>2, <1>4, <1>7, <2>1
    <2>2. CASE r # n /\ row[r].task = o.task
      <3>1. row'[r] = row[r] /\ row[r].slot \in Nat
        BY <1>5, <2>2 DEF TypeInv, TypeOK, RunRows
      <3> QED BY <1>2, <1>7, <1>8, <1>9, <2>2, <3>1
    <2>3. CASE r # n /\ row[r].task # o.task
      <3>1. row'[r] = row[r]
        BY <1>5, <2>3
      <3>2. row[r].task \in Tasks
        BY <1>9, <3>1 DEF SlotInv, SlotsBehind
      <3>3. task'[row[r].task] = task[row[r].task]
        BY <1>7, <2>3, <3>2
      <3>4. row[r].slot <= clock /\ (task[row[r].task].next # 0 => row[r].slot < task[row[r].task].next)
        BY <1>9, <3>1 DEF SlotInv, SlotsBehind
      <3> QED BY <3>1, <3>2, <3>3, <3>4
    <2> QED BY <2>1, <2>2, <2>3
  <1>10. SlotsUnique'
    <2> SUFFICES ASSUME NEW r \in RunIds, NEW s \in RunIds, r # s,
                        row'[r].state # "none", row'[s].state # "none"
                 PROVE  ~(row'[r].task = row'[s].task /\ row'[r].slot = row'[s].slot)
      BY DEF SlotsUnique
    <2>1. CASE r # n /\ s # n
      BY <1>5, <2>1 DEF SlotInv, SlotsUnique
    <2>2. CASE r = n
      <3>1. row'[s] = row[s] /\ row[s].slot \in Nat
        BY <1>5, <2>2 DEF TypeInv, TypeOK, RunRows
      <3> QED BY <1>2, <1>4, <1>8, <2>2, <3>1
    <2>3. CASE s = n
      <3>1. row'[r] = row[r] /\ row[r].slot \in Nat
        BY <1>5, <2>3 DEF TypeInv, TypeOK, RunRows
      <3> QED BY <1>2, <1>4, <1>8, <2>3, <3>1
    <2> QED BY <2>1, <2>2, <2>3
  <1> QED BY <1>9, <1>10 DEF SlotInv, SlotsBehind
\* Every step keeps recorded slots unique and behind the next one.
LEMMA SlotStep == TypeInv /\ TypeInv' /\ OwnerInv /\ SlotInv /\ [Next]_vars => SlotInv'
  <1> SUFFICES ASSUME TypeInv, TypeInv', OwnerInv, SlotInv, [Next]_vars PROVE SlotInv'
    OBVIOUS
  <1>0. /\ clock \in Instants /\ sched.now \in Instants
        /\ \A o \in sched.due : /\ o.slot \in Instants /\ o.slot <= sched.now
                                /\ o.task \in Tasks /\ task[o.task].cron \in Crons
    BY BoundsAssumption DEF TypeInv, TypeOK, TickInv, DueTasks, TaskRows
  <1>1. ASSUME NEW t \in Tasks, NEW c \in Crons, CreateTask(t, c) PROVE SlotInv'
    <2>1. \A u \in Tasks : task'[u].next = task[u].next \/ task'[u].next > clock
      BY <1>0, <1>1, NextSlotIsLater DEF CreateTask, TypeInv, TypeOK, TaskRows
    <2> QED BY <1>0, <1>1, <2>1, SlotInvKept DEF CreateTask
  <1>2. ASSUME NEW t \in Tasks, NEW c \in Crons, NEW cronGiven \in BOOLEAN, NEW enabled \in BOOLEAN,
               UpdateTask(t, cronGiven, c, enabled)
        PROVE  SlotInv'
    <2>1. NextSlot(c, clock) = 0 \/ NextSlot(c, clock) > clock
      BY <1>0, NextSlotIsLater
    <2>2. \A u \in Tasks : \/ task'[u].next = task[u].next
                           \/ task'[u].next = 0 \/ task'[u].next > clock
      BY <1>2, <2>1 DEF UpdateTask, TypeInv, TypeOK, TaskRows
    <2> QED BY <1>0, <1>2, <2>2, SlotInvKept DEF UpdateTask
  <1>3. ASSUME NEW o \in sched.due, FailRouteRevoked(o) PROVE SlotInv'
    <2> DEFINE n == NextSlot(task[o.task].cron, sched.now)
    <2>1. n \in Nat /\ (n = 0 \/ n > o.slot)
      BY <1>0, NextSlotIsLater
    <2>2. CASE Current(o) /\ Record(o, "failed", "failed_route_revoked", n)
      BY <1>3, <2>1, <2>2, SlotInvRecord DEF FailRouteRevoked
    <2>3. CASE UNCHANGED <<task, row>>
      BY <1>0, <1>3, <2>3, SlotInvKept DEF FailRouteRevoked
    <2> QED BY <1>3, <2>2, <2>3 DEF FailRouteRevoked
  <1>4. ASSUME NEW o \in sched.due, SkipMisfire(o) PROVE SlotInv'
    <2> DEFINE n == NextSlot(task[o.task].cron, sched.now)
    <2>1. n \in Nat /\ (n = 0 \/ n > o.slot)
      BY <1>0, NextSlotIsLater
    <2>2. CASE Current(o) /\ Record(o, "skipped", "skipped_misfire", n)
      BY <1>4, <2>1, <2>2, SlotInvRecord DEF SkipMisfire
    <2>3. CASE UNCHANGED <<task, row>>
      BY <1>0, <1>4, <2>3, SlotInvKept DEF SkipMisfire
    <2> QED BY <1>4, <2>2, <2>3 DEF SkipMisfire
  <1>5. ASSUME NEW o \in sched.due, ClaimDue(o) PROVE SlotInv'
    <2> DEFINE n == NextSlot(task[o.task].cron, o.slot)
    <2>1. n \in Nat /\ (n = 0 \/ n > o.slot)
      BY <1>0, NextSlotIsLater
    <2>2. CASE Current(o) /\ Record(o, "claimed", "", n)
      BY <1>5, <2>1, <2>2, SlotInvRecord DEF ClaimDue
    <2>3. CASE UNCHANGED <<task, row>>
      <3>1. clock' = clock
        BY <1>5 DEF ClaimDue
      <3> QED BY <1>0, <2>3, <3>1, SlotInvKept
    <2> QED BY <1>5, <2>2, <2>3 DEF ClaimDue
  <1>6. ASSUME UNCHANGED <<task, row>>, clock' = clock \/ AdvanceClock PROVE SlotInv'
    BY <1>0, <1>6, SlotInvKept DEF AdvanceClock
  <1>7. ASSUME UNCHANGED <<clock, task>>, NEW r \in RunIds, NEW s \in Active \cup Terminal, NEW c \in Codes,
               row[r].state # "none",
               \/ row' = Finished(r, s, c)
               \/ row' = [row EXCEPT ![r].state = s]
        PROVE  SlotInv'
    <2>1. \A q \in RunIds : q # r => row'[q] = row[q]
      BY <1>7 DEF Finished, TypeInv, TypeOK
    <2>2. row'[r].state = s /\ row'[r].task = row[r].task /\ row'[r].slot = row[r].slot
      <3>1. row[r] \in RunRows /\ row \in [RunIds -> RunRows]
        BY DEF TypeInv, TypeOK
      <3>2. CASE row' = Finished(r, s, c)
        BY <3>1, <3>2 DEF Finished, RunRows
      <3>3. CASE row' = [row EXCEPT ![r].state = s]
        BY <3>1, <3>3 DEF RunRows
      <3> QED BY <1>7, <3>2, <3>3
    <2>3. \A q \in RunIds : /\ row'[q].state = "none" <=> row[q].state = "none"
                            /\ row'[q].task = row[q].task /\ row'[q].slot = row[q].slot
      BY <1>7, <2>1, <2>2
    <2> QED BY <1>0, <1>7, <2>3, SlotInvKept
  <1>8. ASSUME NEW r \in sched.held, LoadPromptRoute(r) \/ AcceptPrompt(r) PROVE SlotInv'
    BY <1>6, <1>8 DEF LoadPromptRoute, AcceptPrompt
  <1>9. ASSUME NEW r \in sched.held, MarkRunQueued(r) \/ RejectPrompt(r) \/ DispatchScript(r)
        PROVE  SlotInv'
    <2>1. r \in RunIds /\ row[r].state # "none" /\ UNCHANGED <<clock, task>>
      BY <1>9 DEF MarkRunQueued, RejectPrompt, DispatchScript, OwnerInv, TypeInv, TypeOK
    <2>2. CASE row' = row
      BY <1>6, <2>1, <2>2
    <2>3. CASE row' = [row EXCEPT ![r].state = "queued"]
      BY <1>7, <2>1, <2>3 DEF Codes
    <2>4. CASE row' = Finished(r, "failed", "failed_enqueue")
      BY <1>7, <2>1, <2>4 DEF Codes
    <2>5. CASE row' = Finished(r, "failed", "failed_capacity")
      BY <1>7, <2>1, <2>5 DEF Codes
    <2> QED BY <1>9, <2>2, <2>3, <2>4, <2>5 DEF MarkRunQueued, RejectPrompt, DispatchScript
  <1>10. ASSUME NEW r \in RunIds, ExecutorMarks(r) PROVE SlotInv'
    <2>1. row[r].state # "none" /\ UNCHANGED <<clock, task>>
      BY <1>10 DEF ExecutorMarks
    <2>2. CASE row' = [row EXCEPT ![r].state = "queued"]
      BY <1>7, <2>1, <2>2 DEF Codes
    <2>3. CASE row' = [row EXCEPT ![r].state = "running"]
      BY <1>7, <2>1, <2>3 DEF Codes
    <2> QED BY <1>10, <2>2, <2>3 DEF ExecutorMarks
  <1>11. ASSUME NEW r \in RunIds, NEW s \in {"succeeded", "failed", "cancelled"}, CompleteRun(r, s)
         PROVE  SlotInv'
    BY <1>7, <1>11 DEF CompleteRun, Codes
  <1>12. CASE Restart
    <2>1. \A q \in RunIds : /\ row'[q].state = "none" <=> row[q].state = "none"
                            /\ row'[q].task = row[q].task /\ row'[q].slot = row[q].slot
      BY <1>12 DEF Restart, ReconcileInterruptedRuns, TypeInv, TypeOK, RunRows
    <2> QED BY <1>0, <1>12, <2>1, SlotInvKept DEF Restart
  <1>13. ASSUME NEW r \in RunIds, ExecutorGivesUp(r) PROVE SlotInv'
    BY <1>6, <1>13 DEF ExecutorGivesUp
  <1>14. CASE \/ \E t \in Tasks : SetRoute(t)
              \/ AdvanceClock \/ ListDue \/ EndTick
              \/ StoreFails \/ Crash \/ ServerStops \/ UNCHANGED vars
    BY <1>6, <1>14
    DEF SetRoute, AdvanceClock, ListDue, EndTick, StoreFails, Crash, ServerStops, vars
  <1> QED
    BY <1>1, <1>2, <1>3, <1>4, <1>5, <1>8, <1>9, <1>10, <1>11, <1>12, <1>13, <1>14, OutcomesAssumption
    DEF Next, SchedulerStep, ExecutorStep

\* No slot of a task is ever recorded twice, for any number of tasks, edits,
\* restarts and cron expressions: the claim protocol needs no unique index.
THEOREM OneRunPerSlot == Spec => []SlotsUnique
  <1>1. Init => SlotInv
    BY NoRunAtStart DEF SlotInv, SlotsBehind, SlotsUnique
  <1>2. SlotInv => SlotsUnique
    BY DEF SlotInv
  <1> QED BY <1>1, <1>2, SlotStep, TypeInvariant, OwnerCorrect, PTL DEF Spec
-----------------------------------------------------------------------------
(* The table implements the abstract ledger.                               *)

\* One step of the scheduler is one step of one run, a restart, or none.
LEMMA LedgerStep ==
    ASSUME TypeInv, OwnerInv, [Next]_vars
    PROVE  [Ledger!Next]_[r \in RunIds |-> row[r].state]
  <1> DEFINE st == [r \in RunIds |-> row[r].state]
  <1>0. /\ row \in [RunIds -> RunRows] /\ sched.held \subseteq RunIds
        /\ \A r \in RunIds : row[r] \in RunRows
    BY DEF TypeInv, TypeOK
  <1>1. ASSUME row' = row PROVE UNCHANGED st
    BY <1>1
  <1>2. ASSUME NEW r \in RunIds, NEW s, row'[r].state = s,
               \A q \in RunIds : q # r => row'[q] = row[q],
               \/ row[r].state = "none" /\ s \in {"claimed", "skipped", "failed"}
               \/ row[r].state = "claimed" /\ s = "queued"
               \/ row[r].state = "queued" /\ s = "running"
               \/ row[r].state \in Active /\ s \in {"succeeded", "failed", "cancelled"}
        PROVE  Ledger!Next
    <2>1. st' = [st EXCEPT ![r] = s] /\ st[r] = row[r].state
      BY <1>2
    <2> QED BY <1>2, <2>1 DEF Ledger!Next, Ledger!Insert, Ledger!MarkQueued, Ledger!MarkRunning,
                              Ledger!Complete, Ledger!Active
  <1>3. ASSUME NEW o \in sched.due, NEW s \in {"claimed", "skipped", "failed"}, NEW c, NEW n,
               Record(o, s, c, n)
        PROVE  Ledger!Next
    <2>1. NewID \in RunIds /\ row[NewID].state = "none"
      BY <1>3, NewIDIsFree DEF Record
    <2>2. row'[NewID].state = s /\ \A q \in RunIds : q # NewID => row'[q] = row[q]
      BY <1>0, <1>3, <2>1 DEF Record
    <2> QED BY <1>2, <2>1, <2>2
  <1>4. ASSUME NEW r \in RunIds, row[r].state \in Active,
               NEW s \in {"succeeded", "failed", "cancelled"}, NEW c, row' = Finished(r, s, c)
        PROVE  Ledger!Next
    <2>1. row'[r].state = s /\ \A q \in RunIds : q # r => row'[q] = row[q]
      BY <1>0, <1>4 DEF Finished, RunRows
    <2> QED BY <1>2, <1>4, <2>1
  <1>5. ASSUME NEW r \in RunIds, NEW s, row' = [row EXCEPT ![r].state = s],
               \/ row[r].state = "claimed" /\ s = "queued"
               \/ row[r].state = "queued" /\ s = "running"
        PROVE  Ledger!Next
    <2>1. row'[r].state = s /\ \A q \in RunIds : q # r => row'[q] = row[q]
      BY <1>0, <1>5 DEF RunRows
    <2> QED BY <1>2, <1>5, <2>1
  <1>6. CASE Restart
    <2>1. st' = [r \in RunIds |-> IF st[r] \in Ledger!Active THEN "unknown" ELSE st[r]]
      BY <1>0, <1>6 DEF Restart, ReconcileInterruptedRuns, RunRows, Ledger!Active
    <2> QED BY <2>1 DEF Ledger!Next, Ledger!Reconcile
  <1>7. ASSUME NEW o \in sched.due, FailRouteRevoked(o) \/ SkipMisfire(o) \/ ClaimDue(o)
        PROVE  Ledger!Next \/ UNCHANGED st
    BY <1>1, <1>3, <1>7 DEF FailRouteRevoked, SkipMisfire, ClaimDue
  <1>8. ASSUME NEW r \in sched.held,
               \/ LoadPromptRoute(r) \/ MarkRunQueued(r) \/ AcceptPrompt(r)
               \/ RejectPrompt(r) \/ DispatchScript(r)
        PROVE  Ledger!Next \/ UNCHANGED st
    <2>1. r \in RunIds /\ row[r].state \in Active
      BY <1>0 DEF OwnerInv
    <2>2. CASE RejectPrompt(r) \/ DispatchScript(r)
      BY <1>1, <1>4, <2>1, <2>2 DEF RejectPrompt, DispatchScript
    <2>3. CASE MarkRunQueued(r)
      BY <1>5, <2>1, <2>3 DEF MarkRunQueued
    <2>4. CASE LoadPromptRoute(r) \/ AcceptPrompt(r)
      BY <1>1, <2>4 DEF LoadPromptRoute, AcceptPrompt
    <2> QED BY <1>8, <2>2, <2>3, <2>4
  <1>9. ASSUME NEW r \in RunIds, ExecutorStep(r) \/ ExecutorGivesUp(r)
        PROVE  Ledger!Next \/ UNCHANGED st
    <2>1. CASE ExecutorMarks(r)
      BY <1>5, <2>1 DEF ExecutorMarks
    <2>2. ASSUME NEW s \in {"succeeded", "failed", "cancelled"}, CompleteRun(r, s) PROVE Ledger!Next
      BY <1>4, <2>2 DEF CompleteRun
    <2>3. CASE ExecutorGivesUp(r)
      BY <1>1, <2>3 DEF ExecutorGivesUp
    <2> QED BY <1>9, <2>1, <2>2, <2>3, OutcomesAssumption DEF ExecutorStep
  <1>10. CASE \/ \E t \in Tasks, c \in Crons : CreateTask(t, c)
              \/ \E t \in Tasks, c \in Crons, cronGiven, enabled \in BOOLEAN :
                    UpdateTask(t, cronGiven, c, enabled)
              \/ \E t \in Tasks : SetRoute(t)
              \/ AdvanceClock \/ ListDue \/ EndTick
              \/ StoreFails \/ Crash \/ ServerStops \/ UNCHANGED vars
    BY <1>1, <1>10
    DEF CreateTask, UpdateTask, SetRoute, AdvanceClock, ListDue, EndTick,
        StoreFails, Crash, ServerStops, vars
  <1> QED BY <1>6, <1>7, <1>8, <1>9, <1>10 DEF Next, SchedulerStep

\* The scheduler implements the life of a run row that RunLedger promises: no
\* row is claimed twice, moves backwards, or changes once it is terminal.
THEOREM ImplementsLedger == Spec => LedgerSpec
  <1>1. Init => Ledger!Init
    BY NoRunAtStart DEF Ledger!Init
  <1>2. TypeInv /\ OwnerInv /\ [Next]_vars => [Ledger!Next]_[r \in RunIds |-> row[r].state]
    BY LedgerStep
  <1> QED BY <1>1, <1>2, TypeInvariant, OwnerCorrect, PTL DEF Spec, LedgerSpec, Ledger!Spec
=============================================================================
