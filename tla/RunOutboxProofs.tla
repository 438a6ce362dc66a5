--------------------------- MODULE RunOutboxProofs ---------------------------
(***************************************************************************)
(* Proofs about RunOutbox, for every set of runs and every number of       *)
(* crashes, failed database calls and route changes.                       *)
(***************************************************************************)
EXTENDS RunOutbox, TLAPS

USE DEF Kinds, Active, Terminal

Delivering == {"create", "route", "claim", "send", "record", "fallback"}

-----------------------------------------------------------------------------
(* The inductive invariant, one run at a time: where the goroutine of a run *)
(* is determines what the tables and the chat hold for it.                  *)

\* The row follows the goroutine.
ExecInv(r) ==
    /\ pc[r] = "none" => run[r] = "none"
    /\ pc[r] \in {"queue", "slot", "scriptQueue"} => run[r] = "claimed"
    /\ pc[r] \in {"accept", "waiting", "scriptStart"} => run[r] = "queued"
    /\ pc[r] \in {"turn", "script"} => run[r] = "running"
    /\ pc[r] \in Delivering => run[r] \in {"succeeded", "failed"}

\* Starts happen once, on the way from queued to running.
StartInv(r) ==
    /\ run[r] \in {"none", "claimed", "queued"} => started[r] = 0
    /\ run[r] \in {"running", "succeeded"} => started[r] = 1
    /\ started[r] \in {0, 1}

\* The outbox rows follow the goroutine; a fallback exists only behind a
\* rejected card, and a row only behind a finished, audible run.
OutboxInv(r) ==
    /\ pc[r] \notin Delivering \cup {"done"} => delivery[r]["card"] = "none"
    /\ pc[r] = "create" => delivery[r]["card"] = "none"
    /\ pc[r] = "route" => delivery[r]["card"] = "pending" /\ kind[r] = "card"
    /\ pc[r] = "claim" => delivery[r][kind[r]] = "pending"
    /\ pc[r] \in {"send", "record"} => delivery[r][kind[r]] = "in_flight"
    /\ pc[r] = "fallback" => delivery[r]["card"] = "rejected" /\ delivery[r]["text"] = "none"
    /\ delivery[r]["text"] # "none" => delivery[r]["card"] = "rejected"
    /\ run[r] \in {"none"} \cup Active => delivery[r]["card"] = "none"
    /\ delivery[r]["card"] \notin {"none", "suppressed"}
          => run[r] \in {"succeeded", "failed"} /\ ~silent[r]

\* What was shown, per outbox row.
ShownInv(r) ==
    /\ \A k \in Kinds :
          /\ shown[r][k] \in {0, 1}
          /\ delivery[r][k] = "sent" => shown[r][k] = 1
          /\ shown[r][k] = 1 => \/ delivery[r][k] \in {"in_flight", "sent", "unknown"}
                                \/ k = "card" /\ delivery[r][k] = "rejected" /\ r \in doubt
    /\ pc[r] = "send" => shown[r][kind[r]] = 0
    /\ pc[r] = "record" => /\ answer[r] = "sent" => shown[r][kind[r]] = 1
                           /\ answer[r] = "rejected" /\ shown[r][kind[r]] = 1
                                 => kind[r] = "card" /\ r \in doubt

RunInv(r) == ExecInv(r) /\ StartInv(r) /\ OutboxInv(r) /\ ShownInv(r)

\* A process that is not up has no goroutine.
BootInv == boot # "up" => slots = {} /\ \A r \in Runs : pc[r] \in {"none", "done"}

IInv == TypeOK /\ BootInv /\ \A r \in Runs : RunInv(r)

-----------------------------------------------------------------------------
\* Types hold at the start.
LEMMA TypeInit == Init => TypeOK
  <1> SUFFICES ASSUME Init PROVE TypeOK
    OBVIOUS
  <1>1. delivery \in [Runs -> [Kinds -> {"none"} \cup Stages \cup Outcomes]]
    BY DEF Init
  <1>2. shown \in [Runs -> [Kinds -> Nat]]
    BY DEF Init
  <1>3. silent \in [Runs -> BOOLEAN] /\ routeOn \in BOOLEAN
    BY DEF Init
  <1>4. pc \in [Runs -> PCs]
    BY DEF Init, PCs
  <1> QED BY <1>1, <1>2, <1>3, <1>4 DEF Init, TypeOK

\* The invariant holds at the start.
LEMMA InvInit == Init => IInv
  <1> SUFFICES ASSUME Init PROVE IInv
    OBVIOUS
  <1>1. TypeOK /\ BootInv
    BY TypeInit DEF Init, BootInv
  <1>2. ASSUME NEW r \in Runs PROVE RunInv(r)
    <2>1. pc[r] = "none" /\ run[r] = "none" /\ started[r] = 0
      BY DEF Init
    <2>2. \A k \in Kinds : delivery[r][k] = "none" /\ shown[r][k] = 0
      BY DEF Init
    <2> QED BY <2>1, <2>2 DEF RunInv, ExecInv, StartInv, OutboxInv, ShownInv, Delivering
  <1> QED BY <1>1, <1>2 DEF IInv

\* A step of one goroutine disturbs the invariant of no other run.
LEMMA OthersKeep ==
    ASSUME NEW r \in Runs, NEW q \in Runs, RunInv(q),
           pc'[q] = pc[q], run'[q] = run[q], delivery'[q] = delivery[q], kind'[q] = kind[q],
           answer'[q] = answer[q], started'[q] = started[q], shown'[q] = shown[q],
           silent'[q] = silent[q], q \in doubt <=> q \in doubt'
    PROVE  RunInv(q)'
  BY DEF RunInv, ExecInv, StartInv, OutboxInv, ShownInv

\* Every step keeps the types.
LEMMA TypeStep == TypeOK /\ [Next]_vars => TypeOK'
  <1> SUFFICES ASSUME TypeOK, [Next]_vars PROVE TypeOK'
    OBVIOUS
  <1> USE DEF tables, local, limits, past
  <1>1. ASSUME NEW r \in Runs, NEW p \in PCs, Goto(r, p)
        PROVE  pc' \in [Runs -> PCs] /\ slots' \subseteq ScriptRuns
    BY <1>1 DEF Goto, TypeOK
  <1>2. ASSUME NEW r \in Runs, NEW from, NEW to \in Active \cup Terminal, MoveRun(r, from, to)
        PROVE  run' \in [Runs -> {"none"} \cup Active \cup Terminal]
               /\ UNCHANGED <<silent, delivery, routeOn>>
    BY <1>2 DEF MoveRun, TypeOK
  <1>3. ASSUME NEW r \in Runs, NEW k \in Kinds, NEW to \in Stages \cup Outcomes, MoveDelivery(r, k, to)
        PROVE  delivery' \in [Runs -> [Kinds -> {"none"} \cup Stages \cup Outcomes]]
               /\ UNCHANGED <<silent, run, routeOn>>
    BY <1>3 DEF MoveDelivery, TypeOK
  <1>4. ASSUME NEW r \in Runs, Claim(r) PROVE TypeOK'
    BY <1>1, <1>2, <1>4 DEF Claim, TypeOK, PCs
  <1>5. ASSUME NEW r \in Runs, MarkRunQueued(r) PROVE TypeOK'
    BY <1>1, <1>2, <1>5 DEF MarkRunQueued, TypeOK, PCs
  <1>6. ASSUME NEW r \in Runs, Accept(r) PROVE TypeOK'
    BY <1>1, <1>2, <1>6 DEF Accept, TypeOK, PCs
  <1>7. ASSUME NEW r \in Runs, MarkRunRunning(r) PROVE TypeOK'
    BY <1>1, <1>2, <1>7 DEF MarkRunRunning, TypeOK, PCs
  <1>8. ASSUME NEW r \in Runs, FailRunClaim(r) PROVE TypeOK'
    BY <1>1, <1>2, <1>8 DEF FailRunClaim, TypeOK, PCs
  <1>9. ASSUME NEW r \in Runs, DiscardScheduledRun(r) PROVE TypeOK'
    BY <1>1, <1>2, <1>9 DEF DiscardScheduledRun, TypeOK, PCs
  <1>10. ASSUME NEW r \in Runs, DropQueued(r) \/ GiveUp(r) PROVE TypeOK'
    BY <1>1, <1>10 DEF DropQueued, GiveUp, TypeOK, PCs
  <1>11. ASSUME NEW r \in Runs, NEW s \in {"succeeded", "failed"}, CompleteRun(r, s) PROVE TypeOK'
    BY <1>1, <1>2, <1>11 DEF CompleteRun, TypeOK, PCs
  <1>12. ASSUME NEW r \in Runs, TakeSlot(r) PROVE TypeOK'
    <2>1. CASE MoveRun(r, Active, "failed") /\ Goto(r, "create")
      BY <1>1, <1>2, <1>12, <2>1 DEF TakeSlot, TypeOK, PCs
    <2>2. CASE slots' = slots \cup {r} /\ pc' = [pc EXCEPT ![r] = "scriptQueue"] /\ UNCHANGED tables
      BY <1>12, <2>2 DEF TakeSlot, TypeOK, PCs
    <2> QED BY <1>12, <2>1, <2>2 DEF TakeSlot
  <1>13. ASSUME NEW r \in Runs, Panic(r) PROVE TypeOK'
    <2>1. CASE MoveRun(r, Active, "failed") /\ Goto(r, "create") /\ UNCHANGED abandoned
      BY <1>1, <1>2, <1>13, <2>1 DEF Panic, TypeOK, PCs
    <2>2. CASE Goto(r, "done") /\ abandoned' = abandoned \cup {r} /\ UNCHANGED tables
      BY <1>1, <1>13, <2>2 DEF Panic, TypeOK, PCs
    <2> QED BY <1>13, <2>1, <2>2 DEF Panic
  <1>14. ASSUME NEW r \in Runs, CreateResultDelivery(r) PROVE TypeOK'
    <2>1. pc' \in [Runs -> PCs] /\ slots' \subseteq ScriptRuns
      BY <1>1, <1>14 DEF CreateResultDelivery, PCs
    <2>2. /\ delivery' \in [Runs -> [Kinds -> {"none"} \cup Stages \cup Outcomes]]
          /\ UNCHANGED <<silent, run, routeOn>>
      BY <1>3, <1>14 DEF CreateResultDelivery, TypeOK, Stages, Outcomes
    <2>3. kind' \in [Runs -> Kinds]
      BY <1>14 DEF CreateResultDelivery, TypeOK
    <2> QED BY <1>14, <2>1, <2>2, <2>3 DEF CreateResultDelivery, TypeOK
  <1>15. ASSUME NEW r \in Runs, LoadDeliveryRoute(r) PROVE TypeOK'
    BY <1>1, <1>15 DEF LoadDeliveryRoute, TypeOK, PCs
  <1>16. ASSUME NEW r \in Runs, ClaimDelivery(r) PROVE TypeOK'
    <2>1. kind[r] \in Kinds
      BY DEF TypeOK
    <2>2. pc' \in [Runs -> PCs] /\ slots' \subseteq ScriptRuns
      BY <1>1, <1>16 DEF ClaimDelivery, PCs
    <2>3. /\ delivery' \in [Runs -> [Kinds -> {"none"} \cup Stages \cup Outcomes]]
          /\ UNCHANGED <<silent, run, routeOn>>
      BY <1>3, <1>16, <2>1 DEF ClaimDelivery, TypeOK, Stages
    <2> QED BY <1>16, <2>2, <2>3 DEF ClaimDelivery, TypeOK
  <1>17. ASSUME NEW r \in Runs, Send(r) PROVE TypeOK'
    <2>1. kind[r] \in Kinds
      BY DEF TypeOK
    <2>2. pc' \in [Runs -> PCs] /\ slots' \subseteq ScriptRuns
      BY <1>1, <1>17 DEF Send, PCs
    <2>3. PICK a \in {"sent", "rejected", "unknown"}, n \in {0, 1} :
             /\ answer' = [answer EXCEPT ![r] = a]
             /\ shown' = [shown EXCEPT ![r][kind[r]] = @ + n]
             /\ doubt' = IF a = "rejected" /\ n = 1 THEN doubt \cup {r} ELSE doubt
      BY <1>17 DEF Send
    <2>4. answer' \in [Runs -> {"sent", "rejected", "unknown"}]
      BY <2>3 DEF TypeOK
    <2>5. shown' \in [Runs -> [Kinds -> Nat]]
      BY <2>1, <2>3 DEF TypeOK
    <2>6. doubt' \subseteq Runs
      BY <2>3 DEF TypeOK
    <2> QED BY <1>17, <2>2, <2>4, <2>5, <2>6 DEF Send, TypeOK
  <1>18. ASSUME NEW r \in Runs, CompleteDelivery(r) PROVE TypeOK'
    <2>1. kind[r] \in Kinds /\ answer[r] \in Outcomes
      BY DEF TypeOK, Outcomes
    <2>2. pc' \in [Runs -> PCs] /\ slots' \subseteq ScriptRuns
      BY <1>1, <1>18 DEF CompleteDelivery, PCs
    <2>3. /\ delivery' \in [Runs -> [Kinds -> {"none"} \cup Stages \cup Outcomes]]
          /\ UNCHANGED <<silent, run, routeOn>>
      BY <1>3, <1>18, <2>1 DEF CompleteDelivery, TypeOK
    <2> QED BY <1>18, <2>2, <2>3 DEF CompleteDelivery, TypeOK
  <1>19. ASSUME NEW r \in Runs, CreateFallbackAfterRejected(r) PROVE TypeOK'
    <2>1. pc' \in [Runs -> PCs] /\ slots' \subseteq ScriptRuns
      BY <1>1, <1>19 DEF CreateFallbackAfterRejected, PCs
    <2>2. /\ delivery' \in [Runs -> [Kinds -> {"none"} \cup Stages \cup Outcomes]]
          /\ UNCHANGED <<silent, run, routeOn>>
      BY <1>3, <1>19 DEF CreateFallbackAfterRejected, TypeOK, Stages
    <2>3. kind' \in [Runs -> Kinds]
      BY <1>19 DEF CreateFallbackAfterRejected, TypeOK
    <2> QED BY <1>19, <2>1, <2>2, <2>3 DEF CreateFallbackAfterRejected, TypeOK
  <1>20. CASE SetRoute
    BY <1>20 DEF SetRoute, TypeOK
  <1>21. CASE Crash
    <2>1. pc' \in [Runs -> PCs]
      BY <1>21 DEF Crash, TypeOK, PCs
    <2> QED BY <1>21, <2>1 DEF Crash, TypeOK
  <1>22. CASE ReconcileInterruptedRuns
    <2>1. run' \in [Runs -> {"none"} \cup Active \cup Terminal]
      BY <1>22 DEF ReconcileInterruptedRuns, TypeOK
    <2> QED BY <1>22, <2>1 DEF ReconcileInterruptedRuns, TypeOK
  <1>23. CASE ReconcileInFlightDeliveries
    <2>1. delivery' \in [Runs -> [Kinds -> {"none"} \cup Stages \cup Outcomes]]
      BY <1>23 DEF ReconcileInFlightDeliveries, TypeOK, Outcomes
    <2> QED BY <1>23, <2>1 DEF ReconcileInFlightDeliveries, TypeOK
  <1>24. CASE UNCHANGED vars
    BY <1>24 DEF vars, TypeOK
  <1> QED
    BY <1>4, <1>5, <1>6, <1>7, <1>8, <1>9, <1>10, <1>11, <1>12, <1>13, <1>14, <1>15, <1>16,
       <1>17, <1>18, <1>19, <1>20, <1>21, <1>22, <1>23, <1>24
    DEF Next, Step, Disturb, Boot

-----------------------------------------------------------------------------
\* What Goto, MoveRun and MoveDelivery leave alone.
LEMMA MovesKeepOthers ==
    ASSUME TypeOK, NEW r \in Runs
    PROVE  /\ \A p : Goto(r, p) => pc'[r] = p /\ \A q \in Runs : q # r => pc'[q] = pc[q]
           /\ \A from, to : MoveRun(r, from, to) =>
                 /\ run[r] \in from /\ run'[r] = to
                 /\ \A q \in Runs : q # r => run'[q] = run[q]
                 /\ UNCHANGED <<silent, delivery>>
           /\ \A k \in Kinds : \A to : MoveDelivery(r, k, to) =>
                 /\ delivery'[r][k] = to
                 /\ \A j \in Kinds : j # k => delivery'[r][j] = delivery[r][j]
                 /\ \A q \in Runs : q # r => delivery'[q] = delivery[q]
                 /\ UNCHANGED <<silent, run>>
  <1>1. ASSUME NEW p, Goto(r, p) PROVE pc'[r] = p /\ \A q \in Runs : q # r => pc'[q] = pc[q]
    BY <1>1 DEF Goto, TypeOK
  <1>2. ASSUME NEW from, NEW to, MoveRun(r, from, to)
        PROVE  /\ run[r] \in from /\ run'[r] = to
               /\ \A q \in Runs : q # r => run'[q] = run[q]
               /\ UNCHANGED <<silent, delivery>>
    BY <1>2 DEF MoveRun, TypeOK
  <1>3. ASSUME NEW k \in Kinds, NEW to, MoveDelivery(r, k, to)
        PROVE  /\ delivery'[r][k] = to
               /\ \A j \in Kinds : j # k => delivery'[r][j] = delivery[r][j]
               /\ \A q \in Runs : q # r => delivery'[q] = delivery[q]
               /\ UNCHANGED <<silent, run>>
    BY <1>3 DEF MoveDelivery, TypeOK
  <1> QED BY <1>1, <1>2, <1>3

\* A step of the goroutine of r keeps the invariant of r.
LEMMA OwnStep ==
    ASSUME IInv, NEW r \in Runs, Step(r) \/ Disturb(r)
    PROVE  RunInv(r)'
  <1> USE DEF tables, local, limits, past
  <1>0. /\ TypeOK /\ RunInv(r)
        /\ kind[r] \in Kinds /\ pc[r] \in PCs /\ answer[r] \in {"sent", "rejected", "unknown"}
    BY DEF IInv, TypeOK
  <1> USE MovesKeepOthers
  <1> USE DEF RunInv, ExecInv, StartInv, OutboxInv, ShownInv, Delivering
  <1>1. CASE Claim(r)
    BY <1>0, <1>1 DEF Claim
  <1>2. CASE MarkRunQueued(r)
    BY <1>0, <1>2 DEF MarkRunQueued
  <1>3. CASE Accept(r)
    BY <1>0, <1>3 DEF Accept
  <1>4. CASE MarkRunRunning(r)
    <2>1. started'[r] = 1
      BY <1>0, <1>4 DEF MarkRunRunning, TypeOK
    <2> QED BY <1>0, <1>4, <2>1 DEF MarkRunRunning
  <1>5. CASE FailRunClaim(r)
    BY <1>0, <1>5 DEF FailRunClaim
  <1>6. CASE DiscardScheduledRun(r)
    BY <1>0, <1>6 DEF DiscardScheduledRun
  <1>7. CASE DropQueued(r) \/ GiveUp(r)
    BY <1>0, <1>7 DEF DropQueued, GiveUp
  <1>8. ASSUME NEW s \in {"succeeded", "failed"}, CompleteRun(r, s) PROVE RunInv(r)'
    BY <1>0, <1>8 DEF CompleteRun
  <1>9. CASE TakeSlot(r)
    <2>1. UNCHANGED <<kind, answer, past>>
      BY <1>9 DEF TakeSlot
    <2>2. CASE pc' = [pc EXCEPT ![r] = "scriptQueue"] /\ UNCHANGED tables
      <3>1. pc'[r] = "scriptQueue"
        BY <1>0, <2>2 DEF TypeOK
      <3>2. run[r] = "claimed"
        BY <1>0, <1>9 DEF TakeSlot
      <3> QED BY <1>0, <1>9, <2>1, <2>2, <3>1, <3>2 DEF TakeSlot
    <2>3. CASE MoveRun(r, Active, "failed") /\ Goto(r, "create")
      <3>1. pc'[r] = "create" /\ run'[r] = "failed" /\ delivery' = delivery
        BY <1>0, <2>3
      <3> QED BY <1>0, <1>9, <2>1, <3>1 DEF TakeSlot
    <2> QED BY <1>9, <2>2, <2>3 DEF TakeSlot
  <1>10. CASE Panic(r)
    <2>1. UNCHANGED <<kind, answer, started, shown, doubt>>
      BY <1>10 DEF Panic
    <2>2. CASE MoveRun(r, Active, "failed") /\ Goto(r, "create")
      <3>1. pc'[r] = "create" /\ run'[r] = "failed" /\ run[r] \in Active /\ delivery' = delivery
        BY <1>0, <2>2
      <3> QED BY <1>0, <2>1, <3>1
    <2>3. CASE Goto(r, "done") /\ UNCHANGED tables
      <3>1. pc'[r] = "done"
        BY <1>0, <2>3
      <3> QED BY <1>0, <2>1, <2>3, <3>1
    <2> QED BY <1>10, <2>2, <2>3 DEF Panic
  <1>11. CASE CreateResultDelivery(r)
    <2>1. /\ pc[r] = "create" /\ UNCHANGED <<answer, started, shown, doubt>>
          /\ kind'[r] = "card" /\ run[r] \in {"succeeded", "failed"}
          /\ delivery[r]["card"] = "none" /\ delivery[r]["text"] = "none"
      BY <1>0, <1>11 DEF CreateResultDelivery, TypeOK
    <2>2. /\ MoveDelivery(r, "card", IF silent[r] THEN "suppressed" ELSE "pending")
          /\ Goto(r, IF silent[r] THEN "done" ELSE "route")
      BY <1>11, <2>1 DEF CreateResultDelivery
    <2>3. /\ delivery'[r]["card"] = IF silent[r] THEN "suppressed" ELSE "pending"
          /\ delivery'[r]["text"] = "none" /\ run' = run /\ silent' = silent
      BY <1>0, <2>1, <2>2
    <2>4. pc'[r] = IF silent[r] THEN "done" ELSE "route"
      BY <1>0, <2>2
    <2>5. ShownInv(r)'
      BY <1>0, <2>1, <2>3, <2>4
    <2>6. ExecInv(r)' /\ StartInv(r)'
      BY <1>0, <2>1, <2>3, <2>4
    <2>7. OutboxInv(r)'
      BY <1>0, <2>1, <2>3, <2>4
    <2> QED BY <2>5, <2>6, <2>7
  <1>12. CASE LoadDeliveryRoute(r)
    BY <1>0, <1>12 DEF LoadDeliveryRoute
  <1>13. CASE ClaimDelivery(r)
    BY <1>0, <1>13 DEF ClaimDelivery
  <1>14. CASE Send(r)
    <2>1. PICK a \in {"sent", "rejected", "unknown"}, n \in {0, 1} :
             /\ a = "sent" => n = 1
             /\ a = "rejected" /\ n = 1 => kind[r] = "card"
             /\ answer' = [answer EXCEPT ![r] = a]
             /\ shown' = [shown EXCEPT ![r][kind[r]] = @ + n]
             /\ doubt' = IF a = "rejected" /\ n = 1 THEN doubt \cup {r} ELSE doubt
      BY <1>14 DEF Send
    <2>2. /\ pc[r] = "send" /\ delivery[r][kind[r]] = "in_flight" /\ shown[r][kind[r]] = 0
          /\ UNCHANGED <<tables, kind, started>>
      BY <1>0, <1>14 DEF Send
    <2>3. pc'[r] = "record" /\ answer'[r] = a
      BY <1>0, <1>14, <2>1 DEF Send, TypeOK
    <2>4. shown'[r][kind[r]] = n /\ \A k \in Kinds : k # kind[r] => shown'[r][k] = shown[r][k]
      BY <1>0, <2>1, <2>2 DEF TypeOK
    <2>5. ShownInv(r)'
      BY <1>0, <2>1, <2>2, <2>3, <2>4
    <2>6. ExecInv(r)' /\ StartInv(r)' /\ OutboxInv(r)'
      BY <1>0, <2>2, <2>3
    <2> QED BY <2>5, <2>6
  <1>15. CASE CompleteDelivery(r)
    BY <1>0, <1>15 DEF CompleteDelivery
  <1>16. CASE CreateFallbackAfterRejected(r)
    <2>1. /\ pc[r] = "fallback" /\ UNCHANGED <<answer, started, shown, doubt>>
          /\ kind'[r] = "text" /\ run[r] \in {"succeeded", "failed"}
          /\ delivery[r]["card"] = "rejected" /\ delivery[r]["text"] = "none"
      BY <1>0, <1>16 DEF CreateFallbackAfterRejected, TypeOK
    <2>2. MoveDelivery(r, "text", "pending") /\ Goto(r, "claim")
      BY <1>16, <2>1 DEF CreateFallbackAfterRejected
    <2>3. /\ delivery'[r]["text"] = "pending" /\ delivery'[r]["card"] = "rejected"
          /\ run' = run /\ silent' = silent /\ pc'[r] = "claim"
      BY <1>0, <2>1, <2>2
    <2>4. ShownInv(r)'
      BY <1>0, <2>1, <2>3
    <2>5. ExecInv(r)' /\ StartInv(r)' /\ OutboxInv(r)'
      BY <1>0, <2>1, <2>3
    <2> QED BY <2>4, <2>5
  <1> QED
    BY <1>1, <1>2, <1>3, <1>4, <1>5, <1>6, <1>7, <1>8, <1>9, <1>10, <1>11, <1>12, <1>13, <1>14,
       <1>15, <1>16
    DEF Step, Disturb

\* It touches the rows and the goroutine of r only.
LEMMA OwnStepIsLocal ==
    ASSUME TypeOK, NEW r \in Runs, Step(r) \/ Disturb(r), NEW q \in Runs, q # r
    PROVE  /\ pc'[q] = pc[q] /\ run'[q] = run[q] /\ delivery'[q] = delivery[q]
           /\ kind'[q] = kind[q] /\ answer'[q] = answer[q] /\ started'[q] = started[q]
           /\ shown'[q] = shown[q] /\ silent'[q] = silent[q] /\ (q \in doubt <=> q \in doubt')
  <1> USE DEF tables, local, limits, past
  <1>0. kind[r] \in Kinds
    BY DEF TypeOK
  <1>1. pc'[q] = pc[q]
    BY MovesKeepOthers
    DEF Step, Disturb, Claim, MarkRunQueued, Accept, MarkRunRunning, FailRunClaim, DiscardScheduledRun,
        DropQueued, CompleteRun, TakeSlot, Panic, CreateResultDelivery, LoadDeliveryRoute, ClaimDelivery,
        Send, CompleteDelivery, CreateFallbackAfterRejected, GiveUp, TypeOK
  <1>2. run'[q] = run[q] /\ silent'[q] = silent[q] /\ delivery'[q] = delivery[q]
    BY <1>0, MovesKeepOthers
    DEF Step, Disturb, Claim, MarkRunQueued, Accept, MarkRunRunning, FailRunClaim, DiscardScheduledRun,
        DropQueued, CompleteRun, TakeSlot, Panic, CreateResultDelivery, LoadDeliveryRoute, ClaimDelivery,
        Send, CompleteDelivery, CreateFallbackAfterRejected, GiveUp
  <1>3. kind'[q] = kind[q] /\ started'[q] = started[q]
    BY DEF Step, Disturb, Claim, MarkRunQueued, Accept, MarkRunRunning, FailRunClaim, DiscardScheduledRun,
        DropQueued, CompleteRun, TakeSlot, Panic, CreateResultDelivery, LoadDeliveryRoute, ClaimDelivery,
        Send, CompleteDelivery, CreateFallbackAfterRejected, GiveUp, TypeOK
  <1>4. answer'[q] = answer[q] /\ shown'[q] = shown[q]
    BY DEF Step, Disturb, Claim, MarkRunQueued, Accept, MarkRunRunning, FailRunClaim, DiscardScheduledRun,
        DropQueued, CompleteRun, TakeSlot, Panic, CreateResultDelivery, LoadDeliveryRoute, ClaimDelivery,
        Send, CompleteDelivery, CreateFallbackAfterRejected, GiveUp, TypeOK
  <1>5. q \in doubt <=> q \in doubt'
    BY DEF Step, Disturb, Claim, MarkRunQueued, Accept, MarkRunRunning, FailRunClaim, DiscardScheduledRun,
        DropQueued, CompleteRun, TakeSlot, Panic, CreateResultDelivery, LoadDeliveryRoute, ClaimDelivery,
        Send, CompleteDelivery, CreateFallbackAfterRejected, GiveUp
  <1> QED BY <1>1, <1>2, <1>3, <1>4, <1>5

\* Every step keeps the invariant.
LEMMA InvStep == IInv /\ [Next]_vars => IInv'
  <1> SUFFICES ASSUME IInv, [Next]_vars PROVE IInv'
    OBVIOUS
  <1> USE DEF tables, local, limits, past
  <1>0. TypeOK /\ TypeOK' /\ BootInv /\ \A r \in Runs : RunInv(r)
    BY TypeStep DEF IInv
  <1>1. ASSUME NEW r \in Runs, Step(r) \/ Disturb(r) PROVE IInv'
    <2>1. RunInv(r)'
      BY <1>1, OwnStep
    <2>2. ASSUME NEW q \in Runs, q # r PROVE RunInv(q)'
      BY <1>0, <1>1, <2>2, OwnStepIsLocal, OthersKeep
    <2>3. boot' = boot
      BY <1>1
      DEF Step, Disturb, Claim, MarkRunQueued, Accept, MarkRunRunning, FailRunClaim, DiscardScheduledRun,
          DropQueued, CompleteRun, TakeSlot, Panic, CreateResultDelivery, LoadDeliveryRoute, ClaimDelivery,
          Send, CompleteDelivery, CreateFallbackAfterRejected, GiveUp
    <2>4. boot = "up"
      <3> SUFFICES ASSUME boot # "up" PROVE FALSE
        BY DEF BootInv
      <3>1. pc[r] \in {"none", "done"} /\ r \notin slots
        BY <1>0 DEF BootInv
      <3>2. ~Step(r)
        BY <3>1 DEF Step, MarkRunQueued, Accept, MarkRunRunning, CompleteRun, TakeSlot,
            CreateResultDelivery, LoadDeliveryRoute, ClaimDelivery, Send, CompleteDelivery,
            CreateFallbackAfterRejected
      <3> QED
        BY <1>1, <3>1, <3>2
        DEF Disturb, Claim, FailRunClaim, DiscardScheduledRun, DropQueued, GiveUp, Panic
    <2>5. BootInv'
      BY <2>3, <2>4 DEF BootInv
    <2> QED BY <1>0, <2>1, <2>2, <2>5 DEF IInv
  <1>2. CASE SetRoute \/ UNCHANGED vars
    <2>1. UNCHANGED <<silent, run, delivery, pc, kind, answer, slots, boot, started, shown, doubt>>
      BY <1>2 DEF SetRoute, vars
    <2>2. ASSUME NEW q \in Runs PROVE RunInv(q)'
      BY <1>0, <2>1, OthersKeep
    <2> QED BY <1>0, <2>1, <2>2 DEF IInv, BootInv
  <1> USE DEF RunInv, ExecInv, StartInv, OutboxInv, ShownInv, Delivering
  <1>3. CASE Crash
    <2>1. \A q \in Runs : pc'[q] = IF pc[q] = "none" THEN "none" ELSE "done"
      BY <1>3 DEF Crash
    <2>2. UNCHANGED <<silent, run, delivery, kind, answer, started, shown, doubt>>
      BY <1>3 DEF Crash
    <2>3. ASSUME NEW q \in Runs PROVE RunInv(q)'
      BY <1>0, <2>1, <2>2
    <2>4. BootInv'
      BY <1>3, <2>1 DEF BootInv, Crash
    <2> QED BY <1>0, <2>3, <2>4 DEF IInv
  <1>4. CASE ReconcileInterruptedRuns
    <2>1. UNCHANGED <<silent, delivery, pc, kind, answer, started, shown, doubt>>
      BY <1>4 DEF ReconcileInterruptedRuns
    <2>2. \A q \in Runs : run'[q] = IF run[q] \in Active THEN "unknown" ELSE run[q]
      BY <1>4 DEF ReconcileInterruptedRuns
    <2>3. slots = {} /\ slots' = slots /\ \A q \in Runs : pc[q] \in {"none", "done"}
      BY <1>0, <1>4 DEF BootInv, ReconcileInterruptedRuns
    <2>4. ASSUME NEW q \in Runs PROVE RunInv(q)'
      BY <1>0, <2>1, <2>2, <2>3
    <2>5. BootInv'
      BY <2>1, <2>3 DEF BootInv
    <2> QED BY <1>0, <2>4, <2>5 DEF IInv
  <1>5. CASE ReconcileInFlightDeliveries
    <2>1. UNCHANGED <<silent, run, pc, kind, answer, started, shown, doubt>>
      BY <1>5 DEF ReconcileInFlightDeliveries
    <2>2. \A q \in Runs, k \in Kinds :
             delivery'[q][k] = IF delivery[q][k] = "in_flight" THEN "unknown" ELSE delivery[q][k]
      BY <1>5 DEF ReconcileInFlightDeliveries
    <2>3. slots = {} /\ slots' = slots /\ \A q \in Runs : pc[q] \in {"none", "done"}
      BY <1>0, <1>5 DEF BootInv, ReconcileInFlightDeliveries
    <2>4. ASSUME NEW q \in Runs PROVE RunInv(q)'
      BY <1>0, <2>1, <2>2, <2>3
    <2>5. BootInv'
      BY <2>1, <2>3 DEF BootInv
    <2> QED BY <1>0, <2>4, <2>5 DEF IInv
  <1> QED BY <1>1, <1>2, <1>3, <1>4, <1>5 DEF Next, Boot

\* The invariant holds in every reachable state.
THEOREM Invariant == Spec => []IInv
  BY InvInit, InvStep, PTL DEF Spec

-----------------------------------------------------------------------------
\* Every variable keeps its type.
THEOREM TypeCorrect == Spec => []TypeOK
  <1>1. IInv => TypeOK
    BY DEF IInv
  <1> QED BY <1>1, Invariant, PTL

\* A run shows at most one message, card and fallback together: the fallback is
\* created only behind a card that CompleteDelivery recorded as rejected, and
\* only a card accepted without an identifier is rejected and visible.
THEOREM OneVisible == Spec => []OneVisibleResult
  <1>1. IInv => OneVisibleResult
    <2> SUFFICES ASSUME IInv, NEW r \in Runs
                 PROVE  /\ shown[r]["card"] + shown[r]["text"] <= IF r \in doubt THEN 2 ELSE 1
                        /\ shown[r]["text"] <= 1
      BY DEF OneVisibleResult
    <2>1. OutboxInv(r) /\ ShownInv(r)
      BY DEF IInv, RunInv
    <2>2. shown[r]["card"] \in {0, 1} /\ shown[r]["text"] \in {0, 1}
      BY <2>1 DEF ShownInv
    <2>3. shown[r]["card"] = 1 /\ shown[r]["text"] = 1 => r \in doubt
      BY <2>1 DEF ShownInv, OutboxInv
    <2> QED BY <2>2, <2>3
  <1> QED BY <1>1, Invariant, PTL

\* The outbox never claims a message that was not seen, nor denies one that was,
\* but for the card accepted without an identifier.
THEOREM Truthful == Spec => []OutboxIsTruthful
  <1>1. IInv => OutboxIsTruthful
    BY DEF IInv, RunInv, ShownInv, OutboxIsTruthful
  <1> QED BY <1>1, Invariant, PTL

\* Interrupted, cancelled, skipped and silent runs never reach the chat.
THEOREM OnlyFinished == Spec => []OnlyFinishedRunsReport
  <1>1. IInv => OnlyFinishedRunsReport
    <2> SUFFICES ASSUME IInv, NEW r \in Runs, NEW k \in Kinds, shown[r][k] > 0
                 PROVE  run[r] \in {"succeeded", "failed"} /\ ~silent[r]
      BY DEF OnlyFinishedRunsReport
    <2>1. OutboxInv(r) /\ ShownInv(r)
      BY DEF IInv, RunInv
    <2>2. delivery[r][k] \in {"in_flight", "sent", "unknown", "rejected"}
      BY <2>1 DEF ShownInv
    <2> QED BY <2>1, <2>2 DEF OutboxInv
  <1> QED BY <1>1, Invariant, PTL

\* No crash, refusal or lost answer makes the code start a turn or a command
\* a second time.
THEOREM StartedOnce == Spec => []NeverReplayed
  <1>1. IInv => NeverReplayed
    BY DEF IInv, RunInv, StartInv, NeverReplayed
  <1> QED BY <1>1, Invariant, PTL

-----------------------------------------------------------------------------
\* One guarded UPDATE of a run row is a step of the ledger.
LEMMA MoveIsLedgerStep ==
    ASSUME NEW r \in Runs, NEW from, NEW to, MoveRun(r, from, to),
           \/ from = {"none"} /\ to = "claimed"
           \/ from = {"claimed"} /\ to = "queued"
           \/ from = {"queued"} /\ to = "running"
           \/ from = Active /\ to \in {"succeeded", "failed", "cancelled"}
    PROVE  Ledger!Next
  BY DEF MoveRun, Ledger!Next, Ledger!Insert, Ledger!MarkQueued, Ledger!MarkRunning,
         Ledger!Complete, Ledger!Active

\* Every step of the executors is a step of the ledger or leaves it alone.
LEMMA LedgerStep == [Next]_vars => [Ledger!Next]_run
  <1> SUFFICES ASSUME [Next]_vars PROVE Ledger!Next \/ run' = run
    OBVIOUS
  <1> USE DEF tables, local, limits, past
  <1>1. ASSUME NEW r \in Runs, Step(r) PROVE Ledger!Next \/ run' = run
    BY <1>1, MoveIsLedgerStep
    DEF Step, MarkRunQueued, Accept, MarkRunRunning, CompleteRun, TakeSlot, CreateResultDelivery,
        LoadDeliveryRoute, ClaimDelivery, Send, CompleteDelivery, CreateFallbackAfterRejected,
        MoveDelivery
  <1>2. ASSUME NEW r \in Runs, Disturb(r) PROVE Ledger!Next \/ run' = run
    BY <1>2, MoveIsLedgerStep
    DEF Disturb, Claim, FailRunClaim, DiscardScheduledRun, DropQueued, GiveUp, Panic
  <1>3. CASE ReconcileInterruptedRuns
    BY <1>3 DEF ReconcileInterruptedRuns, Ledger!Next, Ledger!Reconcile, Ledger!Active
  <1>4. CASE SetRoute \/ Crash \/ ReconcileInFlightDeliveries \/ UNCHANGED vars
    BY <1>4 DEF SetRoute, Crash, ReconcileInFlightDeliveries, vars
  <1> QED BY <1>1, <1>2, <1>3, <1>4 DEF Next, Boot

\* The executors and the outbox implement the run ledger: no terminal row is
\* ever written again, and only a restart makes a row unknown.
THEOREM ImplementsLedger == Spec => LedgerSpec
  <1>1. Init => Ledger!Init
    BY DEF Init, Ledger!Init
  <1> QED BY <1>1, LedgerStep, PTL DEF Spec, LedgerSpec, Ledger!Spec
=============================================================================
