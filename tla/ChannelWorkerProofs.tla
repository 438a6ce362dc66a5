------------------------- MODULE ChannelWorkerProofs -------------------------
(***************************************************************************)
(* Proofs about ChannelWorker, for every set of messages, controls and      *)
(* worker instances, every queue depth and every number of timeouts, idle   *)
(* recycles and failed calls.                                               *)
(***************************************************************************)
EXTENDS ChannelWorker, FiniteSetTheorems, SequenceTheorems, TLAPS

-----------------------------------------------------------------------------
(* The inductive invariant.                                                *)

\* What a lookup returned exists, and its row waits for it.
FoundInv ==
    /\ \A x \in Messages \cup AllControls : found[x] \in Workers => w[found[x]].pc # "unborn"
    /\ \A m \in Messages : ingress[m] = "found" => found[m] \in Workers /\ row[m] = "received"
    /\ \A c \in AllControls : submit[c] \in {"found", "cut", "persist"} => found[c] \in Workers
    /\ quitting = "no" => submit[Quit] = "new"

\* A worker outside the registry is unborn or stopped, and a stopped one has
\* nothing left to run.
LifeAt(i) ==
    /\ registered = i => w[i].pc # "unborn"
    /\ registered # i => w[i].pc = "unborn" \/ w[i].state = "Stopped"
    /\ w[i].pc = "unborn" => w[i].queue = <<>> /\ w[i].controls = <<>> /\ w[i].timer = "off"
    /\ w[i].state = "Stopped" => w[i].queue = <<>> /\ w[i].pc \notin Busy
    /\ w[i].pc = "remove" \/ w[i].timer = "fired" => w[i].state = "Stopped"

\* BarrierHolds of one worker.
BarrierAt(i) ==
    w[i].controls # <<>> \/ w[i].pc = "control" => w[i].barrier /\ w[i].queue = <<>>

\* The controls of a worker were submitted to it.
ControlAt(i) ==
    \A c \in Elements(w[i].controls) : found[c] = i /\ submit[c] \in {"cut", "persist", "done", "error"}

\* The token, also for a goroutine that has looked for controls already.
WakeAt(i) ==
    /\ w[i].pc = "select" /\ w[i].queue # <<>> => w[i].wake
    /\ w[i].pc \in {"select", "batch"} /\ (\E c \in Elements(w[i].controls) : submit[c] = "done")
          => w[i].wake

WorkerInv == \A i \in Workers : LifeAt(i) /\ BarrierAt(i) /\ ControlAt(i) /\ WakeAt(i)

\* Messages that wait were accepted, once, and have not been taken.
Held(c) == submit[c] \in {"cut", "persist"}
QueueInv ==
    \A i \in Workers :
        /\ \A k, l \in DOMAIN w[i].queue : w[i].queue[k] = w[i].queue[l] => k = l
        /\ \A m \in Elements(w[i].queue) : ingress[m] = "accepted" /\ row[m] = "received" /\ m \notin begun
        /\ Processing(i) => Elements(w[i].batch) \subseteq begun
CutInv ==
    \A c \in AllControls : Held(c) =>
        /\ \A m \in Elements(cut[c].queue) : ingress[m] = "accepted" /\ m \notin begun
        /\ \A i \in Workers : Elements(cut[c].queue) \cap Elements(w[i].queue) = {}
        /\ \A d \in AllControls \ {c} : Held(d) => Elements(cut[c].queue) \cap Elements(cut[d].queue) = {}

\* The queue is in the order of arrival.
OrderInv ==
    /\ \A m \in Elements(order) \cup begun : ingress[m] = "accepted"
    /\ \A i \in Workers : \A k, l \in DOMAIN w[i].queue : \A a, b \in DOMAIN order :
          w[i].queue[k] = order[a] /\ w[i].queue[l] = order[b] /\ k < l => a < b

IInv == TypeOK /\ FoundInv /\ WorkerInv /\ QueueInv /\ CutInv /\ OrderInv /\ NoOvertaking /\ BatchesAreUniform
-----------------------------------------------------------------------------
(* Sequences.                                                              *)

\* Nobody is in an empty sequence.
LEMMA EmptyElements == Elements(<<>>) = {}
BY DEF Elements

\* The rest of a queue has nothing new.
LEMMA TailElements ==
    ASSUME NEW S, NEW s \in Seq(S), s # <<>>
    PROVE  Head(s) \in S /\ Tail(s) \in Seq(S) /\ Elements(Tail(s)) \subseteq Elements(s)
BY DEF Elements

\* Append adds one element.
LEMMA AppendElements ==
    ASSUME NEW S, NEW s \in Seq(S), NEW e \in S
    PROVE  /\ Append(s, e) \in Seq(S) /\ Append(s, e) # <<>>
           /\ Elements(Append(s, e)) = Elements(s) \cup {e}
<1>1. /\ Append(s, e) \in Seq(S) /\ Append(s, e) # <<>> /\ Len(Append(s, e)) = Len(s) + 1
      /\ \A k \in 1 .. Len(s) : Append(s, e)[k] = s[k]
      /\ Append(s, e)[Len(s) + 1] = e
  BY AppendProperties
<1>2. DOMAIN s = 1 .. Len(s) /\ DOMAIN Append(s, e) = 1 .. Len(s) + 1 /\ Len(s) \in Nat BY <1>1
<1> QED BY <1>1, <1>2 DEF Elements

\* Elements are in the set of the sequence.
LEMMA ElementsIn ==
    ASSUME NEW S, NEW s \in Seq(S)
    PROVE  Elements(s) \subseteq S /\ (s # <<>> => Elements(s) # {})
<1>1. Elements(s) \subseteq S BY DEF Elements
<1>2. ASSUME s # <<>> PROVE 1 \in DOMAIN s BY <1>2
<1> QED BY <1>1, <1>2 DEF Elements

\* A prefix and the rest.
LEMMA Split ==
    ASSUME NEW S, NEW s \in Seq(S), NEW n \in 1 .. Len(s)
    PROVE  /\ SubSeq(s, 1, n) \in Seq(S) /\ DOMAIN SubSeq(s, 1, n) = 1 .. n
           /\ \A k \in 1 .. n : SubSeq(s, 1, n)[k] = s[k]
           /\ SubSeq(s, n + 1, Len(s)) \in Seq(S) /\ DOMAIN SubSeq(s, n + 1, Len(s)) = 1 .. Len(s) - n
           /\ \A k \in 1 .. Len(s) - n : SubSeq(s, n + 1, Len(s))[k] = s[n + k]
<1>1. Len(s) \in Nat BY LenProperties
<1>2. \A k \in 1 .. Len(s) : s[k] \in S BY ElementOfSeq
<1> QED BY <1>1, <1>2, SubSeqProperties
-----------------------------------------------------------------------------
(* Type correctness.                                                       *)

\* An update of rows leaves the others alone.
LEMMA RowsTyped ==
    ASSUME TypeOK, NEW ms, NEW to \in Statuses
    PROVE  /\ Rows(ms, to) \in [Messages -> Statuses]
           /\ \A m \in Messages : m \notin ms => Rows(ms, to)[m] = row[m]
BY DEF TypeOK, Rows

\* A worker before its first lookup.
LEMMA UnbornTyped == Unborn \in WorkerRecords
BY EmptySeq DEF Unborn, WorkerRecords, PCs, Busy, States, AllControls

\* The counters stay numbers.
LimitsTyped == timeouts' \in Nat /\ recycles' \in Nat /\ faults' \in Nat

\* A fault counts one, and nothing else does.
LEMMA Counting == TypeOK /\ (Fault \/ UNCHANGED limits) => LimitsTyped
BY DEF TypeOK, Fault, limits, LimitsTyped

\* One worker changes.
Moved(i, q) ==
    /\ q \in WorkerRecords /\ w' \in [Workers -> WorkerRecords]
    /\ w'[i] = q /\ \A j \in Workers \ {i} : w'[j] = w[j]

\* What an assignment to one worker leaves alone.
LEMMA Moves ==
    ASSUME TypeOK, NEW i \in Workers, NEW q \in WorkerRecords, w' = [w EXCEPT ![i] = q]
    PROVE  Moved(i, q)
BY DEF TypeOK, Moved

\* A step of a goroutine stays in the type.
LEMMA TypeStep ==
    ASSUME TypeOK, w' \in [Workers -> WorkerRecords], registered' \in Workers \cup {NoWorker},
           row' \in [Messages -> Statuses], effect' \in [AllControls -> {"no", "running", "ran"}],
           LimitsTyped, begun' \subseteq Messages, lost' \subseteq Messages,
           UNCHANGED <<client, stop, order>>
    PROVE  TypeOK'
BY DEF TypeOK, LimitsTyped, client, stop
-----------------------------------------------------------------------------
(* The shapes of the steps.                                                *)

\* Queues are left alone or given up, batches go on or end, and no row of a
\* message that waits is written.
Shrink ==
    /\ \A i \in Workers : /\ w'[i].queue = w[i].queue \/ w'[i].queue = <<>>
                          /\ w'[i].pc \in Busy => Processing(i) /\ w'[i].batch = w[i].batch
    /\ UNCHANGED <<order, begun>>
    /\ \A m \in Messages : ingress[m] = "accepted" => ingress'[m] = "accepted"
    /\ \A i \in Workers : \A m \in Elements(w'[i].queue) : row'[m] = row[m]
    /\ \A c \in AllControls : Held(c)' => Held(c) /\ cut'[c].queue = cut[c].queue

\* Such a step keeps what is known of queues, batches and the order of arrival.
LEMMA ShrinkStep ==
    ASSUME IInv, TypeOK', Shrink
    PROVE  QueueInv' /\ CutInv' /\ OrderInv' /\ NoOvertaking' /\ BatchesAreUniform'
<1> USE DEF IInv
<1>0. /\ \A i \in Workers : w[i].queue \in Seq(Messages) /\ w[i].batch \in Seq(Messages)
      /\ \A c \in AllControls : cut[c].queue \in Seq(Messages)
      /\ order \in Seq(Messages)
  BY DEF TypeOK, WorkerRecords
<1>1. \A i \in Workers : Elements(w'[i].queue) \subseteq Elements(w[i].queue)
                         /\ Elements(w[i].queue) \subseteq Messages
  BY <1>0, EmptyElements, ElementsIn DEF Shrink
<1>2. QueueInv'
  <2> SUFFICES ASSUME NEW i \in Workers
               PROVE  /\ \A k, l \in DOMAIN w'[i].queue : w'[i].queue[k] = w'[i].queue[l] => k = l
                      /\ \A m \in Elements(w'[i].queue) :
                            ingress'[m] = "accepted" /\ row'[m] = "received" /\ m \notin begun'
                      /\ w'[i].pc \in Busy => Elements(w'[i].batch) \subseteq begun'
    BY DEF QueueInv, Processing
  <2>1. \A k, l \in DOMAIN w'[i].queue : w'[i].queue[k] = w'[i].queue[l] => k = l
    BY DEF QueueInv, Shrink
  <2>2. \A m \in Elements(w'[i].queue) : ingress'[m] = "accepted" /\ row'[m] = "received" /\ m \notin begun'
    BY <1>1 DEF QueueInv, Shrink
  <2>3. w'[i].pc \in Busy => Elements(w'[i].batch) \subseteq begun'
    BY DEF QueueInv, Shrink
  <2> QED BY <2>1, <2>2, <2>3
<1>3. CutInv'
  <2>1. \A c \in AllControls : Elements(cut[c].queue) \subseteq Messages BY <1>0, ElementsIn
  <2> QED BY <1>1, <2>1 DEF CutInv, Shrink
<1>4. OrderInv'
  <2>1. Elements(order) \cup begun \subseteq Messages BY <1>0, ElementsIn DEF TypeOK
  <2>2. \A m \in (Elements(order) \cup begun)' : ingress'[m] = "accepted" BY <2>1 DEF OrderInv, Shrink
  <2>3. ASSUME NEW i \in Workers, NEW k \in DOMAIN w'[i].queue, NEW l \in DOMAIN w'[i].queue,
               NEW a \in DOMAIN order, NEW b \in DOMAIN order,
               w'[i].queue[k] = order[a], w'[i].queue[l] = order[b], k < l
        PROVE  a < b
    BY <2>3 DEF OrderInv, Shrink
  <2> QED BY <2>2, <2>3 DEF OrderInv, Shrink
<1>5. NoOvertaking' BY <1>1 DEF NoOvertaking, Waiting, Shrink
<1>6. BatchesAreUniform' BY DEF BatchesAreUniform, Shrink, Processing
<1> QED BY <1>2, <1>3, <1>4, <1>5, <1>6

\* Worker i changes, by its own step or by a call that found it.
LEMMA WorkerStep ==
    ASSUME IInv, TypeOK', NEW i \in Workers,
           \A j \in Workers \ {i} : w'[j] = w[j],
           registered' = registered \/ (registered = i /\ registered' = NoWorker),
           UNCHANGED found, quitting' = "no" => quitting = "no",
           w[i].pc # "unborn", w'[i].pc # "unborn",
           \A m \in Messages : ingress'[m] = "found" => ingress[m] = "found" /\ row'[m] = row[m],
           \A c \in AllControls : submit'[c] = submit[c] \/ (found[c] = i /\ submit[c] # "new"),
           LifeAt(i)', BarrierAt(i)', ControlAt(i)', WakeAt(i)'
    PROVE  FoundInv' /\ WorkerInv'
<1> USE DEF IInv
<1>1. FoundInv'
  <2>1. ASSUME NEW x \in Messages \cup AllControls, found[x] \in Workers PROVE w'[found[x]].pc # "unborn"
    BY <2>1 DEF FoundInv
  <2>2. \A c \in AllControls : submit'[c] \in {"found", "cut", "persist"} => found[c] \in Workers
    BY DEF FoundInv
  <2>3. quitting' = "no" => submit'[Quit] = "new" BY DEF FoundInv, AllControls
  <2> QED BY <2>1, <2>2, <2>3 DEF FoundInv
<1>2. ASSUME NEW j \in Workers \ {i} PROVE LifeAt(j)' /\ BarrierAt(j)' /\ ControlAt(j)' /\ WakeAt(j)'
  <2>1. LifeAt(j)' BY SetsAssumption DEF WorkerInv, LifeAt
  <2>2. BarrierAt(j)' BY DEF WorkerInv, BarrierAt
  <2>3. w[j].controls \in Seq(AllControls) BY DEF TypeOK, WorkerRecords
  <2>4. \A c \in Elements(w[j].controls) : found[c] = j /\ submit'[c] = submit[c]
    BY <2>3, ElementsIn DEF WorkerInv, ControlAt
  <2>5. ControlAt(j)' /\ WakeAt(j)' BY <2>4 DEF WorkerInv, ControlAt, WakeAt
  <2> QED BY <2>1, <2>2, <2>5
<1> QED BY <1>1, <1>2 DEF WorkerInv

\* Both for a step that takes no batch and writes no row of a message that waits.
Goes(i) ==
    /\ \A j \in Workers \ {i} : w'[j] = w[j]
    /\ UNCHANGED <<client, order, begun>>
    /\ w[i].pc # "unborn" /\ w'[i].pc # "unborn"
    /\ w'[i].queue = w[i].queue \/ w'[i].queue = <<>>
    /\ w'[i].pc \in Busy => Processing(i) /\ w'[i].batch = w[i].batch
    /\ Elements(w'[i].controls) \subseteq Elements(w[i].controls)

\* Such a step keeps the invariant when it keeps what is known of its worker.
LEMMA GoesOn ==
    ASSUME IInv, TypeOK', NEW i \in Workers, Goes(i),
           registered' = registered \/ (registered = i /\ registered' = NoWorker),
           quitting' = "no" => quitting = "no",
           \A m \in Messages : row'[m] = row[m] \/ m \in begun
                               \/ (w'[i].queue = <<>> /\ m \in Elements(w[i].queue)),
           LifeAt(i)', BarrierAt(i)', WakeAt(i)'
    PROVE  IInv'
<1> USE DEF IInv
<1>0. \A j \in Workers : w[j].queue \in Seq(Messages) BY DEF TypeOK, WorkerRecords
<1>1. \A j \in Workers : Elements(w[j].queue) \subseteq Messages /\ (w[j].queue # <<>> => registered = j)
  <2> SUFFICES ASSUME NEW j \in Workers
               PROVE  Elements(w[j].queue) \subseteq Messages /\ (w[j].queue # <<>> => registered = j)
    OBVIOUS
  <2>1. Elements(w[j].queue) \subseteq Messages BY <1>0, ElementsIn
  <2>2. w[j].queue # <<>> => registered = j BY DEF WorkerInv, LifeAt
  <2> QED BY <2>1, <2>2
<1>2. \A m \in Messages : ingress[m] = "found" => row'[m] = row[m]
  BY <1>1 DEF QueueInv, OrderInv, TypeOK
<1>3. Shrink
  <2>1. ASSUME NEW j \in Workers, NEW m \in Elements(w'[j].queue) PROVE row'[m] = row[m]
    <3>1. m \in Elements(w[j].queue) /\ m \in Messages /\ w'[j].queue # <<>>
      BY <1>1, <2>1, EmptyElements DEF Goes
    <3>2. m \notin begun BY <3>1 DEF QueueInv
    <3>3. w[j].queue # <<>> BY <3>1, EmptyElements
    <3>4. m \in Elements(w[i].queue) => i = j BY <1>1, <3>3, EmptyElements
    <3> QED BY <3>1, <3>2, <3>4
  <2>2. \A j \in Workers : /\ w'[j].queue = w[j].queue \/ w'[j].queue = <<>>
                           /\ w'[j].pc \in Busy => Processing(j) /\ w'[j].batch = w[j].batch
    BY DEF Goes, Processing
  <2> QED BY <2>1, <2>2 DEF Shrink, Goes, client, Held
<1>4. ControlAt(i)' BY DEF Goes, WorkerInv, ControlAt, client
<1>5. FoundInv' /\ WorkerInv' BY <1>2, <1>4, WorkerStep DEF Goes, client
<1> QED BY <1>3, <1>5, ShrinkStep
-----------------------------------------------------------------------------
(* The goroutine.                                                          *)

\* A worker that runs a batch is registered and not stopped.
LEMMA BusyLives ==
    ASSUME IInv, NEW i \in Workers, w[i].pc \in Busy \/ w[i].queue # <<>>
    PROVE  registered = i /\ w[i].state # "Stopped" /\ w[i].timer # "fired" /\ w[i].pc # "unborn"
BY DEF IInv, WorkerInv, LifeAt, Busy

\* What the goroutine makes of its worker when it takes no batch.
Turned(i, q) ==
    /\ Moved(i, q)
    /\ w[i].pc # "unborn" /\ q.pc # "unborn"
    /\ q.queue = w[i].queue \/ q.queue = <<>>
    /\ q.pc \in Busy => w[i].pc \in Busy /\ q.batch = w[i].batch
    /\ q.controls = w[i].controls \/ (w[i].controls # <<>> /\ q.controls = Tail(w[i].controls))

\* A step of the goroutine that may write rows of messages of its batch, or of
\* a queue that it gives up.
LEMMA BatchStep ==
    ASSUME IInv, NEW i \in Workers, NEW q, Turned(i, q),
           registered' = registered \/ (registered = i /\ registered' = NoWorker),
           row' \in [Messages -> Statuses], effect' \in [AllControls -> {"no", "running", "ran"}],
           \A m \in Messages : row'[m] = row[m] \/ m \in begun
                               \/ (q.queue = <<>> /\ m \in Elements(w[i].queue)),
           LimitsTyped, lost' \subseteq Messages, UNCHANGED <<client, stop, order, begun>>,
           LifeAt(i)', BarrierAt(i)', WakeAt(i)'
    PROVE  IInv'
<1>1. TypeOK'
  <2>1. TypeOK /\ w' \in [Workers -> WorkerRecords] /\ registered' \in Workers \cup {NoWorker}
        /\ begun' \subseteq Messages
    BY DEF IInv, TypeOK, Turned, Moved
  <2> QED BY <2>1, TypeStep
<1>2. Goes(i)
  <2>1. w[i].controls \in Seq(AllControls) BY DEF IInv, TypeOK, WorkerRecords
  <2>2. Elements(w'[i].controls) \subseteq Elements(w[i].controls)
    BY <2>1, TailElements DEF Turned, Moved
  <2> QED BY <2>2 DEF Goes, Turned, Moved, Processing
<1> QED BY <1>1, <1>2, GoesOn DEF Turned, Moved, stop

\* A step that writes no row.
LEMMA QuietStep ==
    ASSUME IInv, NEW i \in Workers, NEW q, Turned(i, q),
           registered' = registered \/ (registered = i /\ registered' = NoWorker),
           effect' \in [AllControls -> {"no", "running", "ran"}],
           LimitsTyped, UNCHANGED <<row, client, stop, past>>,
           LifeAt(i)', BarrierAt(i)', WakeAt(i)'
    PROVE  IInv'
BY BatchStep DEF IInv, TypeOK, past

\* A step that only changes the worker.
LEMMA SilentStep ==
    ASSUME IInv, NEW i \in Workers, NEW q, Turned(i, q),
           UNCHANGED <<registered, row, client, effect, stop, limits, past>>,
           LifeAt(i)', BarrierAt(i)', WakeAt(i)'
    PROVE  IInv'
BY QuietStep, Counting DEF IInv, TypeOK

\* The token is taken; controls and queue are looked at next.
LEMMA WakeStep ==
    ASSUME IInv, NEW i \in Workers, Wake(i)
    PROVE  IInv'
<1> DEFINE q == [w[i] EXCEPT !.pc = "loop", !.wake = FALSE]
<1>0. TypeOK /\ w[i] \in WorkerRecords BY DEF IInv, TypeOK
<1>1. q \in WorkerRecords BY <1>0 DEF WorkerRecords, PCs
<1>2. /\ w[i].pc = "select" /\ q.pc = "loop" /\ q.queue = w[i].queue /\ q.controls = w[i].controls
      /\ q.state = w[i].state /\ q.timer = w[i].timer /\ q.barrier = w[i].barrier
  BY <1>0 DEF WorkerRecords, Wake
<1>3. w' = [w EXCEPT ![i] = q] BY DEF Wake
<1> HIDE DEF q
<1>4. Moved(i, q) BY <1>0, <1>1, <1>3, Moves
<1>5. Turned(i, q) BY <1>2, <1>4 DEF Turned, Busy
<1>6. LifeAt(i) /\ BarrierAt(i) /\ WakeAt(i) BY DEF IInv, WorkerInv
<1>7. LifeAt(i)' /\ BarrierAt(i)' /\ WakeAt(i)'
  BY <1>2, <1>4, <1>6 DEF Moved, LifeAt, BarrierAt, WakeAt, Busy, Wake
<1> QED BY <1>5, <1>7, SilentStep DEF Wake

\* The goroutine ends; its worker stays registered only when the process ends.
LEMMA ExitStep ==
    ASSUME IInv, NEW i \in Workers, Exit(i)
    PROVE  IInv'
<1> DEFINE q == [w[i] EXCEPT !.pc = "gone"]
<1>0. TypeOK /\ w[i] \in WorkerRecords BY DEF IInv, TypeOK
<1>1. q \in WorkerRecords BY <1>0 DEF WorkerRecords, PCs
<1>2. /\ w[i].pc = "select" /\ q.pc = "gone" /\ q.queue = w[i].queue /\ q.controls = w[i].controls
      /\ q.state = w[i].state /\ q.timer = w[i].timer /\ q.barrier = w[i].barrier
  BY <1>0 DEF WorkerRecords, Exit
<1>3. w' = [w EXCEPT ![i] = q] BY DEF Exit
<1> HIDE DEF q
<1>4. Moved(i, q) BY <1>0, <1>1, <1>3, Moves
<1>5. Turned(i, q) BY <1>2, <1>4 DEF Turned, Busy
<1>6. LifeAt(i) /\ BarrierAt(i) /\ WakeAt(i) BY DEF IInv, WorkerInv
<1>7. LifeAt(i)' /\ BarrierAt(i)' /\ WakeAt(i)'
  BY <1>2, <1>4, <1>6 DEF Moved, LifeAt, BarrierAt, WakeAt, Busy, Exit
<1> QED BY <1>5, <1>7, SilentStep DEF Exit

\* The batch gets its context.
LEMMA setActiveStep ==
    ASSUME IInv, NEW i \in Workers, setActive(i)
    PROVE  IInv'
<1> DEFINE q == [w[i] EXCEPT !.cancelFn = TRUE,
                         !.ctx = IF w[i].cancelled \/ Dead THEN "cancelled" ELSE "live",
                         !.pc = IF IsScheduled(w[i].batch) THEN "turn" ELSE "goal"]
<1>0. TypeOK /\ w[i] \in WorkerRecords BY DEF IInv, TypeOK
<1>1. q \in WorkerRecords BY <1>0 DEF WorkerRecords, PCs, Busy
<1>2. /\ w[i].pc = "start" /\ q.pc \in {"turn", "goal"} /\ q.batch = w[i].batch
      /\ q.queue = w[i].queue /\ q.controls = w[i].controls
      /\ q.state = w[i].state /\ q.timer = w[i].timer /\ q.barrier = w[i].barrier
  BY <1>0 DEF WorkerRecords, setActive
<1>3. w' = [w EXCEPT ![i] = q] BY DEF setActive
<1> HIDE DEF q
<1>4. Moved(i, q) BY <1>0, <1>1, <1>3, Moves
<1>5. Turned(i, q) BY <1>2, <1>4 DEF Turned, Busy
<1>6. LifeAt(i) /\ BarrierAt(i) /\ WakeAt(i) BY DEF IInv, WorkerInv
<1>7. LifeAt(i)' /\ BarrierAt(i)' /\ WakeAt(i)'
  BY <1>2, <1>4, <1>6 DEF Moved, LifeAt, BarrierAt, WakeAt, Busy, setActive
<1> QED BY <1>5, <1>7, SilentStep DEF setActive

\* The batch is known as a goal.
LEMMA setGoalBatchStep ==
    ASSUME IInv, NEW i \in Workers, setGoalBatch(i)
    PROVE  IInv'
<1> DEFINE q == [w[i] EXCEPT !.goal = (w[i].batch[1] \in Goals), !.pc = "turn"]
<1>0. TypeOK /\ w[i] \in WorkerRecords BY DEF IInv, TypeOK
<1>a. (w[i].batch[1] \in Goals) \in BOOLEAN OBVIOUS
<1>b. \A g \in BOOLEAN : [w[i] EXCEPT !.goal = g, !.pc = "turn"] \in WorkerRecords
  BY <1>0 DEF WorkerRecords, PCs, Busy
<1>1. q \in WorkerRecords BY <1>a, <1>b, Zenon
<1>2. /\ w[i].pc = "goal" /\ q.pc = "turn" /\ q.batch = w[i].batch
      /\ q.queue = w[i].queue /\ q.controls = w[i].controls
      /\ q.state = w[i].state /\ q.timer = w[i].timer /\ q.barrier = w[i].barrier
  BY <1>0 DEF WorkerRecords, setGoalBatch
<1>3. w' = [w EXCEPT ![i] = q] BY DEF setGoalBatch
<1> HIDE DEF q
<1>4. Moved(i, q) BY <1>0, <1>1, <1>3, Moves
<1>5. Turned(i, q) BY <1>2, <1>4 DEF Turned, Busy
<1>6. LifeAt(i) /\ BarrierAt(i) /\ WakeAt(i) BY DEF IInv, WorkerInv
<1>7. LifeAt(i)' /\ BarrierAt(i)' /\ WakeAt(i)'
  BY <1>2, <1>4, <1>6 DEF Moved, LifeAt, BarrierAt, WakeAt, Busy, setGoalBatch
<1> QED BY <1>5, <1>7, SilentStep DEF setGoalBatch

\* The worker is stopping while it drains, and stays registered.
LEMMA ContextDoneStep ==
    ASSUME IInv, NEW i \in Workers, ContextDone(i)
    PROVE  IInv'
<1> DEFINE q == [w[i] EXCEPT !.state = "Stopping", !.pc = "drain"]
<1>0. TypeOK /\ w[i] \in WorkerRecords BY DEF IInv, TypeOK
<1>1. q \in WorkerRecords BY <1>0 DEF WorkerRecords, PCs, Busy, States
<1>2. /\ w[i].pc = "turn" /\ q.pc = "drain" /\ q.batch = w[i].batch
      /\ q.queue = w[i].queue /\ q.controls = w[i].controls
      /\ q.state = "Stopping" /\ q.timer = w[i].timer /\ q.barrier = w[i].barrier
  BY <1>0 DEF WorkerRecords, ContextDone
<1>3. w' = [w EXCEPT ![i] = q] BY DEF ContextDone
<1> HIDE DEF q
<1>4. Moved(i, q) BY <1>0, <1>1, <1>3, Moves
<1>5. Turned(i, q) BY <1>2, <1>4 DEF Turned, Busy
<1>6. LifeAt(i) /\ BarrierAt(i) /\ WakeAt(i) BY DEF IInv, WorkerInv
<1>7. LifeAt(i)' /\ BarrierAt(i)' /\ WakeAt(i)'
  BY <1>2, <1>4, <1>6 DEF Moved, LifeAt, BarrierAt, WakeAt, Busy, ContextDone
<1> QED BY <1>5, <1>7, SilentStep DEF ContextDone

\* The arbiter decides the outcome of the batch.
LEMMA ReadTerminalStep ==
    ASSUME IInv, NEW i \in Workers, ReadTerminal(i)
    PROVE  IInv'
<1> DEFINE q == [w[i] EXCEPT !.pc = "settle",
                         !.err = IF /\ w[i].cancelled
                                    /\ ~IsScheduled(w[i].batch) \/ w[i].err = "ok" THEN "error" ELSE w[i].err]
<1>0. TypeOK /\ w[i] \in WorkerRecords BY DEF IInv, TypeOK
<1>1. q \in WorkerRecords BY <1>0 DEF WorkerRecords, PCs, Busy
<1>2. /\ w[i].pc = "ended" /\ q.pc = "settle" /\ q.batch = w[i].batch
      /\ q.queue = w[i].queue /\ q.controls = w[i].controls
      /\ q.state = w[i].state /\ q.timer = w[i].timer /\ q.barrier = w[i].barrier
  BY <1>0 DEF WorkerRecords, ReadTerminal
<1>3. w' = [w EXCEPT ![i] = q] BY DEF ReadTerminal
<1> HIDE DEF q
<1>4. Moved(i, q) BY <1>0, <1>1, <1>3, Moves
<1>5. Turned(i, q) BY <1>2, <1>4 DEF Turned, Busy
<1>6. LifeAt(i) /\ BarrierAt(i) /\ WakeAt(i) BY DEF IInv, WorkerInv
<1>7. LifeAt(i)' /\ BarrierAt(i)' /\ WakeAt(i)'
  BY <1>2, <1>4, <1>6 DEF Moved, LifeAt, BarrierAt, WakeAt, Busy, ReadTerminal
<1> QED BY <1>5, <1>7, SilentStep DEF ReadTerminal

\* The deadline passes; only the context knows.
LEMMA TimeoutStep ==
    ASSUME IInv, NEW i \in Workers, Timeout(i)
    PROVE  IInv'
<1> DEFINE q == [w[i] EXCEPT !.ctx = "deadline"]
<1>0. TypeOK /\ w[i] \in WorkerRecords BY DEF IInv, TypeOK
<1>1. q \in WorkerRecords BY <1>0 DEF WorkerRecords, PCs
<1>2. /\ w[i].pc = "turn" /\ q.pc = "turn" /\ q.batch = w[i].batch
      /\ q.queue = w[i].queue /\ q.controls = w[i].controls
      /\ q.state = w[i].state /\ q.timer = w[i].timer /\ q.barrier = w[i].barrier
  BY <1>0 DEF WorkerRecords, Timeout
<1>3. w' = [w EXCEPT ![i] = q] BY DEF Timeout
<1> HIDE DEF q
<1>4. Moved(i, q) BY <1>0, <1>1, <1>3, Moves
<1>5. Turned(i, q) BY <1>2, <1>4 DEF Turned, Busy
<1>6. LifeAt(i) /\ BarrierAt(i) /\ WakeAt(i) BY DEF IInv, WorkerInv
<1>7. LifeAt(i)' /\ BarrierAt(i)' /\ WakeAt(i)'
  BY <1>2, <1>4, <1>6 DEF Moved, LifeAt, BarrierAt, WakeAt, Busy, Timeout
<1>8. LimitsTyped /\ effect \in [AllControls -> {"no", "running", "ran"}]
  BY <1>0 DEF Timeout, TypeOK, LimitsTyped
<1> QED BY <1>5, <1>7, QuietStep, <1>8 DEF Timeout

\* A stopped worker leaves the registry.
LEMMA removeFromManagerStep ==
    ASSUME IInv, NEW i \in Workers, removeFromManager(i)
    PROVE  IInv'
<1> DEFINE q == [w[i] EXCEPT !.pc = "clear", !.stopped = TRUE]
<1>0. TypeOK /\ w[i] \in WorkerRecords BY DEF IInv, TypeOK
<1>1. q \in WorkerRecords BY <1>0 DEF WorkerRecords, PCs
<1>2. /\ w[i].pc = "remove" /\ q.pc = "clear" /\ q.queue = w[i].queue /\ q.controls = w[i].controls
      /\ q.state = w[i].state /\ q.timer = w[i].timer /\ q.barrier = w[i].barrier
  BY <1>0 DEF WorkerRecords, removeFromManager
<1>3. w' = [w EXCEPT ![i] = q] BY DEF removeFromManager
<1> HIDE DEF q
<1>4. Moved(i, q) BY <1>0, <1>1, <1>3, Moves
<1>5. Turned(i, q) BY <1>2, <1>4 DEF Turned, Busy
<1>6. LifeAt(i) /\ BarrierAt(i) /\ WakeAt(i) BY DEF IInv, WorkerInv
<1>7. LifeAt(i)' /\ BarrierAt(i)' /\ WakeAt(i)'
  BY <1>2, <1>4, <1>6, SetsAssumption DEF Moved, LifeAt, BarrierAt, WakeAt, Busy, removeFromManager, Unregister
<1>8. /\ LimitsTyped /\ effect' \in [AllControls -> {"no", "running", "ran"}]
      /\ registered' = registered \/ (registered = i /\ registered' = NoWorker)
  BY <1>0, Counting DEF TypeOK, removeFromManager, Unregister
<1> QED BY <1>5, <1>7, QuietStep, <1>8 DEF removeFromManager

\* A worker that the idle timer stopped leaves the registry.
LEMMA IdleRemoveStep ==
    ASSUME IInv, NEW i \in Workers, IdleRemove(i)
    PROVE  IInv'
<1> DEFINE q == [w[i] EXCEPT !.stopped = TRUE, !.timer = "off"]
<1>0. TypeOK /\ w[i] \in WorkerRecords BY DEF IInv, TypeOK
<1>1. q \in WorkerRecords BY <1>0 DEF WorkerRecords, PCs
<1>2. /\ w[i].pc # "unborn" /\ w[i].timer = "fired" /\ q.pc = w[i].pc /\ q.batch = w[i].batch
      /\ q.queue = w[i].queue /\ q.controls = w[i].controls
      /\ q.state = w[i].state /\ q.timer = "off" /\ q.barrier = w[i].barrier /\ q.wake = w[i].wake
  BY <1>0 DEF WorkerRecords, IdleRemove, IInv, WorkerInv, LifeAt
<1>3. w' = [w EXCEPT ![i] = q] BY DEF IdleRemove
<1> HIDE DEF q
<1>4. Moved(i, q) BY <1>0, <1>1, <1>3, Moves
<1>5. Turned(i, q) BY <1>2, <1>4 DEF Turned, Busy
<1>6. LifeAt(i) /\ BarrierAt(i) /\ WakeAt(i) BY DEF IInv, WorkerInv
<1>7. LifeAt(i)' /\ BarrierAt(i)' /\ WakeAt(i)'
  BY <1>2, <1>4, <1>6, SetsAssumption DEF Moved, LifeAt, BarrierAt, WakeAt, Busy, IdleRemove, Unregister, client
<1>8. /\ LimitsTyped /\ effect' \in [AllControls -> {"no", "running", "ran"}]
      /\ registered' = registered \/ (registered = i /\ registered' = NoWorker)
  BY <1>0, Counting DEF TypeOK, IdleRemove, Unregister
<1> QED BY <1>5, <1>7, QuietStep, <1>8 DEF IdleRemove

\* The barrier stays up while further controls wait.
LEMMA processControlStep ==
    ASSUME IInv, NEW i \in Workers, processControl(i)
    PROVE  IInv'
<1> DEFINE q == [w[i] EXCEPT !.pc = "loop", !.wake = TRUE,
                         !.barrier = w[i].barrier /\ w[i].controls # <<>>]
<1>0. TypeOK /\ w[i] \in WorkerRecords BY DEF IInv, TypeOK
<1>a. (w[i].barrier /\ w[i].controls # <<>>) \in BOOLEAN OBVIOUS
<1>b. \A b \in BOOLEAN : [w[i] EXCEPT !.pc = "loop", !.wake = TRUE, !.barrier = b] \in WorkerRecords
  BY <1>0 DEF WorkerRecords, PCs
<1>1. q \in WorkerRecords BY <1>a, <1>b, Zenon
<1>2. /\ w[i].pc = "control" /\ q.pc = "loop" /\ q.queue = w[i].queue /\ q.controls = w[i].controls
      /\ q.state = w[i].state /\ q.timer = w[i].timer
      /\ q.barrier = (w[i].barrier /\ w[i].controls # <<>>)
  BY <1>0 DEF WorkerRecords, processControl
<1>3. w' = [w EXCEPT ![i] = q] BY DEF processControl
<1> HIDE DEF q
<1>4. Moved(i, q) BY <1>0, <1>1, <1>3, Moves
<1>5. Turned(i, q) BY <1>2, <1>4 DEF Turned, Busy
<1>6. LifeAt(i) /\ BarrierAt(i) /\ WakeAt(i) BY DEF IInv, WorkerInv
<1>7. LifeAt(i)' /\ BarrierAt(i)' /\ WakeAt(i)'
  BY <1>2, <1>4, <1>6 DEF Moved, LifeAt, BarrierAt, WakeAt, Busy, processControl
<1>8. /\ LimitsTyped /\ effect' \in [AllControls -> {"no", "running", "ran"}]
      /\ registered' = registered \/ (registered = i /\ registered' = NoWorker)
  BY <1>0, Counting DEF TypeOK, processControl
<1> QED BY <1>5, <1>7, QuietStep, <1>8 DEF processControl

\* The fields of the batch are cleared.
LEMMA clearActiveStep ==
    ASSUME IInv, NEW i \in Workers, clearActive(i)
    PROVE  IInv'
<1> DEFINE q == IF w[i].cancelFn
                 THEN [w[i] EXCEPT !.pc = "loop", !.active = FALSE, !.cancelFn = FALSE,
                                   !.cancelled = FALSE, !.goal = FALSE]
                 ELSE [w[i] EXCEPT !.pc = "loop"]
<1>0. TypeOK /\ w[i] \in WorkerRecords BY DEF IInv, TypeOK
<1>1. q \in WorkerRecords BY <1>0 DEF WorkerRecords, PCs
<1>2. /\ w[i].pc = "clear" /\ q.pc = "loop" /\ q.queue = w[i].queue /\ q.controls = w[i].controls
      /\ q.state = w[i].state /\ q.timer = w[i].timer /\ q.barrier = w[i].barrier
  BY <1>0 DEF WorkerRecords, clearActive
<1>3. w' = [w EXCEPT ![i] = q] BY DEF clearActive
<1> HIDE DEF q
<1>4. Moved(i, q) BY <1>0, <1>1, <1>3, Moves
<1>5. Turned(i, q) BY <1>2, <1>4 DEF Turned, Busy
<1>6. LifeAt(i) /\ BarrierAt(i) /\ WakeAt(i) BY DEF IInv, WorkerInv
<1>7. LifeAt(i)' /\ BarrierAt(i)' /\ WakeAt(i)'
  BY <1>2, <1>4, <1>6 DEF Moved, LifeAt, BarrierAt, WakeAt, Busy, clearActive
<1> QED BY <1>5, <1>7, SilentStep DEF clearActive

\* The processor returns.
LEMMA TurnEndsStep ==
    ASSUME IInv, NEW i \in Workers, TurnEnds(i)
    PROVE  IInv'
<1>0. TypeOK /\ w[i] \in WorkerRecords BY DEF IInv, TypeOK
<1>a. PICK e \in {"ok", "error", "deadline"} : w' = [w EXCEPT ![i] = [w[i] EXCEPT !.err = e, !.pc = "ended"]]
  BY DEF TurnEnds
<1> DEFINE q == [w[i] EXCEPT !.err = e, !.pc = "ended"]
<1>1. q \in WorkerRecords BY <1>0 DEF WorkerRecords, PCs, Busy
<1>2. /\ w[i].pc \in {"turn", "drain"} /\ q.pc = "ended" /\ q.batch = w[i].batch
      /\ q.queue = w[i].queue /\ q.controls = w[i].controls
      /\ q.state = w[i].state /\ q.timer = w[i].timer /\ q.barrier = w[i].barrier
  BY <1>0 DEF WorkerRecords, TurnEnds
<1>3. w' = [w EXCEPT ![i] = q] BY <1>a
<1> HIDE DEF q
<1>4. Moved(i, q) BY <1>0, <1>1, <1>3, Moves
<1>5. Turned(i, q) BY <1>2, <1>4 DEF Turned, Busy
<1>6. LifeAt(i) /\ BarrierAt(i) BY DEF IInv, WorkerInv
<1>7. LifeAt(i)' /\ BarrierAt(i)' /\ WakeAt(i)'
  BY <1>2, <1>4, <1>6 DEF Moved, LifeAt, BarrierAt, WakeAt, Busy, TurnEnds
<1> QED BY <1>5, <1>7, SilentStep DEF TurnEnds

\* The timer looks at the worker under its lock: a worker that it stops has no
\* batch and an empty queue.
LEMMA IdleTimerStep ==
    ASSUME IInv, NEW i \in Workers, IdleTimer(i)
    PROVE  IInv'
<1> DEFINE idle == w[i].state = "Idle" /\ ~Processing(i) /\ w[i].queue = <<>>
           q == IF idle THEN [w[i] EXCEPT !.state = "Stopped", !.timer = "fired"]
                ELSE [w[i] EXCEPT !.timer = "off"]
<1>0. TypeOK /\ w[i] \in WorkerRecords BY DEF IInv, TypeOK
<1>1. q \in WorkerRecords BY <1>0 DEF WorkerRecords, States
<1>2. /\ w[i].pc # "unborn" /\ q.pc = w[i].pc /\ q.batch = w[i].batch
      /\ q.queue = w[i].queue /\ q.controls = w[i].controls
      /\ q.barrier = w[i].barrier /\ q.wake = w[i].wake
  BY <1>0 DEF WorkerRecords, IdleTimer, IInv, WorkerInv, LifeAt
<1>3. \/ /\ w[i].queue = <<>> /\ w[i].pc \notin Busy /\ q.state = "Stopped"
      \/ /\ q.state = w[i].state /\ q.timer = "off"
  BY <1>0 DEF WorkerRecords, Processing
<1>4. w' = [w EXCEPT ![i] = q] BY DEF IdleTimer
<1> HIDE DEF q
<1>5. Moved(i, q) BY <1>0, <1>1, <1>4, Moves
<1>6. Turned(i, q) BY <1>2, <1>5 DEF Turned
<1>7. LifeAt(i) /\ BarrierAt(i) /\ WakeAt(i) BY DEF IInv, WorkerInv
<1>8. UNCHANGED <<registered, submit>> BY DEF IdleTimer, client
<1>9. LifeAt(i)' /\ BarrierAt(i)' /\ WakeAt(i)'
  BY <1>2, <1>3, <1>5, <1>7, <1>8 DEF Moved, LifeAt, BarrierAt, WakeAt
<1>10. LimitsTyped /\ effect \in [AllControls -> {"no", "running", "ran"}]
  BY <1>0 DEF IdleTimer, TypeOK, LimitsTyped
<1> QED BY <1>6, <1>8, <1>9, <1>10, QuietStep DEF IdleTimer

\* A control is begun behind the barrier; without one the queue is next.
LEMMA nextControlStep ==
    ASSUME IInv, NEW i \in Workers, nextControl(i)
    PROVE  IInv'
<1>0. /\ TypeOK /\ w[i] \in WorkerRecords /\ w[i].pc = "loop"
      /\ LifeAt(i) /\ BarrierAt(i) /\ UNCHANGED <<registered, row, client, stop, limits, past>>
  BY DEF IInv, TypeOK, WorkerInv, nextControl
<1>1. CASE w[i].controls = <<>> /\ w' = [w EXCEPT ![i].pc = "batch"] /\ UNCHANGED effect
  <2> DEFINE q == [w[i] EXCEPT !.pc = "batch"]
  <2>1. q \in WorkerRecords BY <1>0 DEF WorkerRecords, PCs
  <2>2. /\ q.pc = "batch" /\ q.queue = w[i].queue /\ q.controls = w[i].controls
        /\ q.state = w[i].state /\ q.timer = w[i].timer /\ q.barrier = w[i].barrier
    BY <1>0 DEF WorkerRecords
  <2>3. w' = [w EXCEPT ![i] = q] BY <1>1
  <2> HIDE DEF q
  <2>4. Moved(i, q) BY <1>0, <2>1, <2>3, Moves
  <2>5. Turned(i, q) BY <1>0, <2>2, <2>4 DEF Turned, Busy
  <2>6. LifeAt(i)' /\ BarrierAt(i)' /\ WakeAt(i)'
    BY <1>0, <1>1, <2>2, <2>4, EmptyElements DEF Moved, LifeAt, BarrierAt, WakeAt, Busy
  <2> QED BY <1>0, <1>1, <2>5, <2>6, SilentStep
<1>2. CASE /\ w[i].controls # <<>>
           /\ w' = [w EXCEPT ![i] = [w[i] EXCEPT !.pc = "control", !.control = Head(w[i].controls),
                                                 !.controls = Tail(w[i].controls)]]
           /\ effect' = [effect EXCEPT ![Head(w[i].controls)] = "running"]
  <2> DEFINE q == [w[i] EXCEPT !.pc = "control", !.control = Head(w[i].controls),
                               !.controls = Tail(w[i].controls)]
  <2>0. w[i].controls \in Seq(AllControls) BY <1>0 DEF WorkerRecords
  <2>1. Head(w[i].controls) \in AllControls /\ Tail(w[i].controls) \in Seq(AllControls)
    BY <1>2, <2>0, TailElements
  <2>2. q \in WorkerRecords BY <1>0, <2>1 DEF WorkerRecords, PCs
  <2>3. /\ q.pc = "control" /\ q.queue = w[i].queue /\ q.controls = Tail(w[i].controls)
        /\ q.state = w[i].state /\ q.timer = w[i].timer /\ q.barrier = w[i].barrier
    BY <1>0 DEF WorkerRecords
  <2>4. w' = [w EXCEPT ![i] = q] BY <1>2
  <2> HIDE DEF q
  <2>5. Moved(i, q) BY <1>0, <2>2, <2>4, Moves
  <2>6. Turned(i, q) BY <1>0, <1>2, <2>3, <2>5 DEF Turned, Busy
  <2>7. LifeAt(i)' /\ BarrierAt(i)' /\ WakeAt(i)'
    BY <1>0, <1>2, <2>3, <2>5 DEF Moved, LifeAt, BarrierAt, WakeAt, Busy
  <2>8. effect' \in [AllControls -> {"no", "running", "ran"}] /\ LimitsTyped
    BY <1>0, <1>2, <2>1, Counting DEF TypeOK
  <2> QED BY <1>0, <2>6, <2>7, <2>8, QuietStep
<1> QED BY <1>1, <1>2 DEF nextControl

\* The rows of a batch are those of messages that were taken.
LEMMA BatchRows ==
    ASSUME IInv, NEW i \in Workers, w[i].pc \in Busy
    PROVE  /\ Elements(w[i].batch) \subseteq Messages
           /\ \A to \in Statuses :
                 /\ Rows(Elements(w[i].batch), to) \in [Messages -> Statuses]
                 /\ \A m \in Messages : Rows(Elements(w[i].batch), to)[m] = row[m] \/ m \in begun
<1>1. TypeOK /\ w[i].batch \in Seq(Messages) /\ Elements(w[i].batch) \subseteq begun
  BY DEF IInv, TypeOK, WorkerRecords, QueueInv, Processing
<1>2. Elements(w[i].batch) \subseteq Messages BY <1>1, ElementsIn
<1> QED BY <1>1, <1>2, RowsTyped

\* The statuses that the handlers write.
LEMMA Written == {"processing", "succeeded", "failed", "received"} \subseteq Statuses
BY DEF Statuses

\* The end of a batch: its rows are written or left behind.
LEMMA SettledStep ==
    ASSUME IInv, NEW i \in Workers, Settle(i) \/ finishScheduled(i)
    PROVE  IInv'
<1>0. TypeOK /\ w[i] \in WorkerRecords BY DEF IInv, TypeOK
<1>a. PICK e \in {"ok", "error", "deadline"} : w' = [w EXCEPT ![i] = [w[i] EXCEPT !.pc = "finish", !.err = e]]
  <2>1. CASE Settle(i)
    <3>1. w[i].err \in {"ok", "error", "deadline"} BY <1>0 DEF WorkerRecords
    <3> QED BY <2>1, <3>1 DEF Settle
  <2>2. CASE finishScheduled(i)
    <3>1. w[i].err \in {"ok", "error", "deadline"} BY <1>0 DEF WorkerRecords
    <3>2. [w[i] EXCEPT !.pc = "finish"] = [w[i] EXCEPT !.pc = "finish", !.err = w[i].err] BY <1>0 DEF WorkerRecords
    <3>3. w' = [w EXCEPT ![i] = [w[i] EXCEPT !.pc = "finish"]] BY <2>2 DEF finishScheduled
    <3> QED BY <3>1, <3>2, <3>3
  <2> QED BY <2>1, <2>2
<1> DEFINE q == [w[i] EXCEPT !.pc = "finish", !.err = e]
<1>1. q \in WorkerRecords BY <1>0 DEF WorkerRecords, PCs, Busy
<1>2. /\ w[i].pc = "settle" /\ q.pc = "finish" /\ q.batch = w[i].batch
      /\ q.queue = w[i].queue /\ q.controls = w[i].controls
      /\ q.state = w[i].state /\ q.timer = w[i].timer /\ q.barrier = w[i].barrier
  BY <1>0 DEF WorkerRecords, Settle, finishScheduled
<1>3. w' = [w EXCEPT ![i] = q] BY <1>a
<1> HIDE DEF q
<1>4. Moved(i, q) BY <1>0, <1>1, <1>3, Moves
<1>5. Turned(i, q) BY <1>2, <1>4 DEF Turned, Busy
<1>6. LifeAt(i) /\ BarrierAt(i) BY DEF IInv, WorkerInv
<1>7. UNCHANGED <<registered, client, effect, stop, order, begun>> BY DEF Settle, finishScheduled
<1>8. LifeAt(i)' /\ BarrierAt(i)' /\ WakeAt(i)'
  BY <1>2, <1>4, <1>6, <1>7 DEF Moved, LifeAt, BarrierAt, WakeAt, Busy
<1>9. \/ /\ \E to \in Statuses : row' = Rows(Elements(w[i].batch), to)
         /\ UNCHANGED <<limits, lost>>
      \/ /\ Fault \/ UNCHANGED limits
         /\ lost' = lost \cup Elements(w[i].batch)
         /\ UNCHANGED row
  BY Written DEF Settle, finishScheduled
<1>10. /\ row' \in [Messages -> Statuses] /\ lost' \subseteq Messages
       /\ \A m \in Messages : row'[m] = row[m] \/ m \in begun
  <2>1. w[i].pc \in Busy BY <1>2 DEF Busy
  <2> QED BY <1>0, <1>9, <2>1, BatchRows DEF TypeOK
<1>11. LimitsTyped /\ effect' \in [AllControls -> {"no", "running", "ran"}]
  BY <1>0, <1>7, <1>9, Counting DEF TypeOK
<1> QED BY <1>5, <1>7, <1>8, <1>10, <1>11, BatchStep

\* The card is made, or the batch fails at once.
LEMMA CreateCardStep ==
    ASSUME IInv, NEW i \in Workers, CreateCard(i)
    PROVE  IInv'
<1> DEFINE go   == [w[i] EXCEPT !.pc = "start",
                                !.state = IF IsScheduled(w[i].batch) THEN w[i].state ELSE "InProcess"]
           run  == [w[i] EXCEPT !.pc = "start", !.state = "InProcess"]
           fail == [w[i] EXCEPT !.pc = "finish", !.err = "error"]
<1>0. /\ TypeOK /\ w[i] \in WorkerRecords /\ w[i].pc = "card"
      /\ UNCHANGED <<registered, client, effect, stop, order, begun>>
  BY DEF IInv, TypeOK, CreateCard
<1>1. \E q \in {go, run, fail} : w' = [w EXCEPT ![i] = q] BY DEF CreateCard
<1>2. go \in WorkerRecords /\ run \in WorkerRecords /\ fail \in WorkerRecords
  BY <1>0 DEF WorkerRecords, PCs, Busy, States
<1>3. w[i].pc \in Busy BY <1>0 DEF Busy
<1>4. w[i].state # "Stopped" /\ registered = i BY <1>3, BusyLives
<1>5. \A q \in {go, run, fail} :
          /\ q.pc \in {"start", "finish"} /\ q.batch = w[i].batch
          /\ q.queue = w[i].queue /\ q.controls = w[i].controls
          /\ q.state # "Stopped" /\ q.timer = w[i].timer /\ q.barrier = w[i].barrier
  BY <1>0, <1>4 DEF WorkerRecords
<1>6. PICK q \in {go, run, fail} : w' = [w EXCEPT ![i] = q] BY <1>1
<1>7. /\ q \in WorkerRecords /\ q.pc \in {"start", "finish"} /\ q.batch = w[i].batch
      /\ q.queue = w[i].queue /\ q.controls = w[i].controls
      /\ q.state # "Stopped" /\ q.timer = w[i].timer /\ q.barrier = w[i].barrier
  BY <1>2, <1>5
<1> HIDE DEF go, run, fail
<1>8. Moved(i, q) BY <1>0, <1>6, <1>7, Moves
<1>9. Turned(i, q) BY <1>0, <1>3, <1>7, <1>8 DEF Turned, Busy
<1>10. LifeAt(i) /\ BarrierAt(i) BY DEF IInv, WorkerInv
<1>11. LifeAt(i)' /\ BarrierAt(i)' /\ WakeAt(i)'
  BY <1>0, <1>4, <1>7, <1>8, <1>10 DEF Moved, LifeAt, BarrierAt, WakeAt, Busy
<1>12. \/ /\ \E to \in Statuses : row' = Rows(Elements(w[i].batch), to)
          /\ UNCHANGED <<limits, lost>>
       \/ /\ Fault \/ UNCHANGED limits
          /\ lost' = lost \cup Elements(w[i].batch)
          /\ UNCHANGED row
  BY Written DEF CreateCard
<1>13. /\ row' \in [Messages -> Statuses] /\ lost' \subseteq Messages
       /\ \A m \in Messages : row'[m] = row[m] \/ m \in begun
  BY <1>0, <1>3, <1>12, BatchRows DEF TypeOK
<1>14. LimitsTyped /\ effect' \in [AllControls -> {"no", "running", "ran"}]
  BY <1>0, <1>12, Counting DEF TypeOK
<1> QED BY <1>0, <1>9, <1>11, <1>13, <1>14, BatchStep

\* After a timeout the worker is stopped with an empty queue; otherwise it is
\* idle, and a queue that is not empty leaves a token.
LEMMA FinishStep ==
    ASSUME IInv, NEW i \in Workers, Finish(i)
    PROVE  IInv'
<1>0. /\ TypeOK /\ w[i] \in WorkerRecords /\ w[i].pc = "finish" /\ w[i].pc \in Busy
      /\ UNCHANGED <<registered, client, effect, stop, limits, order, begun>>
      /\ LifeAt(i) /\ BarrierAt(i)
  BY DEF IInv, TypeOK, WorkerInv, Finish, Busy
<1>1. w[i].state # "Stopped" /\ registered = i /\ w[i].timer # "fired" BY <1>0, BusyLives
<1>2. LimitsTyped /\ effect' \in [AllControls -> {"no", "running", "ran"}]
  BY <1>0, Counting DEF TypeOK
<1>3. CASE w[i].err = "deadline"
  <2> DEFINE q == [w[i] EXCEPT !.pc = "remove", !.state = "Stopped", !.queue = <<>>]
  <2>1. q \in WorkerRecords BY <1>0, EmptySeq DEF WorkerRecords, PCs, States
  <2>2. /\ q.pc = "remove" /\ q.queue = <<>> /\ q.controls = w[i].controls
        /\ q.state = "Stopped" /\ q.timer = w[i].timer /\ q.barrier = w[i].barrier
    BY <1>0 DEF WorkerRecords
  <2>3. w' = [w EXCEPT ![i] = q] BY <1>3 DEF Finish
  <2> HIDE DEF q
  <2>4. Moved(i, q) BY <1>0, <2>1, <2>3, Moves
  <2>5. Turned(i, q) BY <1>0, <2>2, <2>4 DEF Turned, Busy
  <2>6. LifeAt(i)' /\ BarrierAt(i)' /\ WakeAt(i)'
    BY <1>0, <1>1, <2>2, <2>4 DEF Moved, LifeAt, BarrierAt, WakeAt, Busy
  <2>7. w[i].queue \in Seq(Messages) BY <1>0 DEF WorkerRecords
  <2>8. GivenUp(i) \subseteq Messages /\ GivenUp(i) \subseteq Elements(w[i].queue)
    BY <2>7, ElementsIn DEF GivenUp
  <2>9. /\ row' \in [Messages -> Statuses] /\ lost' \subseteq Messages
        /\ \A m \in Messages : row'[m] = row[m] \/ m \in Elements(w[i].queue)
    <3>1. row' = row \/ row' = Rows(GivenUp(i), "failed") BY <1>3 DEF Finish
    <3>2. lost' = lost \/ lost' = lost \cup GivenUp(i) BY <1>3 DEF Finish
    <3> QED BY <1>0, <2>8, <3>1, <3>2, RowsTyped, Written DEF TypeOK
  <2> QED BY <1>0, <1>2, <2>2, <2>5, <2>6, <2>9, BatchStep
<1>4. CASE w[i].err # "deadline"
  <2> DEFINE q == [w[i] EXCEPT !.pc = "clear", !.state = "Idle",
                               !.wake = w[i].wake \/ w[i].queue # <<>>,
                               !.timer = IF w[i].queue = <<>> THEN "armed" ELSE w[i].timer]
  <2>1. q \in WorkerRecords
    <3>1. (w[i].wake \/ w[i].queue # <<>>) \in BOOLEAN OBVIOUS
    <3>2. (IF w[i].queue = <<>> THEN "armed" ELSE w[i].timer) \in {"off", "armed", "fired"}
      BY <1>0 DEF WorkerRecords
    <3>3. \A b \in BOOLEAN, t \in {"off", "armed", "fired"} :
            [w[i] EXCEPT !.pc = "clear", !.state = "Idle", !.wake = b, !.timer = t] \in WorkerRecords
      BY <1>0 DEF WorkerRecords, PCs, States
    <3> QED BY <3>1, <3>2, <3>3, Zenon
  <2>2. /\ q.pc = "clear" /\ q.queue = w[i].queue /\ q.controls = w[i].controls
        /\ q.state = "Idle" /\ q.timer # "fired" /\ q.barrier = w[i].barrier
    BY <1>0, <1>1 DEF WorkerRecords
  <2>3. w' = [w EXCEPT ![i] = q] BY <1>4 DEF Finish
  <2> HIDE DEF q
  <2>4. Moved(i, q) BY <1>0, <2>1, <2>3, Moves
  <2>5. Turned(i, q) BY <1>0, <2>2, <2>4 DEF Turned, Busy
  <2>6. LifeAt(i)' /\ BarrierAt(i)' /\ WakeAt(i)'
    BY <1>0, <1>1, <2>2, <2>4 DEF Moved, LifeAt, BarrierAt, WakeAt, Busy
  <2>7. UNCHANGED <<row, lost>> BY <1>4 DEF Finish
  <2> QED BY <1>0, <1>2, <2>5, <2>6, <2>7, QuietStep DEF past
<1> QED BY <1>3, <1>4

\* A batch is a prefix of the queue, which is in the order of arrival: nothing
\* that is left arrived earlier.
LEMMA nextBatchStep ==
    ASSUME IInv, NEW i \in Workers, nextBatch(i)
    PROVE  IInv'
<1>0. /\ TypeOK /\ w[i] \in WorkerRecords /\ w[i].pc = "batch"
      /\ UNCHANGED <<registered, row, client, effect, stop, limits, order, lost>>
      /\ LifeAt(i) /\ BarrierAt(i) /\ WakeAt(i)
  BY DEF IInv, TypeOK, WorkerInv, nextBatch
<1>1. CASE w[i].queue = <<>> /\ w' = [w EXCEPT ![i].pc = "select"] /\ UNCHANGED begun
  <2> DEFINE q == [w[i] EXCEPT !.pc = "select"]
  <2>1. q \in WorkerRecords BY <1>0 DEF WorkerRecords, PCs
  <2>2. /\ q.pc = "select" /\ q.queue = w[i].queue /\ q.controls = w[i].controls /\ q.wake = w[i].wake
        /\ q.state = w[i].state /\ q.timer = w[i].timer /\ q.barrier = w[i].barrier
    BY <1>0 DEF WorkerRecords
  <2>3. w' = [w EXCEPT ![i] = q] BY <1>1
  <2> HIDE DEF q
  <2>4. Moved(i, q) BY <1>0, <2>1, <2>3, Moves
  <2>5. Turned(i, q) BY <1>0, <2>2, <2>4 DEF Turned, Busy
  <2>6. LifeAt(i)' /\ BarrierAt(i)' /\ WakeAt(i)'
    BY <1>0, <1>1, <2>2, <2>4 DEF Moved, LifeAt, BarrierAt, WakeAt, Busy, client
  <2> QED BY <1>0, <1>1, <2>5, <2>6, SilentStep DEF past
<1>2. ASSUME NEW n \in 1 .. Len(w[i].queue), IsBatch(w[i].queue, n),
             w' = [w EXCEPT ![i] =
                        [w[i] EXCEPT !.pc = "card", !.batch = SubSeq(w[i].queue, 1, n),
                                     !.queue = SubSeq(w[i].queue, n + 1, Len(w[i].queue)),
                                     !.state = "CreatingCard", !.active = TRUE, !.cancelFn = FALSE,
                                     !.cancelled = FALSE, !.ctx = "live", !.err = "ok", !.timer = "off"]],
             begun' = begun \cup Elements(SubSeq(w[i].queue, 1, n))
      PROVE  IInv'
  <2> DEFINE Q == w[i].queue
             p == SubSeq(Q, 1, n)
             r == SubSeq(Q, n + 1, Len(Q))
             q == [w[i] EXCEPT !.pc = "card", !.batch = p, !.queue = r,
                               !.state = "CreatingCard", !.active = TRUE, !.cancelFn = FALSE,
                               !.cancelled = FALSE, !.ctx = "live", !.err = "ok", !.timer = "off"]
  <2>1. Q \in Seq(Messages) /\ Len(Q) \in Nat /\ DOMAIN Q = 1 .. Len(Q) BY <1>0 DEF WorkerRecords
  <2>2. /\ p \in Seq(Messages) /\ DOMAIN p = 1 .. n /\ \A k \in 1 .. n : p[k] = Q[k]
        /\ r \in Seq(Messages) /\ DOMAIN r = 1 .. Len(Q) - n /\ \A k \in 1 .. Len(Q) - n : r[k] = Q[n + k]
    BY <2>1, Split
  <2> HIDE DEF p, r
  <2>3. q \in WorkerRecords BY <1>0, <2>2 DEF WorkerRecords, PCs, Busy, States
  <2>4. /\ q.pc = "card" /\ q.queue = r /\ q.batch = p /\ q.controls = w[i].controls
        /\ q.state = "CreatingCard" /\ q.timer = "off"
    BY <1>0 DEF WorkerRecords
  <2>5. w' = [w EXCEPT ![i] = q] BY <1>2 DEF p, r
  <2> HIDE DEF q
  <2>6. Moved(i, q) BY <1>0, <2>3, <2>5, Moves
  <2>7. begun' = begun \cup Elements(p) BY <1>2 DEF p
  <2>8. Q # <<>> /\ registered = i
    <3>1. Q # <<>> BY <2>1
    <3> QED BY <3>1, BusyLives
  <2>9. /\ Elements(p) \subseteq Elements(Q) /\ Elements(r) \subseteq Elements(Q)
        /\ Elements(Q) \subseteq Messages
    <3>1. \A k \in DOMAIN p : k \in DOMAIN Q /\ p[k] = Q[k] BY <2>1, <2>2
    <3>2. \A k \in DOMAIN r : n + k \in DOMAIN Q /\ r[k] = Q[n + k] BY <2>1, <2>2
    <3>3. Elements(Q) \subseteq Messages BY <2>1, ElementsIn
    <3> QED BY <3>1, <3>2, <3>3 DEF Elements
  <2>10. TypeOK' BY <1>0, <2>6, <2>7, <2>9, TypeStep, Counting DEF TypeOK, Moved
  <2>11. \A j \in Workers \ {i} : w'[j] = w[j] /\ w[j].queue = <<>> /\ w[j].pc \notin Busy
    BY <2>6, <2>8, SetsAssumption, BusyLives DEF Moved
  <2>12. FoundInv' /\ WorkerInv'
    <3>1. LifeAt(i)' /\ BarrierAt(i)' /\ WakeAt(i)'
      BY <1>0, <2>4, <2>6, <2>8 DEF Moved, LifeAt, BarrierAt, WakeAt, Busy
    <3>2. ControlAt(i)' BY <1>0, <2>4, <2>6 DEF Moved, IInv, WorkerInv, ControlAt, client
    <3> QED BY <1>0, <2>4, <2>6, <2>10, <3>1, <3>2, WorkerStep DEF Moved, client, stop
  <2>13. w'[i].queue = r /\ w'[i].batch = p /\ w'[i].pc = "card" BY <2>4, <2>6 DEF Moved
  <2>14. \A k, l \in 1 .. Len(Q) : Q[k] = Q[l] => k = l BY <2>1 DEF IInv, QueueInv
  <2>15. Elements(r) \cap Elements(p) = {}
    <3> SUFFICES ASSUME NEW k \in DOMAIN r, NEW l \in DOMAIN p, r[k] = p[l] PROVE FALSE
      BY DEF Elements
    <3>1. n + k \in 1 .. Len(Q) /\ l \in 1 .. Len(Q) /\ Q[n + k] = Q[l] /\ n + k # l BY <2>1, <2>2
    <3> QED BY <2>14, <3>1
  <2>16. \A m \in Elements(Q) : ingress[m] = "accepted" /\ row[m] = "received" /\ m \notin begun
    BY DEF IInv, QueueInv
  <2>17. QueueInv'
    <3>1. \A k, l \in DOMAIN r : r[k] = r[l] => k = l
      <4> SUFFICES ASSUME NEW k \in DOMAIN r, NEW l \in DOMAIN r, r[k] = r[l] PROVE k = l OBVIOUS
      <4>1. n + k \in 1 .. Len(Q) /\ n + l \in 1 .. Len(Q) /\ Q[n + k] = Q[n + l] BY <2>1, <2>2
      <4> QED BY <2>2, <2>14, <4>1
    <3>2. \A m \in Elements(r) : ingress'[m] = "accepted" /\ row'[m] = "received" /\ m \notin begun'
      BY <1>0, <2>7, <2>9, <2>15, <2>16 DEF client
    <3>3. \A j \in Workers \ {i} : w'[j].queue = <<>> /\ w'[j].pc \notin Busy BY <2>11
    <3> QED BY <2>7, <2>13, <3>1, <3>2, <3>3, EmptyElements DEF QueueInv, Processing
  <2>18. \A j \in Workers : Elements(w'[j].queue) \subseteq Elements(w[j].queue)
    BY <2>9, <2>11, <2>13
  <2>19. CutInv'
    <3>1. UNCHANGED <<submit, cut, ingress>> BY <1>0 DEF client
    <3>2. \A c \in AllControls : Held(c) => Elements(cut[c].queue) \cap begun' = {}
      BY <2>7, <2>9 DEF IInv, CutInv
    <3> QED BY <2>18, <3>1, <3>2 DEF IInv, CutInv, Held
  <2>20. OrderInv'
    <3>1. \A m \in (Elements(order) \cup begun)' : ingress'[m] = "accepted"
      BY <1>0, <2>7, <2>9, <2>16 DEF IInv, OrderInv, client
    <3>2. ASSUME NEW k \in DOMAIN r, NEW l \in DOMAIN r, NEW a \in DOMAIN order, NEW b \in DOMAIN order,
                 r[k] = order[a], r[l] = order[b], k < l
          PROVE  a < b
      <4>1. n + k \in DOMAIN Q /\ n + l \in DOMAIN Q /\ n + k < n + l
            /\ Q[n + k] = order[a] /\ Q[n + l] = order[b]
        BY <2>1, <2>2, <3>2
      <4> HIDE DEF Q
      <4> QED BY <4>1 DEF IInv, OrderInv, Q
    <3> QED BY <1>0, <2>11, <2>13, <3>1, <3>2 DEF OrderInv
  <2>21. NoOvertaking'
    <3> SUFFICES ASSUME NEW a \in DOMAIN order, NEW b \in DOMAIN order, a < b, order[b] \in begun',
                        NEW j \in Workers, order[a] \in Elements(w'[j].queue)
                 PROVE  FALSE
      BY <1>0 DEF NoOvertaking, Waiting
    <3>1. order[b] \notin begun BY <2>18 DEF IInv, NoOvertaking, Waiting
    <3>2. PICK k \in 1 .. n : order[b] = Q[k] BY <2>2, <2>7, <3>1 DEF Elements
    <3>3. j = i BY <2>11, EmptyElements
    <3>4. PICK l \in 1 .. Len(Q) - n : order[a] = Q[n + l] BY <2>2, <2>13, <3>3 DEF Elements
    <3>5. k \in DOMAIN Q /\ n + l \in DOMAIN Q /\ k < n + l BY <2>1
    <3>6. b < a BY <3>2, <3>4, <3>5 DEF IInv, OrderInv
    <3>7. a \in Nat /\ b \in Nat BY <1>0 DEF TypeOK
    <3> QED BY <3>6, <3>7
  <2>22. BatchesAreUniform'
    <3>1. ASSUME NEW k \in 1 .. n, NEW l \in 1 .. n
          PROVE  Actor[Q[k]] = Actor[Q[l]] /\ (Exclusive(Q[k]) => Q[k] = Q[l])
      <4>1. \A h \in 2 .. n : Joins(Q, h) BY <1>2 DEF IsBatch
      <4>2. \A h \in 1 .. n : Actor[Q[h]] = Actor[Q[1]] BY <4>1 DEF Joins
      <4>3. CASE n = 1 BY <4>3
      <4>4. CASE n # 1
        <5>1. Joins(Q, 2) BY <4>1, <4>4
        <5>2. \A h \in 1 .. n : ~Exclusive(Q[h]) BY <4>1, <5>1 DEF Joins
        <5> QED BY <4>2, <5>2
      <4> QED BY <4>3, <4>4
    <3>2. \A m, h \in Elements(p) : Actor[m] = Actor[h] /\ (Exclusive(m) => m = h)
      BY <2>2, <3>1 DEF Elements
    <3> QED BY <2>11, <2>13, <3>2 DEF BatchesAreUniform, Processing
  <2> QED BY <2>10, <2>12, <2>17, <2>19, <2>20, <2>21, <2>22 DEF IInv
<1> QED BY <1>1, <1>2 DEF nextBatch
-----------------------------------------------------------------------------
(* Ingress and controls.                                                   *)

\* A request is refused, or Shutdown goes on, and no worker changes.
LEMMA RefusedStep ==
    ASSUME IInv, TypeOK', UNCHANGED <<w, registered, found, cut, order, begun>>,
           \A m \in Messages : \/ ingress'[m] = ingress[m] /\ row'[m] = row[m]
                               \/ ingress[m] \in {"new", "found"} /\ ingress'[m] = "refused",
           \A c \in AllControls : \/ submit'[c] = submit[c]
                                  \/ submit[c] \in {"new", "found"} /\ submit'[c] = "refused",
           quitting' = "no" => submit'[Quit] = "new"
    PROVE  IInv'
<1> USE DEF IInv
<1>1. FoundInv' BY DEF FoundInv
<1>2. WorkerInv'
  <2>1. ASSUME NEW i \in Workers PROVE LifeAt(i)' /\ BarrierAt(i)' /\ ControlAt(i)' /\ WakeAt(i)'
    <3>1. LifeAt(i)' /\ BarrierAt(i)' BY DEF WorkerInv, LifeAt, BarrierAt
    <3>2. w[i].controls \in Seq(AllControls) BY DEF TypeOK, WorkerRecords
    <3>3. \A c \in Elements(w[i].controls) : submit'[c] = submit[c]
      BY <3>2, ElementsIn DEF WorkerInv, ControlAt
    <3>4. ControlAt(i)' /\ WakeAt(i)' BY <3>3 DEF WorkerInv, ControlAt, WakeAt
    <3> QED BY <3>1, <3>4
  <2> QED BY <2>1 DEF WorkerInv
<1>3. Shrink
  <2>1. \A i \in Workers : w[i].queue \in Seq(Messages) BY DEF TypeOK, WorkerRecords
  <2>2. \A i \in Workers : \A m \in Elements(w[i].queue) : row'[m] = row[m]
    BY <2>1, ElementsIn DEF QueueInv
  <2> QED BY <2>2 DEF Shrink, Processing, Held
<1> QED BY <1>1, <1>2, <1>3, ShrinkStep

\* A lookup finds the registered worker or makes one.
LEMMA LookupStep ==
    ASSUME IInv, TypeOK', NEW x \in Messages \cup AllControls, FindOrCreate(x),
           UNCHANGED <<cut, order, begun>>,
           \A m \in Messages : \/ ingress'[m] = ingress[m] /\ row'[m] = row[m]
                               \/ m = x /\ ingress[m] = "new" /\ ingress'[m] = "found" /\ row'[m] = "received",
           x \in AllControls => submit[x] = "new",
           \A c \in AllControls : submit'[c] = submit[c] \/ (c = x /\ submit'[c] = "found"),
           quitting' = "no" => submit'[Quit] = "new"
    PROVE  IInv'
<1> USE DEF IInv
<1>1. PICK i \in Workers :
          /\ registered' = i /\ found' = [found EXCEPT ![x] = i]
          /\ registered = i \/ registered = NoWorker
          /\ \/ registered = i /\ UNCHANGED w
             \/ registered = NoWorker /\ w[i].pc = "unborn" /\ w' = [w EXCEPT ![i].pc = "select"]
  BY DEF FindOrCreate, TypeOK
<1>2. /\ found'[x] = i /\ \A y \in Messages \cup AllControls : y # x => found'[y] = found[y]
      /\ i # NoWorker
  BY <1>1, SetsAssumption DEF TypeOK
<1>3. /\ \A j \in Workers \ {i} : w'[j] = w[j]
      /\ \A j \in Workers : /\ w'[j].queue = w[j].queue /\ w'[j].controls = w[j].controls
                            /\ w'[j].state = w[j].state /\ w'[j].timer = w[j].timer
                            /\ w'[j].barrier = w[j].barrier /\ w'[j].wake = w[j].wake
                            /\ w'[j].batch = w[j].batch
                            /\ w'[j].pc = w[j].pc \/ (w[j].pc = "unborn" /\ w'[j].pc = "select" /\ j = i)
      /\ w'[i].pc # "unborn"
  <2>1. CASE registered = i /\ UNCHANGED w BY <1>2, <2>1 DEF WorkerInv, LifeAt
  <2>2. CASE w[i].pc = "unborn" /\ w' = [w EXCEPT ![i].pc = "select"]
    <3> DEFINE q == [w[i] EXCEPT !.pc = "select"]
    <3>1. w[i] \in WorkerRecords BY DEF TypeOK
    <3>2. /\ q.queue = w[i].queue /\ q.controls = w[i].controls /\ q.state = w[i].state
          /\ q.timer = w[i].timer /\ q.barrier = w[i].barrier /\ q.wake = w[i].wake
          /\ q.batch = w[i].batch /\ q.pc = "select"
      BY <3>1 DEF WorkerRecords
    <3>3. w'[i] = q /\ \A j \in Workers \ {i} : w'[j] = w[j] BY <2>2 DEF TypeOK
    <3> HIDE DEF q
    <3> QED BY <2>2, <3>2, <3>3
  <2> QED BY <1>1, <2>1, <2>2
<1>4. FoundInv'
  <2>1. ASSUME NEW y \in Messages \cup AllControls, found'[y] \in Workers PROVE w'[found'[y]].pc # "unborn"
    BY <1>2, <1>3, <2>1 DEF FoundInv
  <2>2. \A m \in Messages : ingress'[m] = "found" => found'[m] \in Workers /\ row'[m] = "received"
    BY <1>1, <1>2 DEF FoundInv
  <2>3. \A c \in AllControls : submit'[c] \in {"found", "cut", "persist"} => found'[c] \in Workers
    BY <1>1, <1>2 DEF FoundInv
  <2> QED BY <2>1, <2>2, <2>3 DEF FoundInv
<1>5. WorkerInv'
  <2>1. ASSUME NEW j \in Workers PROVE LifeAt(j)' /\ BarrierAt(j)' /\ ControlAt(j)' /\ WakeAt(j)'
    <3>1. w[j].controls \in Seq(AllControls) BY DEF TypeOK, WorkerRecords
    <3>2. \A c \in Elements(w[j].controls) : submit'[c] = submit[c] /\ found'[c] = found[c]
      BY <1>2, <3>1, ElementsIn DEF WorkerInv, ControlAt
    <3>3. LifeAt(j) /\ BarrierAt(j) /\ ControlAt(j) /\ WakeAt(j) BY DEF WorkerInv
    <3>4. LifeAt(j)'
      <4>1. CASE j = i BY <1>1, <1>3, <3>3, <4>1 DEF LifeAt, Busy
      <4>2. CASE j # i
        <5>1. w'[j] = w[j] /\ registered # j /\ registered' # j BY <1>1, <1>3, <4>2, SetsAssumption
        <5> QED BY <3>3, <5>1 DEF LifeAt
      <4> QED BY <4>1, <4>2
    <3>5. BarrierAt(j)' BY <1>3, <3>3 DEF BarrierAt
    <3>6. ControlAt(j)' BY <1>3, <3>2, <3>3 DEF ControlAt
    <3>7. WakeAt(j)' BY <1>3, <3>2, <3>3, EmptyElements DEF WakeAt, LifeAt
    <3> QED BY <3>4, <3>5, <3>6, <3>7
  <2> QED BY <2>1 DEF WorkerInv
<1>6. Shrink
  <2>1. \A j \in Workers : w[j].queue \in Seq(Messages) BY DEF TypeOK, WorkerRecords
  <2>2. \A j \in Workers : \A m \in Elements(w[j].queue) : row'[m] = row[m]
    BY <2>1, ElementsIn DEF QueueInv
  <2>3. \A j \in Workers : w'[j].pc \in Busy => Processing(j) /\ w'[j].batch = w[j].batch
    BY <1>3 DEF Busy, Processing
  <2> QED BY <1>3, <2>2, <2>3 DEF Shrink, Held
<1> QED BY <1>4, <1>5, <1>6, ShrinkStep

\* A new worker has the type of one.
LEMMA LookupTyped ==
    ASSUME TypeOK, NEW x \in Messages \cup AllControls, FindOrCreate(x)
    PROVE  /\ w' \in [Workers -> WorkerRecords] /\ registered' \in Workers \cup {NoWorker}
           /\ found' \in [Messages \cup AllControls -> Workers \cup {NoWorker}]
<1>1. ASSUME NEW i \in Workers PROVE [w[i] EXCEPT !.pc = "select"] \in WorkerRecords
  <2>1. w[i] \in WorkerRecords BY DEF TypeOK
  <2> QED BY <2>1 DEF WorkerRecords, PCs
<1>2. \A i \in Workers : [w EXCEPT ![i].pc = "select"] = [w EXCEPT ![i] = [w[i] EXCEPT !.pc = "select"]]
  OBVIOUS
<1>3. registered' \in Workers \cup {NoWorker} BY DEF FindOrCreate, TypeOK
<1>4. found' \in [Messages \cup AllControls -> Workers \cup {NoWorker}] BY DEF FindOrCreate, TypeOK
<1>5. w' \in [Workers -> WorkerRecords] BY <1>1, <1>2 DEF FindOrCreate, TypeOK
<1> QED BY <1>3, <1>4, <1>5

\* A message looks its worker up, or is refused.
LEMMA AcceptStep ==
    ASSUME IInv, NEW m \in Messages, Accept(m)
    PROVE  IInv'
<1>0. /\ TypeOK /\ ingress[m] = "new" /\ m \notin AllControls
      /\ UNCHANGED <<submit, cut, effect, stop, limits, past>>
      /\ quitting' = "no" => submit'[Quit] = "new"
  BY SetsAssumption DEF IInv, FoundInv, Accept, stop
<1>1. CASE /\ FindOrCreate(m) /\ ingress' = [ingress EXCEPT ![m] = "found"]
           /\ row' = [row EXCEPT ![m] = "received"]
  <2>1. TypeOK' BY <1>0, <1>1, LookupTyped DEF TypeOK, stop, limits, past, Statuses
  <2>2. /\ ingress'[m] = "found" /\ row'[m] = "received"
        /\ \A n \in Messages \ {m} : ingress'[n] = ingress[n] /\ row'[n] = row[n]
    BY <1>0, <1>1 DEF TypeOK
  <2> QED BY <1>0, <1>1, <2>1, <2>2, LookupStep DEF past
<1>2. CASE /\ UNCHANGED <<w, registered, found>> /\ ingress' = [ingress EXCEPT ![m] = "refused"]
           /\ row' = [row EXCEPT ![m] = "failed"]
  <2>1. TypeOK' BY <1>0, <1>2 DEF TypeOK, stop, limits, past, Statuses
  <2>2. /\ ingress'[m] = "refused"
        /\ \A n \in Messages \ {m} : ingress'[n] = ingress[n] /\ row'[n] = row[n]
    BY <1>0, <1>2 DEF TypeOK
  <2> QED BY <1>0, <1>2, <2>1, <2>2, RefusedStep DEF past
<1> QED BY <1>1, <1>2 DEF Accept

\* A control looks its worker up, or is refused.
LEMMA SubmitControlStep ==
    ASSUME IInv, NEW c \in AllControls, SubmitControl(c)
    PROVE  IInv'
<1>0. /\ TypeOK /\ c # Quit /\ Quit \in AllControls /\ submit[c] = "new"
      /\ UNCHANGED <<row, ingress, cut, effect, stop, limits, past>>
      /\ quitting = "no" => submit[Quit] = "new"
  BY SetsAssumption DEF IInv, FoundInv, SubmitControl, AllControls
<1>1. CASE FindOrCreate(c) /\ submit' = [submit EXCEPT ![c] = "found"]
  <2>1. TypeOK' BY <1>0, <1>1, LookupTyped DEF TypeOK, stop, limits, past
  <2>2. submit'[c] = "found" /\ \A d \in AllControls \ {c} : submit'[d] = submit[d]
    BY <1>0, <1>1 DEF TypeOK
  <2> QED BY <1>0, <1>1, <2>1, <2>2, LookupStep DEF past, stop
<1>2. CASE UNCHANGED <<w, registered, found>> /\ submit' = [submit EXCEPT ![c] = "refused"]
  <2>1. TypeOK' BY <1>0, <1>2 DEF TypeOK, stop, limits, past
  <2>2. submit'[c] = "refused" /\ \A d \in AllControls \ {c} : submit'[d] = submit[d]
    BY <1>0, <1>2 DEF TypeOK
  <2> QED BY <1>0, <1>2, <2>1, <2>2, RefusedStep DEF past, stop
<1> QED BY <1>1, <1>2 DEF SubmitControl

\* A message that is new to the order goes to its end and to the end of the
\* queue of the registered worker.
LEMMA enqueueStep ==
    ASSUME IInv, NEW m \in Messages, enqueue(m)
    PROVE  IInv'
<1>a. TypeOK /\ found[m] \in Workers BY DEF IInv, FoundInv, enqueue
<1>b. PICK i \in Workers : i = found[m] BY <1>a
<1>0. /\ TypeOK /\ ingress[m] = "found" /\ row[m] = "received"
      /\ w[i] \in WorkerRecords /\ w[i].pc # "unborn"
      /\ UNCHANGED <<registered, found, submit, cut, effect, stop, limits, begun, lost>>
      /\ quitting' = "no" => submit'[Quit] = "new"
  BY <1>a, <1>b DEF IInv, TypeOK, FoundInv, enqueue, stop
<1>1. CASE /\ ingress' = [ingress EXCEPT ![m] = "refused"] /\ row' = Rows({m}, "failed")
           /\ UNCHANGED <<w, order>>
  <2>1. row' \in [Messages -> Statuses] /\ \A n \in Messages \ {m} : row'[n] = row[n]
    BY <1>0, <1>1, RowsTyped, Written
  <2>2. TypeOK' BY <1>0, <1>1, <2>1 DEF TypeOK, stop, limits
  <2>3. ingress'[m] = "refused" /\ \A n \in Messages \ {m} : ingress'[n] = ingress[n]
    BY <1>0, <1>1 DEF TypeOK
  <2> QED BY <1>0, <1>1, <2>1, <2>2, <2>3, RefusedStep
<1>2. CASE /\ ~Refuses(i)
           /\ w' = [w EXCEPT ![i] = [w[i] EXCEPT !.queue = Append(w[i].queue, m), !.wake = TRUE]]
           /\ ingress' = [ingress EXCEPT ![m] = "accepted"]
           /\ order' = Append(order, m)
           /\ UNCHANGED row
  <2> DEFINE Q == w[i].queue
             r == Append(Q, m)
             q == [w[i] EXCEPT !.queue = r, !.wake = TRUE]
  <2>1. Q \in Seq(Messages) /\ Len(Q) \in Nat /\ DOMAIN Q = 1 .. Len(Q) BY <1>0 DEF WorkerRecords
  <2>2. /\ r \in Seq(Messages) /\ DOMAIN r = 1 .. Len(Q) + 1 /\ Elements(r) = Elements(Q) \cup {m}
        /\ \A k \in 1 .. Len(Q) : r[k] = Q[k]
        /\ r[Len(Q) + 1] = m
    BY <2>1, AppendElements, AppendProperties
  <2>3. /\ order \in Seq(Messages) /\ Len(order) \in Nat /\ DOMAIN order = 1 .. Len(order)
        /\ order' \in Seq(Messages) /\ DOMAIN order' = 1 .. Len(order) + 1
        /\ Elements(order') = Elements(order) \cup {m}
        /\ \A k \in 1 .. Len(order) : order'[k] = order[k]
        /\ order'[Len(order) + 1] = m
    <3>1. order \in Seq(Messages) /\ Len(order) \in Nat /\ DOMAIN order = 1 .. Len(order) BY <1>0 DEF TypeOK
    <3> QED BY <1>2, <3>1, AppendElements, AppendProperties
  <2> HIDE DEF r
  <2>4. q \in WorkerRecords BY <1>0, <2>2 DEF WorkerRecords
  <2>5. /\ q.pc = w[i].pc /\ q.queue = r /\ q.batch = w[i].batch /\ q.controls = w[i].controls
        /\ q.state = w[i].state /\ q.timer = w[i].timer /\ q.wake
    BY <1>0 DEF WorkerRecords
  <2>6. w' = [w EXCEPT ![i] = q] BY <1>2 DEF r
  <2> HIDE DEF q
  <2>7. Moved(i, q) BY <1>0, <2>4, <2>6, Moves
  <2>8. /\ w[i].state \notin Leaving /\ ~w[i].barrier
        /\ w[i].controls = <<>> /\ w[i].pc # "control" /\ registered = i
    <3>1. LifeAt(i) /\ BarrierAt(i) BY <1>0 DEF IInv, WorkerInv
    <3> QED BY <1>0, <1>2, <3>1 DEF Refuses, LifeAt, BarrierAt, Leaving
  <2>9. TypeOK' BY <1>0, <1>2, <2>3, <2>7 DEF TypeOK, Moved, stop, limits
  <2>10. ingress'[m] = "accepted" /\ \A n \in Messages \ {m} : ingress'[n] = ingress[n]
    BY <1>0, <1>2 DEF TypeOK
  <2>11. FoundInv' /\ WorkerInv'
    <3>0. LifeAt(i) BY DEF IInv, WorkerInv
    <3>1. LifeAt(i)' /\ BarrierAt(i)' /\ WakeAt(i)'
      BY <1>0, <2>5, <2>7, <2>8, <3>0 DEF Moved, LifeAt, BarrierAt, WakeAt, Leaving
    <3>2. ControlAt(i)' BY <2>5, <2>7, <2>8, EmptyElements DEF Moved, ControlAt
    <3> QED BY <1>0, <1>2, <2>5, <2>7, <2>9, <2>10, <3>1, <3>2, WorkerStep DEF Moved, stop
  <2>12. \A j \in Workers \ {i} : w'[j] = w[j] /\ w[j].queue = <<>>
    BY <2>7, <2>8, BusyLives DEF Moved
  <2>13. w'[i].queue = r /\ w'[i].batch = w[i].batch /\ w'[i].pc = w[i].pc BY <2>5, <2>7 DEF Moved
  <2>14. /\ m \notin Elements(Q) /\ m \notin Elements(order) /\ m \notin begun
         /\ \A c \in AllControls : Held(c) => m \notin Elements(cut[c].queue)
    BY <1>0 DEF IInv, QueueInv, CutInv, OrderInv
  <2>15. QueueInv'
    <3>1. \A k, l \in DOMAIN r : r[k] = r[l] => k = l
      <4>1. \A k \in 1 .. Len(Q) : Q[k] # m BY <2>1, <2>14 DEF Elements
      <4>2. \A k, l \in 1 .. Len(Q) : Q[k] = Q[l] => k = l BY <2>1, <1>0 DEF IInv, QueueInv
      <4>3. \A k \in DOMAIN r : (k \in 1 .. Len(Q) /\ r[k] = Q[k]) \/ (k = Len(Q) + 1 /\ r[k] = m)
        BY <2>1, <2>2
      <4> QED BY <4>1, <4>2, <4>3
    <3>2. Elements(Q) \subseteq Messages BY <2>1, ElementsIn
    <3>3. \A n \in Elements(r) : ingress'[n] = "accepted" /\ row'[n] = "received" /\ n \notin begun'
      BY <1>0, <1>2, <2>2, <2>10, <2>14, <3>2 DEF IInv, QueueInv
    <3>4. \A j \in Workers : w'[j].pc \in Busy => Elements(w'[j].batch) \subseteq begun'
      BY <1>0, <2>12, <2>13 DEF IInv, QueueInv, Processing
    <3> QED BY <2>12, <2>13, <3>1, <3>3, <3>4, EmptyElements DEF QueueInv, Processing
  <2>16. CutInv'
    <3>1. \A c \in AllControls : Elements(cut[c].queue) \subseteq Messages
      BY <1>0, ElementsIn DEF TypeOK
    <3>2. \A c \in AllControls : Held(c)' <=> Held(c) BY <1>0 DEF Held
    <3>3. \A c \in AllControls : Held(c) =>
              \A n \in Elements(cut[c].queue) : ingress'[n] = "accepted" /\ n \notin begun'
      BY <1>0, <2>10, <2>14, <3>1 DEF IInv, CutInv
    <3>4. \A c \in AllControls : Held(c) =>
              \A j \in Workers : Elements(cut[c].queue) \cap Elements(w'[j].queue) = {}
      <4>1. \A c \in AllControls : Held(c) => Elements(cut[c].queue) \cap Elements(Q) = {}
        BY DEF IInv, CutInv
      <4> QED BY <2>2, <2>12, <2>13, <2>14, <4>1, EmptyElements
    <3> QED BY <1>0, <3>2, <3>3, <3>4 DEF IInv, CutInv
  <2>17. OrderInv'
    <3>1. Elements(order) \subseteq Messages /\ begun \subseteq Messages BY <1>0, <2>3, ElementsIn DEF TypeOK
    <3>2. \A n \in (Elements(order) \cup begun)' : ingress'[n] = "accepted"
      BY <1>0, <2>3, <2>10, <3>1 DEF IInv, OrderInv
    <3>3. ASSUME NEW k \in DOMAIN r, NEW l \in DOMAIN r, NEW a \in DOMAIN order', NEW b \in DOMAIN order',
                 r[k] = order'[a], r[l] = order'[b], k < l
          PROVE  a < b
      <4>1. k \in DOMAIN Q /\ r[k] = Q[k] /\ Q[k] # m BY <2>1, <2>2, <2>14, <3>3 DEF Elements
      <4>2. a \in DOMAIN order /\ order'[a] = order[a]
        <5>1. a # Len(order) + 1 BY <2>3, <3>3, <4>1
        <5> QED BY <2>3, <5>1
      <4>3. CASE b = Len(order) + 1 BY <2>3, <4>2, <4>3
      <4>4. CASE b # Len(order) + 1
        <5>1. b \in DOMAIN order /\ order'[b] = order[b] /\ order[b] # m
          BY <2>3, <2>14, <4>4 DEF Elements
        <5>2. l \in DOMAIN Q /\ r[l] = Q[l]
          <6>1. l # Len(Q) + 1 BY <2>2, <3>3, <5>1
          <6> QED BY <2>1, <2>2, <6>1
        <5> QED BY <1>0, <3>3, <4>1, <4>2, <5>1, <5>2 DEF IInv, OrderInv
      <4> QED BY <4>3, <4>4
    <3> QED BY <2>12, <2>13, <3>2, <3>3 DEF OrderInv
  <2>18. NoOvertaking'
    <3> SUFFICES ASSUME NEW a \in DOMAIN order', NEW b \in DOMAIN order', a < b, order'[b] \in begun',
                        NEW j \in Workers, order'[a] \in Elements(w'[j].queue)
                 PROVE  FALSE
      BY DEF NoOvertaking, Waiting
    <3>1. order'[b] # m BY <1>0, <2>14
    <3>2. a \in DOMAIN order /\ b \in DOMAIN order /\ order'[a] = order[a] /\ order'[b] = order[b]
      BY <2>3, <3>1
    <3>3. order[a] # m BY <2>14, <3>2 DEF Elements
    <3>4. j = i BY <2>12, EmptyElements
    <3>5. order[a] \in Elements(w[i].queue) BY <2>2, <2>13, <3>2, <3>3, <3>4
    <3> QED BY <1>0, <3>2, <3>5 DEF IInv, NoOvertaking, Waiting
  <2>19. BatchesAreUniform'
    BY <2>12, <2>13 DEF IInv, BatchesAreUniform, Processing
  <2> QED BY <2>9, <2>11, <2>15, <2>16, <2>17, <2>18, <2>19 DEF IInv
<1> QED BY <1>b, <1>1, <1>2 DEF enqueue

\* What a control cut off waits nowhere else.
LEMMA submitControlStep ==
    ASSUME IInv, NEW c \in AllControls, submitControl(c)
    PROVE  IInv'
<1>a. TypeOK /\ found[c] \in Workers BY DEF IInv, FoundInv, submitControl
<1>b. PICK i \in Workers : i = found[c] BY <1>a
<1>0. /\ TypeOK /\ submit[c] = "found" /\ found[c] = i
      /\ w[i] \in WorkerRecords /\ w[i].pc # "unborn"
      /\ UNCHANGED <<registered, row, ingress, found, effect, stop, limits, past>>
      /\ quitting = "no" => submit[Quit] = "new"
  BY <1>a, <1>b DEF IInv, TypeOK, FoundInv, submitControl
<1>1. CASE submit' = [submit EXCEPT ![c] = "refused"] /\ UNCHANGED <<w, cut>>
  <2>1. TypeOK' BY <1>0, <1>1 DEF TypeOK, stop, limits, past
  <2>2. submit'[c] = "refused" /\ \A d \in AllControls \ {c} : submit'[d] = submit[d]
    BY <1>0, <1>1 DEF TypeOK
  <2>3. quitting' = "no" => submit'[Quit] = "new" BY <1>0, <2>2 DEF stop, AllControls
  <2> QED BY <1>0, <1>1, <2>1, <2>2, <2>3, RefusedStep DEF past
<1>2. CASE /\ w[i].state \notin Leaving
           /\ cut' = [cut EXCEPT ![c] = [queue |-> w[i].queue, goal |-> w[i].goal,
                                         batch |-> IF w[i].cancelFn THEN w[i].batch ELSE <<>>]]
           /\ w' = [w EXCEPT ![i] = [w[i] EXCEPT !.queue = <<>>, !.barrier = TRUE, !.cancelled = TRUE,
                                                 !.controls = Append(w[i].controls, c)]]
           /\ submit' = [submit EXCEPT ![c] = "cut"]
  <2> DEFINE q == [w[i] EXCEPT !.queue = <<>>, !.barrier = TRUE, !.cancelled = TRUE,
                               !.controls = Append(w[i].controls, c)]
             k == [queue |-> w[i].queue, goal |-> w[i].goal,
                   batch |-> IF w[i].cancelFn THEN w[i].batch ELSE <<>>]
  <2>1. /\ w[i].controls \in Seq(AllControls) /\ Append(w[i].controls, c) \in Seq(AllControls)
        /\ Elements(Append(w[i].controls, c)) = Elements(w[i].controls) \cup {c}
        /\ w[i].queue \in Seq(Messages)
    BY <1>0, AppendElements DEF WorkerRecords
  <2>2. q \in WorkerRecords BY <1>0, <2>1, EmptySeq DEF WorkerRecords
  <2>3. k \in [queue : Seq(Messages), batch : Seq(Messages), goal : BOOLEAN] /\ k.queue = w[i].queue
    BY <1>0, EmptySeq DEF WorkerRecords
  <2>4. /\ q.pc = w[i].pc /\ q.queue = <<>> /\ q.batch = w[i].batch
        /\ q.controls = Append(w[i].controls, c) /\ q.barrier
        /\ q.state = w[i].state /\ q.timer = w[i].timer /\ q.wake = w[i].wake
    BY <1>0 DEF WorkerRecords
  <2>5. w' = [w EXCEPT ![i] = q] /\ cut' = [cut EXCEPT ![c] = k] BY <1>2
  <2> HIDE DEF q, k
  <2>6. Moved(i, q) BY <1>0, <2>2, <2>5, Moves
  <2>7. /\ cut'[c] = k /\ \A d \in AllControls \ {c} : cut'[d] = cut[d]
        /\ submit'[c] = "cut" /\ \A d \in AllControls \ {c} : submit'[d] = submit[d]
    BY <1>0, <1>2, <2>5 DEF TypeOK
  <2>8. TypeOK' BY <1>0, <1>2, <2>3, <2>5, <2>6 DEF TypeOK, Moved, stop, limits, past
  <2>9. w[i].state # "Stopped" /\ registered = i
    BY <1>0, <1>2 DEF IInv, WorkerInv, LifeAt, Leaving
  <2>10. FoundInv' /\ WorkerInv'
    <3>1. LifeAt(i) /\ ControlAt(i) /\ WakeAt(i) BY <1>0 DEF IInv, WorkerInv
    <3>2. LifeAt(i)' /\ BarrierAt(i)' BY <1>0, <2>4, <2>6, <2>9, <3>1 DEF Moved, LifeAt, BarrierAt
    <3>3. c \notin Elements(w[i].controls) /\ Elements(w[i].controls) \subseteq AllControls
      BY <1>0, <2>1, <3>1, ElementsIn DEF ControlAt
    <3>4. ControlAt(i)' BY <1>0, <2>1, <2>4, <2>6, <2>7, <3>1, <3>3 DEF Moved, ControlAt
    <3>5. WakeAt(i)' BY <2>1, <2>4, <2>6, <2>7, <3>1, <3>3 DEF Moved, WakeAt
    <3> QED BY <1>0, <2>4, <2>6, <2>7, <2>8, <3>2, <3>4, <3>5, WorkerStep DEF Moved, stop
  <2>11. /\ \A j \in Workers : w'[j].queue = <<>>
         /\ \A j \in Workers : w'[j].batch = w[j].batch /\ w'[j].pc = w[j].pc
    BY <2>4, <2>6, <2>9, BusyLives DEF Moved
  <2>12. UNCHANGED <<ingress, row, order, begun>> BY <1>0 DEF past
  <2>13. QueueInv'
    BY <2>11, <2>12, EmptyElements DEF IInv, QueueInv, Processing
  <2>14. \A d \in AllControls : Held(d)' /\ d # c => Held(d) /\ cut'[d] = cut[d]
    BY <2>7 DEF Held
  <2>15. CutInv'
    <3>1. \A m \in Elements(w[i].queue) : ingress[m] = "accepted" /\ m \notin begun
      BY <1>0 DEF IInv, QueueInv
    <3>2. \A d \in AllControls : Held(d) => Elements(cut[d].queue) \cap Elements(w[i].queue) = {}
      BY <1>0 DEF IInv, CutInv
    <3>3. \A d \in AllControls : Held(d)' =>
              \A m \in Elements(cut'[d].queue) : ingress'[m] = "accepted" /\ m \notin begun'
      BY <2>3, <2>7, <2>12, <2>14, <3>1 DEF IInv, CutInv
    <3>4. \A d, e \in AllControls : d # e /\ Held(d)' /\ Held(e)' =>
              Elements(cut'[d].queue) \cap Elements(cut'[e].queue) = {}
      BY <2>3, <2>7, <2>14, <3>2 DEF IInv, CutInv
    <3> QED BY <2>11, <3>3, <3>4, EmptyElements DEF CutInv
  <2>16. OrderInv' BY <2>11, <2>12 DEF IInv, OrderInv
  <2>17. NoOvertaking' BY <2>11, EmptyElements DEF NoOvertaking, Waiting
  <2>18. BatchesAreUniform' BY <2>11 DEF IInv, BatchesAreUniform, Processing
  <2> QED BY <2>8, <2>10, <2>13, <2>15, <2>16, <2>17, <2>18 DEF IInv
<1> QED BY <1>b, <1>1, <1>2 DEF submitControl

\* A submission goes on after its critical section: it may wake its worker or
\* cancel a context, and only a message that it cut off is failed.
LEMMA SubmissionStep ==
    ASSUME IInv, TypeOK', NEW c \in AllControls, submit[c] \in {"cut", "persist"},
           NEW i \in Workers, i = found[c],
           \A j \in Workers \ {i} : w'[j] = w[j],
           w'[i].queue = w[i].queue, w'[i].controls = w[i].controls, w'[i].pc = w[i].pc,
           w'[i].state = w[i].state, w'[i].timer = w[i].timer, w'[i].barrier = w[i].barrier,
           w'[i].batch = w[i].batch, w[i].wake => w'[i].wake,
           submit'[c] \in {"persist", "error"} \/ (submit'[c] = "done" /\ w'[i].wake),
           \A d \in AllControls \ {c} : submit'[d] = submit[d],
           \A m \in Messages : row'[m] = row[m] \/ m \in Elements(cut[c].queue),
           UNCHANGED <<registered, ingress, found, cut, stop, order, begun>>
    PROVE  IInv'
<1> USE DEF IInv
<1>0. Held(c) /\ w[i].pc # "unborn" BY DEF Held, FoundInv
<1>1. FoundInv' /\ WorkerInv'
  <2>1. LifeAt(i) /\ BarrierAt(i) /\ ControlAt(i) /\ WakeAt(i) BY DEF WorkerInv
  <2>2. LifeAt(i)' /\ BarrierAt(i)' BY <2>1 DEF LifeAt, BarrierAt
  <2>3. Elements(w[i].controls) \subseteq AllControls
    BY ElementsIn DEF TypeOK, WorkerRecords
  <2>4. ControlAt(i)' BY <2>1, <2>3 DEF ControlAt
  <2>5. WakeAt(i)' BY <2>1, <2>3 DEF WakeAt
  <2>6. \A m \in Messages : ingress'[m] = "found" => ingress[m] = "found" /\ row'[m] = row[m]
    BY <1>0 DEF CutInv
  <2>7. \A d \in AllControls : submit'[d] = submit[d] \/ (found[d] = i /\ submit[d] # "new") OBVIOUS
  <2> QED BY <1>0, <2>2, <2>4, <2>5, <2>6, <2>7, WorkerStep DEF stop
<1>2. Shrink
  <2>1. \A j \in Workers : w'[j].queue = w[j].queue
                           /\ (w'[j].pc \in Busy => Processing(j) /\ w'[j].batch = w[j].batch)
    BY DEF Processing
  <2>2. \A j \in Workers : Elements(w[j].queue) \subseteq Messages
    BY ElementsIn DEF TypeOK, WorkerRecords
  <2>3. \A j \in Workers : \A m \in Elements(w[j].queue) : row'[m] = row[m]
    BY <1>0, <2>2 DEF CutInv
  <2>4. \A d \in AllControls : Held(d)' => Held(d) /\ cut'[d].queue = cut[d].queue BY DEF Held
  <2> QED BY <2>1, <2>3, <2>4 DEF Shrink
<1> QED BY <1>1, <1>2, ShrinkStep

\* The pause of a goal, or the cancelled context, leaves queues alone.
LEMMA interruptStep ==
    ASSUME IInv, NEW c \in AllControls, interrupt(c)
    PROVE  IInv'
<1>0. /\ TypeOK /\ submit[c] = "cut" /\ found[c] \in Workers
      /\ UNCHANGED <<registered, row, ingress, found, cut, effect, stop, order, begun>>
  BY DEF IInv, FoundInv, interrupt
<1>1. PICK i \in Workers : i = found[c] BY <1>0
<1> DEFINE q == [w[i] EXCEPT !.ctx = Cancelled(i)]
<1>2. w[i] \in WorkerRecords BY <1>0 DEF TypeOK
<1>3. q \in WorkerRecords BY <1>2 DEF WorkerRecords, Cancelled
<1>4. /\ q.queue = w[i].queue /\ q.controls = w[i].controls /\ q.pc = w[i].pc /\ q.state = w[i].state
      /\ q.timer = w[i].timer /\ q.barrier = w[i].barrier /\ q.batch = w[i].batch /\ q.wake = w[i].wake
  BY <1>2 DEF WorkerRecords
<1>5. w' = w \/ w' = [w EXCEPT ![i] = q] BY <1>1 DEF interrupt
<1> HIDE DEF q
<1>6. /\ w' \in [Workers -> WorkerRecords] /\ \A j \in Workers \ {i} : w'[j] = w[j]
      /\ w'[i] = w[i] \/ w'[i] = q
  BY <1>0, <1>3, <1>5 DEF TypeOK
<1>7. /\ \E s \in {"persist", "error"} : submit' = [submit EXCEPT ![c] = s]
      /\ lost' = lost \/ lost' = lost \cup Elements(cut[c].queue)
      /\ Fault \/ UNCHANGED limits
  BY DEF interrupt
<1>8. TypeOK'
  <2>1. Elements(cut[c].queue) \subseteq Messages BY <1>0, ElementsIn DEF TypeOK
  <2>2. LimitsTyped BY <1>0, <1>7, Counting
  <2> QED BY <1>0, <1>6, <1>7, <2>1, <2>2 DEF TypeOK, LimitsTyped, stop
<1>9. submit'[c] \in {"persist", "error"} /\ \A d \in AllControls \ {c} : submit'[d] = submit[d]
  BY <1>0, <1>7 DEF TypeOK
<1> QED BY <1>0, <1>1, <1>4, <1>6, <1>8, <1>9, SubmissionStep

\* Only what the control cut off is failed, and then the worker is woken up.
LEMMA persistStep ==
    ASSUME IInv, NEW c \in AllControls, persist(c)
    PROVE  IInv'
<1>0. /\ TypeOK /\ submit[c] = "persist" /\ found[c] \in Workers
      /\ UNCHANGED <<registered, ingress, found, cut, effect, stop, order, begun>>
  BY DEF IInv, FoundInv, persist
<1>1. PICK i \in Workers : i = found[c] BY <1>0
<1>2. w[i] \in WorkerRecords BY <1>0 DEF TypeOK
<1>3. CASE /\ row' = Rows(Elements(cut[c].queue), "failed") /\ w' = [w EXCEPT ![i].wake = TRUE]
           /\ submit' = [submit EXCEPT ![c] = "done"] /\ UNCHANGED <<limits, lost>>
  <2> DEFINE q == [w[i] EXCEPT !.wake = TRUE]
  <2>1. q \in WorkerRecords BY <1>2 DEF WorkerRecords
  <2>2. /\ q.queue = w[i].queue /\ q.controls = w[i].controls /\ q.pc = w[i].pc /\ q.state = w[i].state
        /\ q.timer = w[i].timer /\ q.barrier = w[i].barrier /\ q.batch = w[i].batch /\ q.wake
    BY <1>2 DEF WorkerRecords
  <2>3. w' = [w EXCEPT ![i] = q] BY <1>3
  <2> HIDE DEF q
  <2>4. Moved(i, q) BY <1>0, <2>1, <2>3, Moves
  <2>5. /\ row' \in [Messages -> Statuses]
        /\ \A m \in Messages : row'[m] = row[m] \/ m \in Elements(cut[c].queue)
    BY <1>0, <1>3, RowsTyped, Written
  <2>6. TypeOK' BY <1>0, <1>3, <2>4, <2>5 DEF TypeOK, Moved, stop, limits
  <2>7. submit'[c] = "done" /\ \A d \in AllControls \ {c} : submit'[d] = submit[d]
    BY <1>0, <1>3 DEF TypeOK
  <2> QED BY <1>0, <1>1, <2>2, <2>4, <2>5, <2>6, <2>7, SubmissionStep DEF Moved
<1>4. CASE /\ Fault /\ submit' = [submit EXCEPT ![c] = "error"]
           /\ lost' = lost \cup Elements(cut[c].queue) /\ UNCHANGED <<row, w>>
  <2>1. Elements(cut[c].queue) \subseteq Messages BY <1>0, ElementsIn DEF TypeOK
  <2>2. LimitsTyped BY <1>0, <1>4, Counting
  <2>3. TypeOK' BY <1>0, <1>4, <2>1, <2>2 DEF TypeOK, LimitsTyped, stop
  <2>4. submit'[c] = "error" /\ \A d \in AllControls \ {c} : submit'[d] = submit[d]
    BY <1>0, <1>4 DEF TypeOK
  <2> QED BY <1>0, <1>1, <1>4, <2>3, <2>4, SubmissionStep
<1> QED BY <1>1, <1>3, <1>4 DEF persist
-----------------------------------------------------------------------------
(* Shutdown.                                                               *)

\* Shutdown submits its control to the registered worker.
LEMMA ShutdownStep == IInv /\ Shutdown => IInv'
<1> SUFFICES ASSUME IInv, Shutdown PROVE IInv' OBVIOUS
<1>0. /\ TypeOK /\ Quit \in AllControls /\ submit[Quit] = "new"
      /\ UNCHANGED <<w, registered, row, ingress, cut, effect, waits, limits, past>>
      /\ closing' = "shuttingDown" /\ quitting' \in {"close", "submit"}
  BY DEF IInv, FoundInv, Shutdown, AllControls
<1>1. CASE registered = NoWorker
  <2>1. UNCHANGED <<found, submit>> BY <1>1 DEF Shutdown
  <2>2. TypeOK' BY <1>0, <2>1 DEF TypeOK, limits, past
  <2> QED BY <1>0, <2>1, <2>2, RefusedStep DEF past
<1>2. CASE registered # NoWorker
  <2>1. found' = [found EXCEPT ![Quit] = registered] /\ submit' = [submit EXCEPT ![Quit] = "found"]
    BY <1>2 DEF Shutdown
  <2>2. TypeOK' BY <1>0, <2>1 DEF TypeOK, limits, past
  <2>3. FindOrCreate(Quit) BY <1>0, <1>2, <2>1 DEF FindOrCreate
  <2>4. submit'[Quit] = "found" /\ \A d \in AllControls \ {Quit} : submit'[d] = submit[d]
    BY <1>0, <2>1 DEF TypeOK
  <2> QED BY <1>0, <2>2, <2>3, <2>4, LookupStep DEF past
<1> QED BY <1>1, <1>2

\* Cancel, or the end of one of its waits.
LEMMA CancelStep == IInv /\ (Cancel \/ CancelReturns \/ ShutdownGivesUp) => IInv'
<1> SUFFICES ASSUME IInv, Cancel \/ CancelReturns \/ ShutdownGivesUp PROVE IInv' OBVIOUS
<1>0. /\ TypeOK /\ UNCHANGED <<registered, closing, row, client, effect, limits, past>>
      /\ quitting' \in {"close", "wait"}
  BY DEF IInv, Cancel, CancelReturns, ShutdownGivesUp
<1>1. CASE UNCHANGED <<w, waits>>
  <2>1. TypeOK' BY <1>0, <1>1 DEF TypeOK, client, limits, past
  <2> QED BY <1>0, <1>1, <2>1, RefusedStep DEF client, past
<1>2. CASE Cancel /\ registered # NoWorker
  <2>1. PICK i \in Workers : i = registered BY <1>0, <1>2 DEF TypeOK
  <2> DEFINE q == [w[i] EXCEPT !.cancelled = TRUE, !.ctx = IF w[i].cancelFn THEN Cancelled(i) ELSE w[i].ctx]
  <2>2. w[i] \in WorkerRecords BY <1>0 DEF TypeOK
  <2>3. q \in WorkerRecords BY <2>2 DEF WorkerRecords, Cancelled
  <2>4. /\ q.queue = w[i].queue /\ q.controls = w[i].controls /\ q.pc = w[i].pc /\ q.state = w[i].state
        /\ q.timer = w[i].timer /\ q.barrier = w[i].barrier /\ q.batch = w[i].batch /\ q.wake = w[i].wake
    BY <2>2 DEF WorkerRecords
  <2>5. w' = [w EXCEPT ![i] = q] /\ waits' \in {w[i].batch, <<>>} BY <1>2, <2>1 DEF Cancel
  <2> HIDE DEF q
  <2>6. Moved(i, q) BY <1>0, <2>3, <2>5, Moves
  <2>7. waits' \in Seq(Messages) BY <2>2, <2>5, EmptySeq DEF WorkerRecords
  <2>8. TypeOK' BY <1>0, <2>6, <2>7 DEF TypeOK, Moved, client, limits, past
  <2>9. LifeAt(i) /\ BarrierAt(i) /\ WakeAt(i) BY DEF IInv, WorkerInv
  <2>10. LifeAt(i)' /\ BarrierAt(i)' /\ WakeAt(i)'
    BY <1>0, <2>4, <2>6, <2>9 DEF Moved, LifeAt, BarrierAt, WakeAt, client
  <2>11. w[i].pc # "unborn" BY <2>1, <2>9 DEF LifeAt
  <2>12. Goes(i) BY <1>0, <2>4, <2>6, <2>11 DEF Goes, Moved, Processing, past
  <2> QED BY <1>0, <2>8, <2>10, <2>12, GoesOn
<1> QED BY <1>1, <1>2 DEF Cancel, CancelReturns, ShutdownGivesUp

\* The queue of the registered worker is given up.
LEMMA CloseStep == IInv /\ Close => IInv'
<1> SUFFICES ASSUME IInv, Close PROVE IInv' OBVIOUS
<1>0. /\ TypeOK /\ UNCHANGED <<registered, closing, client, effect, waits, limits, past>>
      /\ quitting' = "cancel"
  BY DEF IInv, Close
<1>1. CASE registered = NoWorker
  <2>1. UNCHANGED <<w, row>> BY <1>1 DEF Close
  <2>2. TypeOK' BY <1>0, <2>1 DEF TypeOK, client, limits, past
  <2> QED BY <1>0, <2>1, <2>2, RefusedStep DEF client, past
<1>2. CASE registered # NoWorker
  <2>1. PICK i \in Workers : i = registered BY <1>0, <1>2 DEF TypeOK
  <2> DEFINE q == [w[i] EXCEPT !.queue = <<>>]
  <2>2. w[i] \in WorkerRecords BY <1>0 DEF TypeOK
  <2>3. q \in WorkerRecords BY <2>2, EmptySeq DEF WorkerRecords
  <2>4. /\ q.queue = <<>> /\ q.controls = w[i].controls /\ q.pc = w[i].pc /\ q.state = w[i].state
        /\ q.timer = w[i].timer /\ q.barrier = w[i].barrier /\ q.batch = w[i].batch /\ q.wake = w[i].wake
    BY <2>2 DEF WorkerRecords
  <2>5. w' = [w EXCEPT ![i] = q] /\ row' = Rows(Elements(w[i].queue), "failed") BY <1>2, <2>1 DEF Close
  <2> HIDE DEF q
  <2>6. Moved(i, q) BY <1>0, <2>3, <2>5, Moves
  <2>7. /\ row' \in [Messages -> Statuses]
        /\ \A m \in Messages : row'[m] = row[m] \/ m \in Elements(w[i].queue)
    BY <1>0, <2>5, RowsTyped, Written
  <2>8. TypeOK' BY <1>0, <2>6, <2>7 DEF TypeOK, Moved, client, limits, past
  <2>9. LifeAt(i) /\ BarrierAt(i) /\ WakeAt(i) BY DEF IInv, WorkerInv
  <2>10. LifeAt(i)' /\ BarrierAt(i)' /\ WakeAt(i)'
    BY <1>0, <2>4, <2>6, <2>9 DEF Moved, LifeAt, BarrierAt, WakeAt, client
  <2>11. w[i].pc # "unborn" BY <2>1, <2>9 DEF LifeAt
  <2>12. Goes(i) BY <1>0, <2>4, <2>6, <2>11 DEF Goes, Moved, Processing, past
  <2>13. w'[i].queue = <<>> BY <2>4, <2>6 DEF Moved
  <2> QED BY <1>0, <2>7, <2>8, <2>10, <2>12, <2>13, GoesOn
<1> QED BY <1>1, <1>2

\* The contexts of all workers.
LEMMA CancelAllStep == IInv /\ CancelAll => IInv'
<1> SUFFICES ASSUME IInv, CancelAll PROVE IInv' OBVIOUS
<1> USE DEF IInv
<1>0. /\ UNCHANGED <<registered, row, client, effect, waits, limits, past>>
      /\ quitting' = "done" /\ closing' = "closed"
  BY DEF CancelAll
<1>1. ASSUME NEW i \in Workers
      PROVE  /\ w'[i] \in WorkerRecords
             /\ w'[i].queue = w[i].queue /\ w'[i].controls = w[i].controls /\ w'[i].pc = w[i].pc
             /\ w'[i].state = w[i].state /\ w'[i].timer = w[i].timer /\ w'[i].barrier = w[i].barrier
             /\ w'[i].batch = w[i].batch /\ w'[i].wake = w[i].wake
  <2>1. w[i] \in WorkerRecords BY DEF TypeOK
  <2>2. w'[i] = [w[i] EXCEPT !.ctx = Cancelled(i)] BY DEF CancelAll
  <2> QED BY <2>1, <2>2 DEF WorkerRecords, Cancelled
<1>2. w' \in [Workers -> WorkerRecords]
  <2>1. w' = [i \in Workers |-> w'[i]] BY DEF CancelAll
  <2> QED BY <1>1, <2>1
<1>3. TypeOK' BY <1>0, <1>2 DEF TypeOK, client, limits, past
<1>4. FoundInv' BY <1>0, <1>1 DEF FoundInv, client
<1>5. WorkerInv'
  <2>1. ASSUME NEW i \in Workers PROVE LifeAt(i)' /\ BarrierAt(i)' /\ ControlAt(i)' /\ WakeAt(i)'
    BY <1>0, <1>1 DEF WorkerInv, LifeAt, BarrierAt, ControlAt, WakeAt, client
  <2> QED BY <2>1 DEF WorkerInv
<1>6. Shrink BY <1>0, <1>1 DEF Shrink, Processing, Held, client, past
<1> QED BY <1>3, <1>4, <1>5, <1>6, ShrinkStep
-----------------------------------------------------------------------------
(* The theorems.                                                           *)

\* Nobody has asked for a worker.
LEMMA InitInv == Init => IInv
<1> SUFFICES ASSUME Init PROVE IInv OBVIOUS
<1>1. TypeOK
  <2>1. w \in [Workers -> WorkerRecords] BY UnbornTyped DEF Init
  <2> QED BY <2>1, EmptySeq DEF Init, TypeOK, Statuses
<1>2. \A i \in Workers : w[i].pc = "unborn" /\ w[i].queue = <<>> /\ w[i].controls = <<>>
                         /\ w[i].timer = "off" /\ w[i].state = "Idle"
  BY DEF Init, Unborn
<1>3. FoundInv BY SetsAssumption DEF Init, FoundInv, AllControls
<1>4. WorkerInv
  BY <1>2, SetsAssumption, EmptyElements DEF Init, WorkerInv, LifeAt, BarrierAt, ControlAt, WakeAt, Busy
<1>5. QueueInv BY <1>2, EmptyElements DEF QueueInv, Processing, Busy
<1>6. CutInv BY DEF Init, CutInv, Held
<1>7. OrderInv /\ NoOvertaking /\ BatchesAreUniform
  BY <1>2, EmptyElements DEF Init, OrderInv, NoOvertaking, BatchesAreUniform, Processing, Busy
<1> QED BY <1>1, <1>3, <1>4, <1>5, <1>6, <1>7 DEF IInv

\* Nothing changes.
LEMMA StutterInv == IInv /\ UNCHANGED vars => IInv'
<1> SUFFICES ASSUME IInv, UNCHANGED vars PROVE IInv' OBVIOUS
<1>0. UNCHANGED <<w, registered, row, client, stop, limits, past, effect>> BY DEF vars
<1>1. TypeOK' BY <1>0 DEF IInv, TypeOK, client, stop, limits, past
<1>2. quitting' = "no" => submit'[Quit] = "new" BY <1>0 DEF IInv, FoundInv, client, stop
<1> QED BY <1>0, <1>1, <1>2, RefusedStep DEF client, past

\* Every step keeps the invariant.
LEMMA NextInv == IInv /\ [Next]_vars => IInv'
<1> SUFFICES ASSUME IInv, [Next]_vars PROVE IInv' OBVIOUS
<1>1. ASSUME NEW m \in Messages, Ingress(m) PROVE IInv'
  BY <1>1, AcceptStep, enqueueStep DEF Ingress
<1>2. ASSUME NEW c \in AllControls, SubmitControl(c) \/ Command(c) PROVE IInv'
  BY <1>2, SubmitControlStep, submitControlStep, interruptStep, persistStep DEF Command
<1>3. ASSUME NEW i \in Workers, Goroutine(i) PROVE IInv'
  BY <1>3, WakeStep, ExitStep, nextControlStep, processControlStep, nextBatchStep, CreateCardStep,
     setActiveStep, setGoalBatchStep, ContextDoneStep, TurnEndsStep, ReadTerminalStep, SettledStep,
     FinishStep, removeFromManagerStep, clearActiveStep DEF Goroutine
<1>4. ASSUME NEW i \in Workers, Timeout(i) \/ IdleTimer(i) \/ IdleRemove(i) PROVE IInv'
  BY <1>4, TimeoutStep, IdleTimerStep, IdleRemoveStep
<1>5. CASE Shutdown \/ Stops BY <1>5, ShutdownStep, CancelStep, CloseStep, CancelAllStep DEF Stops
<1>6. CASE UNCHANGED vars BY <1>6, StutterInv
<1> QED BY <1>1, <1>2, <1>3, <1>4, <1>5, <1>6 DEF Next

\* The inductive invariant holds in every reachable state.
THEOREM Inductive == Spec => []IInv
BY InitInv, NextInv, PTL DEF Spec

\* Workers, requests, controls and rows keep their types.
THEOREM TypeCorrect == Spec => []TypeOK
<1>1. IInv => TypeOK BY DEF IInv
<1> QED BY <1>1, Inductive, PTL

\* Two turns of one conversation never overlap, whatever the number of
\* instances: a worker that runs a batch is the registered one, since timeout
\* and idle timer take it from the registry only when it is stopped.
THEOREM TurnsAlone == Spec => []OneTurnAtATime
<1>1. IInv => OneTurnAtATime BY BusyLives DEF OneTurnAtATime, Processing
<1> QED BY <1>1, Inductive, PTL

\* Turns take messages in the order of arrival and merge only what may share
\* one: the queue is a sorted part of that order, of which nextBatch takes a
\* prefix, and no other worker has a queue.
THEOREM Ordered == Spec => []BatchesKeepOrder
<1>1. IInv => BatchesKeepOrder BY DEF IInv, BatchesKeepOrder
<1> QED BY <1>1, Inductive, PTL

\* A sleeping worker with work has a token: enqueue and persist leave one, and
\* a goroutine goes to sleep only after it has found no control and no message.
THEOREM WakeupsKept == Spec => []NoLostWakeup
<1>1. IInv => NoLostWakeup BY DEF IInv, WorkerInv, WakeAt, NoLostWakeup
<1> QED BY <1>1, Inductive, PTL

\* Two of anything: a set without two different members has at most one.
LEMMA AtMostOne ==
    ASSUME NEW S, \A a, b \in S : a = b
    PROVE  Cardinality(S) \in {0, 1} /\ (S = {} => Cardinality(S) = 0)
<1>1. CASE S = {} BY <1>1, FS_EmptySet
<1>2. CASE S # {}
  <2>1. PICK a \in S : TRUE BY <1>2
  <2>2. S = {a} BY <2>1
  <2>3. Cardinality({a}) = 1 BY FS_Singleton
  <2> QED BY <1>2, <2>2, <2>3
<1> QED BY <1>1, <1>2

\* A message is in one queue, one batch or one detached queue at most.
LEMMA InOnePlace == IInv => OnePlace
<1> SUFFICES ASSUME IInv, NEW m \in Messages
             PROVE  LET queues  == {i \in Workers : m \in Elements(w[i].queue)}
                        batches == {i \in Workers : Processing(i) /\ m \in Elements(w[i].batch)}
                        cuts    == {c \in AllControls : submit[c] \in {"cut", "persist"}
                                                        /\ m \in Elements(cut[c].queue)}
                    IN  /\ Cardinality(queues) + Cardinality(batches) + Cardinality(cuts) <= 1
                        /\ queues # {} => row[m] = "received"
  BY DEF OnePlace
<1> DEFINE queues  == {i \in Workers : m \in Elements(w[i].queue)}
           batches == {i \in Workers : Processing(i) /\ m \in Elements(w[i].batch)}
           cuts    == {c \in AllControls : submit[c] \in {"cut", "persist"} /\ m \in Elements(cut[c].queue)}
<1>1. \A i, j \in queues : i = j BY EmptyElements, BusyLives
<1>2. \A i, j \in batches : i = j BY BusyLives DEF Processing
<1>3. \A c, d \in cuts : c = d BY DEF IInv, CutInv, Held
<1>4. queues # {} => row[m] = "received" BY DEF IInv, QueueInv
<1>5. queues = {} \/ batches = {} BY DEF IInv, QueueInv
<1>6. queues = {} \/ cuts = {} BY DEF IInv, CutInv, Held
<1>7. batches = {} \/ cuts = {} BY DEF IInv, QueueInv, CutInv, Held
<1> HIDE DEF queues, batches, cuts
<1>8. /\ Cardinality(queues) \in {0, 1} /\ (queues = {} => Cardinality(queues) = 0)
      /\ Cardinality(batches) \in {0, 1} /\ (batches = {} => Cardinality(batches) = 0)
      /\ Cardinality(cuts) \in {0, 1} /\ (cuts = {} => Cardinality(cuts) = 0)
  BY <1>1, <1>2, <1>3, AtMostOne
<1>9. Cardinality(queues) + Cardinality(batches) + Cardinality(cuts) <= 1
  BY <1>5, <1>6, <1>7, <1>8
<1> QED BY <1>4, <1>9 DEF queues, batches, cuts

\* What a control cut off, or a timeout gave up, is never run as well, and what
\* waits is unanswered.
THEOREM PlacedOnce == Spec => []OnePlace
BY InOnePlace, Inductive, PTL

\* A control cuts cleanly: what it detached is run by nobody, ingress does not
\* cross it, and no turn overlaps the effect of a control of the registered
\* worker.
THEOREM CleanCuts == Spec => []ControlsCutCleanly
<1>1. IInv => BarrierHolds BY DEF IInv, WorkerInv, BarrierAt, BarrierHolds
<1>2. IInv => ControlRunsAlone
  <2> SUFFICES ASSUME IInv, NEW i \in Workers, NEW j \in Workers, w[i].pc = "control", registered = i,
                      w[j].pc \in Busy
               PROVE  FALSE
    BY DEF ControlRunsAlone, Processing
  <2>1. registered = j BY BusyLives
  <2> QED BY <2>1 DEF Busy
<1>3. IInv => ControlsCutCleanly BY <1>1, <1>2, InOnePlace DEF ControlsCutCleanly
<1> QED BY <1>3, Inductive, PTL
=============================================================================
