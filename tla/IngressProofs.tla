---------------------------- MODULE IngressProofs ----------------------------
(***************************************************************************)
(* Proofs about Ingress and Attachments, for every set of events and files  *)
(* and every number of deliveries, failing calls and crashes.               *)
(***************************************************************************)
EXTENDS Ingress, SequenceTheorems, TLAPS

-----------------------------------------------------------------------------
(* The inductive invariant: what is known of one event.                    *)

\* An event without a row has not been begun, and the steps fit its kind.
PlaceInv(e) ==
    /\ msg[e].status = "none" => run[e].pc = "none"
    /\ run[e].pc \in {"control", "dropped", "onerror"} => kind[e] \in {"cancel", "new"}
    /\ run[e].pc \in {"queued", "prepare", "turn", "failing"} => kind[e] \in {"normal", "goal"}
    /\ run[e].pc = "refused" => kind[e] = "normal"
    /\ run[e].pc \in {"card", "text", "store"} => Command(e)

\* Its effect happens in one step, and the answer knows of it.
EffectInv(e) ==
    /\ effects[e] <= 1
    /\ run[e].pc \in {"none", "route", "queued", "prepare", "refused"} => effects[e] = 0
    /\ run[e].pc = "control" => effects[e] = IF kind[e] = "cancel" THEN 1 ELSE 0
    /\ run[e].pc \in {"card", "text", "store"} /\ kind[e] \in {"cancel", "new"} /\ run[e].ok =>
          effects[e] = 1

\* The answers so far, and what is about to be recorded of them.
Unanswered == {"none", "route", "control", "card", "refused", "queued", "prepare", "turn", "failing",
               "dropped"}
ReplyInv(e) ==
    /\ run[e].pc \in Unanswered => replies[e] = 0 /\ ~run[e].doubt
    /\ run[e].pc = "text" => replies[e] = IF run[e].doubt THEN 1 ELSE 0
    /\ replies[e] <= IF run[e].doubt THEN 2 ELSE 1
    /\ run[e].pc = "store" =>
          /\ run[e].outcome \in {"sent", "rejected", "unknown"}
          /\ run[e].outcome = "sent" => replies[e] >= 1
          /\ run[e].outcome = "rejected" => replies[e] = 0 \/ run[e].doubt

\* The row of a command says nothing before the answer is recorded, and the
\* truth afterwards (CommandRowsTrue of one event).
RowInv(e) ==
    /\ Command(e) /\ run[e].pc \notin {"onerror", "over"} =>
          msg[e].reply \in {"none", "pending"} /\ msg[e].effect \in {"none", "pending"}
    /\ kind[e] \in {"cancel", "new"} /\ run[e].pc \in {"route", "control", "dropped"} =>
          msg[e].status = "received" /\ msg[e].reply = "pending"
    /\ Command(e) /\ msg[e].code # "command_control_failed" =>
          /\ msg[e].reply = "sent" => replies[e] >= 1
          /\ msg[e].reply = "rejected" => replies[e] = 0 \/ run[e].doubt
          /\ kind[e] \in {"cancel", "new"} /\ msg[e].effect = "succeeded" => effects[e] = 1

\* As long as nothing failed, an open row is in somebody's hands.
Calm == faults + crashes = 0
OwnedInv(e) ==
    Calm => /\ msg[e].status \in {"received", "processing"} => run[e].pc \notin {"none", "over"}
            /\ run[e].pc \in {"prepare", "turn", "failing"} => msg[e].status = "processing"

EventInv(e) == PlaceInv(e) /\ EffectInv(e) /\ ReplyInv(e) /\ RowInv(e) /\ OwnedInv(e)
-----------------------------------------------------------------------------
(* The inductive invariant: the files.                                     *)

\* A file that preparation is done with, and one whose path is in its row.
Settled(f) == att[f].state \notin {"none", "staged", "processing"}
Kept(f) == att[f].path /\ Settled(f) /\ (att[f].due = "future" => att[f].state = "ready")

\* Rows are staged once, with the row of their message.
FreshInv == \A e \in Events : msg[e].status = "none" => \A f \in ToSet(Attached(e)) : att[f].state = "none"

\* Preparation belongs to the one batch that waits for it; the file it works
\* on is marked, and those it is done with are kept.
Working == {"open", "download", "part", "payload", "fail"}
PrepInv ==
    /\ \A d, e \in Events : Busy(d) /\ Busy(e) => d = e
    /\ prep.pc # "idle" => \E e \in Events : At(e, "prepare")
    /\ \A e \in Events : At(e, "prepare") =>
          /\ prep.pc # "idle"
          /\ \A f \in ToSet(Attached(e)) \ ToSet(prep.left) : Kept(f)
    /\ prep.pc \in Working \cup {"load"} => prep.left # <<>>
    /\ prep.pc = "ok" => prep.left = <<>>
    /\ prep.pc \in Working => att[Current].state = "processing"
    /\ prep.pc = "payload" => disk[Current] = "payload"
TurnInv == \A e \in Events : At(e, "turn") => \A f \in ToSet(Attached(e)) : Kept(f)

\* The cleaner has only files that preparation is done with, and the one it
\* removes is marked.
CleanInv ==
    /\ cleaner.pc \in {"next", "remove", "complete", "restore"} => cleaner.was \in [Files -> AttRows]
    /\ \A f \in cleaner.todo \cup cleaner.f :
          cleaner.was[f].state \in {"ready", "failed"} /\ cleaner.was[f].path = att[f].path /\ Settled(f)
    /\ cleaner.pc \in {"remove", "complete", "restore"} =>
          \E f \in Files : /\ cleaner.f = {f} /\ att[f].state = "deleting" /\ att[f].due = "past"
                           /\ cleaner.pc = "complete" /\ att[f].path => disk[f] = "none"

\* A process that is not up works on nothing.
LifeInv ==
    /\ life # "up" => prep.pc = "idle" /\ \A e \in Events : run[e].pc \in {"none", "over"}
    /\ life = "down" => cleaner.pc = "idle"

FileInv == FreshInv /\ PrepInv /\ TurnInv /\ CleanInv /\ LifeInv /\ FilesMatchRows

IInv == TypeOK /\ (\A e \in Events : EventInv(e)) /\ FileInv
-----------------------------------------------------------------------------
(* Types.                                                                  *)

\* Where the work on an event may stand.
Places == {"none", "route", "control", "card", "text", "store", "onerror", "refused", "queued",
           "prepare", "turn", "failing", "over", "dropped"}

\* What the steps of Handle may write about the progress of an event.
LEMMA ProgressUpdates ==
    ASSUME NEW r \in [Events -> Progress], NEW e \in Events, NEW p \in Places
    PROVE  /\ [r EXCEPT ![e].pc = p] \in [Events -> Progress]
           /\ \A b \in BOOLEAN : [r EXCEPT ![e].pc = p, ![e].ok = b] \in [Events -> Progress]
           /\ \A o \in {"sent", "rejected", "unknown"} : [r EXCEPT ![e].pc = p, ![e].outcome = o] \in [Events -> Progress]
           /\ [r EXCEPT ![e].pc = p, ![e].doubt = TRUE] \in [Events -> Progress]
  <1>1. [r EXCEPT ![e].pc = p] \in [Events -> Progress]
    BY DEF Progress, Places
  <1>2. ASSUME NEW b \in BOOLEAN PROVE [r EXCEPT ![e].pc = p, ![e].ok = b] \in [Events -> Progress]
    BY DEF Progress, Places
  <1>3. ASSUME NEW o \in {"sent", "rejected", "unknown"}
        PROVE  [r EXCEPT ![e].pc = p, ![e].outcome = o] \in [Events -> Progress]
    BY DEF Progress, Places
  <1>4. [r EXCEPT ![e].pc = p, ![e].doubt = TRUE] \in [Events -> Progress]
    BY DEF Progress, Places
  <1>. QED BY <1>1, <1>2, <1>3, <1>4

\* The three ways a row of messages is closed, and the fault counter.
LEMMA ClosedRows ==
    ASSUME TypeOK, NEW e \in Events, NEW c \in {"worker_rejected", "command_failed", "command_control_failed"}
    PROVE  /\ CompleteMessage(e) => msg' \in [Events -> MessageRows]
           /\ FailMessage(e, c) => msg' \in [Events -> MessageRows]
           /\ RecordCommandReplyFailure(e) /\ run[e].outcome # "" => msg' \in [Events -> MessageRows]
           /\ Fault => faults' \in 0 .. MaxFaults /\ faults' = faults + 1
           /\ Happened(e) => effects' \in [Events -> Nat]
           /\ Shown(e) => replies' \in [Events -> Nat]
  <1>. USE DEF TypeOK, AttTypeOK
  <1>1. CompleteMessage(e) => msg' \in [Events -> MessageRows]
    <2>1. [status |-> "succeeded", effect |-> "succeeded", reply |-> "sent", code |-> ""] \in MessageRows
      BY DEF MessageRows
    <2>. QED BY <2>1 DEF CompleteMessage
  <1>2. FailMessage(e, c) => msg' \in [Events -> MessageRows]
    <2>. DEFINE q == [status |-> "failed", effect |-> IF Command(e) THEN "failed" ELSE msg[e].effect,
                      reply |-> IF Command(e) THEN "sent" ELSE msg[e].reply, code |-> c]
    <2>1. q \in MessageRows
      BY DEF MessageRows
    <2>2. FailMessage(e, c) => msg' = [msg EXCEPT ![e] = q]
      BY DEF FailMessage
    <2>. HIDE DEF q
    <2>. QED BY <2>1, <2>2
  <1>3. RecordCommandReplyFailure(e) /\ run[e].outcome # "" => msg' \in [Events -> MessageRows]
    <2>. DEFINE q == [status |-> "failed", effect |-> IF run[e].ok THEN "succeeded" ELSE "failed",
                      reply |-> run[e].outcome, code |-> "command_reply"]
    <2>1. run[e].outcome \in {"", "sent", "rejected", "unknown"}
      BY DEF Progress
    <2>2. run[e].outcome # "" => q \in MessageRows
      BY <2>1 DEF MessageRows
    <2>3. RecordCommandReplyFailure(e) => msg' = [msg EXCEPT ![e] = q]
      BY DEF RecordCommandReplyFailure
    <2>. HIDE DEF q
    <2>. QED BY <2>2, <2>3
  <1>4. Fault => faults' \in 0 .. MaxFaults /\ faults' = faults + 1
    BY AttachmentsAssumption DEF Fault
  <1>5. (Happened(e) => effects' \in [Events -> Nat]) /\ (Shown(e) => replies' \in [Events -> Nat])
    BY DEF Happened, Shown
  <1>. QED BY <1>1, <1>2, <1>3, <1>4, <1>5

\* What the steps write about the progress of an event, field by field.
LEMMA ProgressWritten ==
    ASSUME run \in [Events -> Progress], NEW e \in Events, NEW p \in Places
    PROVE  /\ Goto(e, p) =>
                 /\ run' \in [Events -> Progress] /\ \A d \in Events \ {e} : run'[d] = run[d]
                 /\ run'[e].pc = p /\ run'[e].doubt = run[e].doubt
                 /\ run'[e].ok = run[e].ok /\ run'[e].outcome = run[e].outcome
           /\ \A b \in BOOLEAN : Answer(e, b) =>
                 /\ run' \in [Events -> Progress] /\ \A d \in Events \ {e} : run'[d] = run[d]
                 /\ run'[e].pc = "card" /\ run'[e].doubt = run[e].doubt /\ run'[e].ok = b
           /\ \A o \in {"sent", "rejected", "unknown"} : Outcome(e, o) =>
                 /\ run' \in [Events -> Progress] /\ \A d \in Events \ {e} : run'[d] = run[d]
                 /\ run'[e].pc = "store" /\ run'[e].doubt = run[e].doubt
                 /\ run'[e].ok = run[e].ok /\ run'[e].outcome = o
           /\ run' = [run EXCEPT ![e].pc = "text", ![e].doubt = TRUE] =>
                 /\ run' \in [Events -> Progress] /\ \A d \in Events \ {e} : run'[d] = run[d]
                 /\ run'[e].pc = "text" /\ run'[e].doubt /\ run'[e].ok = run[e].ok
  <1>1. ASSUME Goto(e, p) PROVE /\ run' \in [Events -> Progress] /\ \A d \in Events \ {e} : run'[d] = run[d]
                                /\ run'[e].pc = p /\ run'[e].doubt = run[e].doubt
                                /\ run'[e].ok = run[e].ok /\ run'[e].outcome = run[e].outcome
    <2>1. run' \in [Events -> Progress]
      BY <1>1, ProgressUpdates DEF Goto
    <2>. QED BY <1>1, <2>1 DEF Goto, Progress
  <1>2. ASSUME NEW b \in BOOLEAN, Answer(e, b)
        PROVE  /\ run' \in [Events -> Progress] /\ \A d \in Events \ {e} : run'[d] = run[d]
               /\ run'[e].pc = "card" /\ run'[e].doubt = run[e].doubt /\ run'[e].ok = b
    <2>1. run' \in [Events -> Progress]
      BY <1>2, ProgressUpdates DEF Answer, Places
    <2>2. run'[e].pc = "card" /\ run'[e].doubt = run[e].doubt /\ \A d \in Events \ {e} : run'[d] = run[d]
      BY <1>2 DEF Answer, Progress
    <2>3. run'[e].ok = b
      BY <1>2 DEF Answer, Progress
    <2>. QED BY <2>1, <2>2, <2>3
  <1>3. ASSUME NEW o \in {"sent", "rejected", "unknown"}, Outcome(e, o)
        PROVE  /\ run' \in [Events -> Progress] /\ \A d \in Events \ {e} : run'[d] = run[d]
               /\ run'[e].pc = "store" /\ run'[e].doubt = run[e].doubt
               /\ run'[e].ok = run[e].ok /\ run'[e].outcome = o
    <2>0. "store" \in Places BY DEF Places
    <2>1. run' \in [Events -> Progress]
      <3>1. run' = [run EXCEPT ![e].pc = "store", ![e].outcome = o] BY <1>3 DEF Outcome
      <3>2. [run EXCEPT ![e].pc = "store", ![e].outcome = o] \in [Events -> Progress] BY <2>0, ProgressUpdates
      <3> QED BY <3>1, <3>2
    <2>2. run'[e].pc = "store" /\ run'[e].outcome = o /\ \A d \in Events \ {e} : run'[d] = run[d]
      BY <1>3 DEF Outcome, Progress
    <2>3. run'[e].doubt = run[e].doubt /\ run'[e].ok = run[e].ok
      BY <1>3 DEF Outcome, Progress
    <2>. QED BY <2>1, <2>2, <2>3
  <1>4. ASSUME run' = [run EXCEPT ![e].pc = "text", ![e].doubt = TRUE]
        PROVE  /\ run' \in [Events -> Progress] /\ \A d \in Events \ {e} : run'[d] = run[d]
               /\ run'[e].pc = "text" /\ run'[e].doubt /\ run'[e].ok = run[e].ok
    <2>1. run' \in [Events -> Progress]
      BY <1>4, ProgressUpdates DEF Places
    <2>2. run'[e].pc = "text" /\ run'[e].ok = run[e].ok /\ \A d \in Events \ {e} : run'[d] = run[d]
      BY <1>4 DEF Progress
    <2>3. run'[e].doubt
      BY <1>4 DEF Progress
    <2>. QED BY <2>1, <2>2, <2>3
  <1>. QED BY <1>1, <1>2, <1>3, <1>4

\* The counter of faults only grows, and a fault ends the calm.
LEMMA FaultCount ==
    ASSUME TypeOK, Fault \/ faults' = faults, crashes' = crashes
    PROVE  /\ faults' \in 0 .. MaxFaults /\ faults' \in Nat /\ faults <= faults' /\ crashes \in Nat
           /\ Fault => faults' + crashes' # 0
           /\ faults' = faults => (faults' + crashes' = 0 <=> faults + crashes = 0)
  <1>1. faults \in 0 .. MaxFaults /\ faults \in Nat /\ crashes \in Nat /\ MaxFaults \in Nat
    BY AttachmentsAssumption DEF TypeOK, AttTypeOK
  <1>. QED BY <1>1 DEF Fault
-----------------------------------------------------------------------------
(* What a step leaves alone.                                               *)

\* A step about event e touches no other event, and nothing that failed is undone.
OnlyEvent(e) ==
    \A d \in Events \ {e} : /\ msg'[d] = msg[d] /\ run'[d] = run[d]
                            /\ effects'[d] = effects[d] /\ replies'[d] = replies[d]
Onward == kind' = kind /\ faults' \in Nat /\ crashes' \in Nat /\ faults <= faults' /\ crashes <= crashes'

\* An event that a step does not touch keeps its part of the invariant.
LEMMA Untouched ==
    ASSUME TypeOK, Onward, NEW d \in Events, EventInv(d),
           msg'[d] = msg[d], run'[d] = run[d], effects'[d] = effects[d], replies'[d] = replies[d]
    PROVE  EventInv(d)'
  <1>1. PlaceInv(d)' /\ EffectInv(d)' /\ ReplyInv(d)' /\ RowInv(d)'
    BY DEF EventInv, PlaceInv, EffectInv, ReplyInv, RowInv, Command, Onward
  <1>2. OwnedInv(d)'
    <2>1. Calm' => Calm
      <3>1. faults \in Nat /\ crashes \in Nat
        BY AttachmentsAssumption DEF TypeOK, AttTypeOK
      <3>2. \A a, b, c, k \in Nat : a <= c /\ b <= k /\ c + k = 0 => a + b = 0
        OBVIOUS
      <3>. QED BY <3>1, <3>2 DEF Calm, Onward
    <2>. QED BY <2>1 DEF EventInv, OwnedInv
  <1>. QED BY <1>1, <1>2 DEF EventInv

\* So one event is all a step has to look at.
LEMMA OneEvent ==
    ASSUME TypeOK, Onward, NEW e \in Events, OnlyEvent(e), \A d \in Events : EventInv(d), EventInv(e)'
    PROVE  \A d \in Events : EventInv(d)'
  <1>1. ASSUME NEW d \in Events, d # e PROVE EventInv(d)'
    BY <1>1, Untouched DEF OnlyEvent
  <1>. QED BY <1>1

\* A step of Handle that begins no batch leaves the files alone.
LEMMA FilesUndisturbed ==
    ASSUME IInv, kind' = kind, UNCHANGED <<att, disk, prep, cleaner, life>>, life = "up",
           \A d \in Events : /\ At(d, "prepare")' <=> At(d, "prepare")
                             /\ At(d, "turn")' => At(d, "turn")
                             /\ msg'[d].status = "none" => msg[d].status = "none"
    PROVE  FileInv'
  <1>. USE DEF IInv, FileInv
  <1>1. \A d \in Events : Busy(d)' => Busy(d)
    BY DEF Busy, At
  <1>2. \A d \in Events : Attached(d)' = Attached(d)
    BY DEF Attached
  <1>3. \A f : Kept(f)' <=> Kept(f)
    BY DEF Kept, Settled
  <1>4. FreshInv'
    BY <1>2 DEF FreshInv
  <1>5. PrepInv'
    BY <1>1, <1>2, <1>3 DEF PrepInv, Current
  <1>6. TurnInv'
    BY <1>2, <1>3 DEF TurnInv
  <1>7. CleanInv'
    BY DEF CleanInv, Settled
  <1>8. LifeInv'
    BY DEF LifeInv
  <1>9. FilesMatchRows'
    BY DEF FilesMatchRows
  <1>. QED BY <1>4, <1>5, <1>6, <1>7, <1>8, <1>9

\* A process that works on an event is up.
LEMMA WorkMeansUp ==
    ASSUME IInv, NEW e \in Events, run[e].pc \notin {"none", "over"}
    PROVE  life = "up"
  BY DEF IInv, FileInv, LifeInv

\* The invariant after such a step, from what it writes about its event.
LEMMA HandlerStep ==
    ASSUME IInv, NEW e \in Events, UNCHANGED byHandler, faults' \in 0 .. MaxFaults, faults <= faults',
           msg' \in [Events -> MessageRows], run' \in [Events -> Progress],
           effects' \in [Events -> Nat], replies' \in [Events -> Nat], OnlyEvent(e),
           run[e].pc \notin {"none", "prepare", "turn", "over"}, ~Busy(e)',
           msg'[e].status = "none" => msg[e].status = "none", EventInv(e)'
    PROVE  IInv'
  <1>1. TypeOK'
    <2>1. AttTypeOK'
      BY DEF IInv, TypeOK, AttTypeOK, byHandler
    <2>. QED BY <2>1 DEF IInv, TypeOK, byHandler, input
  <1>2. Onward
    BY AttachmentsAssumption DEF IInv, TypeOK, AttTypeOK, byHandler, input, Onward
  <1>3. \A d \in Events : EventInv(d)'
    BY <1>2, OneEvent DEF IInv
  <1>4. FileInv'
    <2>1. \A d \in Events : /\ At(d, "prepare")' <=> At(d, "prepare")
                            /\ At(d, "turn")' => At(d, "turn")
                            /\ msg'[d].status = "none" => msg[d].status = "none"
      BY DEF At, Busy, OnlyEvent
    <2>. QED BY <2>1, WorkMeansUp, FilesUndisturbed DEF byHandler, input
  <1>. QED BY <1>1, <1>3, <1>4 DEF IInv
-----------------------------------------------------------------------------
(* The steps of Handle.                                                    *)

\* A command that Handle answers itself.
LEMMA AnswerCommandStep ==
    ASSUME IInv, NEW e \in Events, AnswerCommand(e)
    PROVE  IInv'
  <1>. USE DEF IInv, TypeOK
  <1>1. PICK ok \in BOOLEAN : Answer(e, ok) /\ kind[e] \in {"help", "invalid", "status"} /\ At(e, "route")
    BY DEF AnswerCommand
  <1>2. UNCHANGED byHandler /\ UNCHANGED <<faults, msg, effects, replies>>
    BY DEF AnswerCommand
  <1>3. run' \in [Events -> Progress]
    BY <1>1, ProgressUpdates DEF Answer, Places
  <1>4. OnlyEvent(e) /\ run[e].pc = "route"
    BY <1>1, <1>2 DEF OnlyEvent, Answer, At
  <1>5. run'[e].pc = "card" /\ run'[e].doubt = run[e].doubt
    BY <1>1 DEF Progress, Answer
  <1>6. EventInv(e)'
    <2>. USE <1>1, <1>2, <1>4, <1>5 DEF EventInv, byHandler, input, Command
    <2>1. PlaceInv(e)'
      BY DEF PlaceInv
    <2>2. EffectInv(e)'
      BY DEF EffectInv
    <2>3. ReplyInv(e)'
      BY DEF ReplyInv, Unanswered
    <2>4. RowInv(e)'
      BY DEF RowInv
    <2>5. OwnedInv(e)'
      BY DEF OwnedInv, Calm
    <2>. QED BY <2>1, <2>2, <2>3, <2>4, <2>5
  <1>7. faults' \in 0 .. MaxFaults /\ faults <= faults'
    BY <1>2, AttachmentsAssumption DEF AttTypeOK
  <1>. QED BY <1>2, <1>3, <1>4, <1>5, <1>6, <1>7, HandlerStep DEF Busy

\* Manager.Accept takes a message or refuses it.
LEMMA AcceptStep ==
    ASSUME IInv, NEW e \in Events, Accept(e)
    PROVE  IInv'
  <1>. USE DEF IInv, TypeOK
  <1>1. UNCHANGED byHandler /\ UNCHANGED <<faults, msg, effects, replies>> /\ run[e].pc = "route"
    BY DEF Accept, At
  <1>2. run' \in [Events -> Progress]
    BY ProgressWritten DEF Accept, Places
  <1>3. OnlyEvent(e)
    BY <1>1, ProgressWritten DEF Accept, Places, OnlyEvent
  <1>4. /\ kind[e] \in {"normal", "goal"} /\ run'[e].doubt = run[e].doubt
        /\ run'[e].pc \in {"queued", "card", "refused"}
        /\ run'[e].pc = "card" => kind[e] = "goal"
        /\ run'[e].pc = "refused" => kind[e] = "normal"
    BY ProgressWritten DEF Accept, Places
  <1>5. EventInv(e)'
    <2>. USE <1>1, <1>4 DEF EventInv, byHandler, input, Command
    <2>1. PlaceInv(e)'
      BY DEF PlaceInv
    <2>2. EffectInv(e)'
      BY DEF EffectInv
    <2>3. ReplyInv(e)'
      BY DEF ReplyInv, Unanswered
    <2>4. RowInv(e)'
      BY DEF RowInv
    <2>5. OwnedInv(e)'
      BY DEF OwnedInv, Calm
    <2>. QED BY <2>1, <2>2, <2>3, <2>4, <2>5
  <1>6. faults' \in 0 .. MaxFaults /\ faults <= faults'
    BY <1>1, AttachmentsAssumption DEF AttTypeOK
  <1>. QED BY <1>1, <1>2, <1>3, <1>4, <1>5, <1>6, HandlerStep DEF Busy

\* A refused message: the row is failed, then a text may be shown.
LEMMA RefuseStep ==
    ASSUME IInv, NEW e \in Events, Refuse(e)
    PROVE  IInv'
  <1>. USE DEF IInv, TypeOK
  <1>1. UNCHANGED byHandler /\ UNCHANGED effects /\ run[e].pc = "refused" /\ Goto(e, "over")
    BY DEF Refuse, At
  <1>2. run' \in [Events -> Progress] /\ run'[e].pc = "over" /\ run'[e].doubt = run[e].doubt
    BY <1>1, ProgressWritten DEF Places
  <1>3. /\ msg' = msg \/ FailMessage(e, "worker_rejected")
        /\ replies' = replies \/ Shown(e)
        /\ faults' = faults \/ Fault
        /\ msg' = msg => Fault \/ FailMessage(e, "worker_rejected")
    BY DEF Refuse, SendText, NoFault
  <1>4. msg' \in [Events -> MessageRows] /\ replies' \in [Events -> Nat]
    BY <1>3, ClosedRows
  <1>5. faults' \in 0 .. MaxFaults /\ faults <= faults' /\ (Fault => ~Calm')
    BY <1>1, <1>3, FaultCount DEF Calm, byHandler
  <1>6. OnlyEvent(e)
    BY <1>1, <1>3 DEF FailMessage, Shown, Goto, OnlyEvent
  <1>7. /\ replies'[e] \in {replies[e], replies[e] + 1} /\ replies[e] \in Nat
        /\ FailMessage(e, "worker_rejected") => msg'[e].status = "failed"
        /\ msg'[e].status = "none" => msg[e].status = "none"
    BY <1>3 DEF Shown, FailMessage
  <1>8. EventInv(e)'
    <2>. USE <1>1, <1>2, <1>7 DEF EventInv, byHandler, input, Command
    <2>1. PlaceInv(e)'
      BY DEF PlaceInv
    <2>2. EffectInv(e)'
      BY DEF EffectInv
    <2>3. ReplyInv(e)'
      <3>1. replies[e] = 0 /\ ~run[e].doubt
        BY DEF ReplyInv, Unanswered
      <3>. QED BY <3>1 DEF ReplyInv, Unanswered
    <2>4. RowInv(e)'
      BY DEF RowInv, PlaceInv
    <2>5. OwnedInv(e)'
      <3>1. Calm' => msg'[e].status = "failed"
        BY <1>3, <1>5
      <3>. QED BY <3>1 DEF OwnedInv
    <2>. QED BY <2>1, <2>2, <2>3, <2>4, <2>5
  <1>. QED BY <1>1, <1>2, <1>4, <1>5, <1>6, <1>7, <1>8, HandlerStep DEF Busy

\* The card: shown, rejected (perhaps shown all the same), or of unknown fate.
LEMMA SendStaticCardStep ==
    ASSUME IInv, NEW e \in Events, SendStaticCard(e)
    PROVE  IInv'
  <1>. USE DEF IInv, TypeOK
  <1>1. UNCHANGED byHandler /\ UNCHANGED <<faults, msg, effects>> /\ run[e].pc = "card"
    BY DEF SendStaticCard, At
  <1>2. replies[e] = 0 /\ ~run[e].doubt /\ Command(e)
    BY <1>1 DEF EventInv, ReplyInv, PlaceInv, Unanswered
  <1>3. /\ run' \in [Events -> Progress] /\ \A d \in Events \ {e} : run'[d] = run[d]
        /\ run'[e].ok = run[e].ok /\ run'[e].pc \in {"text", "store"}
    BY ProgressWritten DEF SendStaticCard, Places
  <1>4. replies' = replies \/ Shown(e)
    BY DEF SendStaticCard
  <1>5. replies' \in [Events -> Nat] /\ \A d \in Events \ {e} : replies'[d] = replies[d]
    BY <1>4 DEF Shown
  <1>6. OnlyEvent(e)
    BY <1>1, <1>3, <1>5 DEF OnlyEvent
  <1>7. /\ run'[e].pc = "text" => replies'[e] = IF run'[e].doubt THEN 1 ELSE 0
        /\ run'[e].pc = "store" => /\ run'[e].outcome \in {"sent", "unknown"} /\ ~run'[e].doubt
                                   /\ replies'[e] <= 1
                                   /\ run'[e].outcome = "sent" => replies'[e] = 1
    <2>. DEFINE pc == run'[e].pc  doubt == run'[e].doubt  outcome == run'[e].outcome
    <2>1. (Shown(e) => replies'[e] = 1) /\ (UNCHANGED replies => replies'[e] = 0)
      BY <1>2 DEF Shown
    <2>2. CASE Shown(e) /\ Outcome(e, "sent")
      <3>1. pc = "store" /\ outcome = "sent" /\ ~doubt
        BY <1>2, <2>2, ProgressWritten DEF Places
      <3>. QED BY <2>2, <2>1, <3>1
    <2>3. CASE UNCHANGED replies /\ Goto(e, "text")
      BY <1>2, <2>3, ProgressWritten DEF Places
    <2>4. CASE Shown(e) /\ run' = [run EXCEPT ![e].pc = "text", ![e].doubt = TRUE]
      <3>1. pc = "text" /\ doubt
        BY <2>4, ProgressWritten DEF Places
      <3>. QED BY <2>4, <2>1, <3>1
    <2>5. CASE (Shown(e) \/ UNCHANGED replies) /\ Outcome(e, "unknown")
      <3>1. pc = "store" /\ outcome = "unknown" /\ ~doubt
        BY <1>2, <2>5, ProgressWritten DEF Places
      <3>. QED BY <2>5, <2>1, <3>1
    <2>. QED BY <2>2, <2>3, <2>4, <2>5 DEF SendStaticCard
  <1>8. EventInv(e)'
    <2>. USE <1>1, <1>2, <1>3, <1>5, <1>7 DEF EventInv, byHandler, input, Command
    <2>1. PlaceInv(e)'
      BY DEF PlaceInv
    <2>2. EffectInv(e)'
      BY DEF EffectInv
    <2>3. ReplyInv(e)'
      BY DEF ReplyInv, Unanswered
    <2>4. RowInv(e)'
      BY DEF RowInv
    <2>5. OwnedInv(e)'
      BY DEF OwnedInv, Calm
    <2>. QED BY <2>1, <2>2, <2>3, <2>4, <2>5
  <1>9. faults' \in 0 .. MaxFaults /\ faults <= faults'
    BY <1>1, FaultCount DEF byHandler
  <1>. QED BY <1>1, <1>3, <1>5, <1>6, <1>8, <1>9, HandlerStep DEF Busy

\* The text that replaces a rejected card.
LEMMA SendCommandTextStep ==
    ASSUME IInv, NEW e \in Events, SendCommandText(e)
    PROVE  IInv'
  <1>. USE DEF IInv, TypeOK
  <1>1. UNCHANGED byHandler /\ UNCHANGED <<faults, msg, effects>> /\ run[e].pc = "text"
    BY DEF SendCommandText, At
  <1>2. replies[e] = (IF run[e].doubt THEN 1 ELSE 0) /\ Command(e)
    BY <1>1 DEF EventInv, ReplyInv, PlaceInv
  <1>3. PICK o \in {"sent", "rejected", "unknown"} :
          /\ Outcome(e, o) /\ (replies' = replies \/ Shown(e))
          /\ o = "sent" => Shown(e)
          /\ o = "rejected" => replies' = replies
    BY DEF SendCommandText
  <1>4. /\ run' \in [Events -> Progress] /\ \A d \in Events \ {e} : run'[d] = run[d]
        /\ run'[e].ok = run[e].ok /\ run'[e].pc = "store" /\ run'[e].outcome = o /\ run'[e].doubt = run[e].doubt
    BY <1>3, ProgressWritten DEF Places
  <1>5. replies' \in [Events -> Nat] /\ \A d \in Events \ {e} : replies'[d] = replies[d]
    BY <1>3 DEF Shown
  <1>6. OnlyEvent(e)
    BY <1>1, <1>4, <1>5 DEF OnlyEvent
  <1>7. /\ replies'[e] \in {replies[e], replies[e] + 1} /\ replies[e] \in Nat
        /\ o = "sent" => replies'[e] >= 1
        /\ o = "rejected" => replies'[e] = replies[e]
    BY <1>3 DEF Shown
  <1>8. EventInv(e)'
    <2>. USE <1>1, <1>2, <1>4, <1>7 DEF EventInv, byHandler, input, Command
    <2>1. PlaceInv(e)'
      BY DEF PlaceInv
    <2>2. EffectInv(e)'
      BY DEF EffectInv
    <2>3. ReplyInv(e)'
      BY DEF ReplyInv, Unanswered
    <2>4. RowInv(e)'
      BY DEF RowInv
    <2>5. OwnedInv(e)'
      BY DEF OwnedInv, Calm
    <2>. QED BY <2>1, <2>2, <2>3, <2>4, <2>5
  <1>9. faults' \in 0 .. MaxFaults /\ faults <= faults'
    BY <1>1, FaultCount DEF byHandler
  <1>. QED BY <1>1, <1>4, <1>5, <1>6, <1>8, <1>9, HandlerStep DEF Busy

\* Control.Run on the worker: /new resets the session, or fails to.
LEMMA RunControlStep ==
    ASSUME IInv, NEW e \in Events, RunControl(e)
    PROVE  IInv'
  <1>. USE DEF IInv, TypeOK
  <1>1. UNCHANGED byHandler /\ UNCHANGED <<faults, msg, replies>> /\ run[e].pc = "control"
    BY DEF RunControl, At
  <1>2. PICK ok \in BOOLEAN :
          /\ Answer(e, ok) /\ kind[e] \in {"cancel", "new"}
          /\ \/ kind[e] = "cancel" /\ ok /\ UNCHANGED effects
             \/ kind[e] = "new" /\ ok /\ Happened(e)
             \/ kind[e] = "new" /\ ~ok /\ (Happened(e) \/ UNCHANGED effects)
    BY DEF RunControl
  <1>3. /\ run' \in [Events -> Progress] /\ \A d \in Events \ {e} : run'[d] = run[d]
        /\ run'[e].ok = ok /\ run'[e].pc = "card" /\ run'[e].doubt = run[e].doubt
    BY <1>2, ProgressWritten DEF Places
  <1>4. effects' \in [Events -> Nat] /\ \A d \in Events \ {e} : effects'[d] = effects[d]
    BY <1>2 DEF Happened
  <1>5. OnlyEvent(e)
    BY <1>1, <1>3, <1>4 DEF OnlyEvent
  <1>6. effects'[e] <= 1 /\ (ok => effects'[e] = 1)
    <2>1. effects[e] = IF kind[e] = "cancel" THEN 1 ELSE 0
      BY <1>1 DEF EventInv, EffectInv
    <2>. QED BY <1>2, <2>1 DEF Happened
  <1>7. EventInv(e)'
    <2>. USE <1>1, <1>2, <1>3, <1>6 DEF EventInv, byHandler, input, Command
    <2>1. PlaceInv(e)'
      BY DEF PlaceInv
    <2>2. EffectInv(e)'
      BY DEF EffectInv
    <2>3. ReplyInv(e)'
      BY DEF ReplyInv, Unanswered
    <2>4. RowInv(e)'
      BY DEF RowInv
    <2>5. OwnedInv(e)'
      BY DEF OwnedInv, Calm
    <2>. QED BY <2>1, <2>2, <2>3, <2>4, <2>5
  <1>8. faults' \in 0 .. MaxFaults /\ faults <= faults'
    BY <1>1, FaultCount DEF byHandler
  <1>. QED BY <1>1, <1>3, <1>4, <1>5, <1>7, <1>8, HandlerStep DEF Busy

\* The idle timer stops the worker first.
LEMMA LoseControlStep ==
    ASSUME IInv, NEW e \in Events, LoseControl(e)
    PROVE  IInv'
  <1>. USE DEF IInv, TypeOK
  <1>1. /\ UNCHANGED byHandler /\ UNCHANGED <<faults, msg, effects, replies>>
        /\ run[e].pc = "control" /\ Goto(e, "dropped")
    BY DEF LoseControl, At
  <1>2. /\ run' \in [Events -> Progress] /\ \A d \in Events \ {e} : run'[d] = run[d]
        /\ run'[e].pc = "dropped" /\ run'[e].doubt = run[e].doubt
    BY <1>1, ProgressWritten DEF Places
  <1>3. OnlyEvent(e)
    BY <1>1, <1>2 DEF OnlyEvent
  <1>4. EventInv(e)'
    <2>. USE <1>1, <1>2 DEF EventInv, byHandler, input, Command
    <2>1. PlaceInv(e)'
      BY DEF PlaceInv
    <2>2. EffectInv(e)'
      BY DEF EffectInv
    <2>3. ReplyInv(e)'
      BY DEF ReplyInv, Unanswered
    <2>4. RowInv(e)'
      BY DEF PlaceInv, RowInv
    <2>5. OwnedInv(e)'
      BY DEF OwnedInv, Calm
    <2>. QED BY <2>1, <2>2, <2>3, <2>4, <2>5
  <1>5. faults' \in 0 .. MaxFaults /\ faults <= faults'
    BY <1>1, FaultCount DEF byHandler
  <1>. QED BY <1>1, <1>2, <1>3, <1>4, <1>5, HandlerStep DEF Busy

\* What the row says once the answer is recorded.
LEMMA RecordedReply ==
    ASSUME IInv, NEW e \in Events, run[e].pc = "store", RecordReply(e)
    PROVE  /\ msg' \in [Events -> MessageRows] /\ \A d \in Events \ {e} : msg'[d] = msg[d]
           /\ msg'[e].status \in {"succeeded", "failed"}
           /\ msg'[e].reply = run[e].outcome
           /\ msg'[e].effect = IF run[e].ok THEN "succeeded" ELSE "failed"
  <1>. USE DEF IInv, TypeOK
  <1>1. Command(e) /\ run[e].outcome \in {"sent", "rejected", "unknown"}
    BY DEF EventInv, PlaceInv, ReplyInv
  <1>2. CASE run[e].outcome = "sent" /\ run[e].ok
    <2>1. CompleteMessage(e)
      BY <1>2 DEF RecordReply
    <2>2. msg' \in [Events -> MessageRows]
      BY <2>1, ClosedRows
    <2>. QED BY <1>2, <2>1, <2>2 DEF CompleteMessage
  <1>3. CASE run[e].outcome = "sent" /\ ~run[e].ok
    <2>1. FailMessage(e, "command_failed")
      BY <1>3 DEF RecordReply
    <2>2. msg' \in [Events -> MessageRows]
      BY <2>1, ClosedRows
    <2>3. msg'[e].status = "failed" /\ msg'[e].reply = "sent" /\ msg'[e].effect = "failed"
      BY <1>1, <2>1 DEF FailMessage
    <2>4. \A d \in Events \ {e} : msg'[d] = msg[d]
      BY <2>1 DEF FailMessage
    <2>. QED BY <1>3, <2>2, <2>3, <2>4
  <1>4. CASE run[e].outcome # "sent"
    <2>1. RecordCommandReplyFailure(e)
      BY <1>4 DEF RecordReply
    <2>2. msg' \in [Events -> MessageRows]
      BY <1>1, <2>1, ClosedRows
    <2>. QED BY <2>1, <2>2 DEF RecordCommandReplyFailure
  <1>. QED BY <1>2, <1>3, <1>4

\* The last call of completeAndReply and failAndReply.
LEMMA StoreReplyStep ==
    ASSUME IInv, NEW e \in Events, StoreReply(e)
    PROVE  IInv'
  <1>. USE DEF IInv, TypeOK
  <1>1. UNCHANGED byHandler /\ UNCHANGED <<effects, replies>> /\ run[e].pc = "store"
    BY DEF StoreReply, At
  <1>2. /\ RecordReply(e) \/ UNCHANGED msg
        /\ Fault \/ (faults' = faults /\ RecordReply(e))
    BY DEF StoreReply, Saved, NoFault
  <1>3. PICK p \in {"over", "onerror"} : Goto(e, p) /\ (p = "onerror" => kind[e] \in {"cancel", "new"})
    BY DEF StoreReply, Saved
  <1>4. /\ run' \in [Events -> Progress] /\ \A d \in Events \ {e} : run'[d] = run[d]
        /\ run'[e].pc = p /\ run'[e].doubt = run[e].doubt
    BY <1>3, ProgressWritten DEF Places
  <1>5. /\ msg' \in [Events -> MessageRows] /\ \A d \in Events \ {e} : msg'[d] = msg[d]
        /\ msg'[e].status = "none" => msg[e].status = "none"
    BY <1>1, <1>2, RecordedReply
  <1>6. OnlyEvent(e)
    BY <1>1, <1>4, <1>5 DEF OnlyEvent
  <1>7. faults' \in 0 .. MaxFaults /\ faults <= faults' /\ (Fault => ~Calm')
    BY <1>1, <1>2, FaultCount DEF Calm, byHandler
  <1>8. EventInv(e)'
    <2>. USE <1>1, <1>3, <1>4 DEF EventInv, byHandler, input, Command
    <2>1. PlaceInv(e)'
      BY <1>5 DEF PlaceInv
    <2>2. EffectInv(e)'
      BY DEF EffectInv
    <2>3. ReplyInv(e)'
      BY DEF ReplyInv, Unanswered
    <2>4. RowInv(e)'
      <3>1. CASE UNCHANGED msg
        BY <3>1 DEF RowInv
      <3>2. CASE RecordReply(e)
        <4>1. msg'[e].reply = run[e].outcome /\ msg'[e].effect = IF run[e].ok THEN "succeeded" ELSE "failed"
          BY <3>2, RecordedReply
        <4>. QED BY <4>1 DEF RowInv, ReplyInv, EffectInv
      <3>. QED BY <1>2, <3>1, <3>2
    <2>5. OwnedInv(e)'
      <3>1. Calm' => msg'[e].status \in {"succeeded", "failed"}
        BY <1>2, <1>7, RecordedReply
      <3>. QED BY <3>1 DEF OwnedInv
    <2>. QED BY <2>1, <2>2, <2>3, <2>4, <2>5
  <1>. QED BY <1>1, <1>4, <1>5, <1>6, <1>7, <1>8, HandlerStep DEF Busy

\* Control.OnError: what it writes is not what happened, and says so in its code.
LEMMA OnErrorStep ==
    ASSUME IInv, NEW e \in Events, OnError(e)
    PROVE  IInv'
  <1>. USE DEF IInv, TypeOK
  <1>1. UNCHANGED byHandler /\ UNCHANGED <<effects, replies>> /\ run[e].pc = "onerror" /\ Goto(e, "over")
    BY DEF OnError, At, Saved
  <1>2. /\ FailMessage(e, "command_control_failed") \/ UNCHANGED msg
        /\ Fault \/ (faults' = faults /\ FailMessage(e, "command_control_failed"))
    BY DEF OnError, Saved, NoFault
  <1>3. /\ run' \in [Events -> Progress] /\ \A d \in Events \ {e} : run'[d] = run[d]
        /\ run'[e].pc = "over" /\ run'[e].doubt = run[e].doubt
    BY <1>1, ProgressWritten DEF Places
  <1>4. msg' \in [Events -> MessageRows]
    BY <1>2, ClosedRows
  <1>5. /\ \A d \in Events \ {e} : msg'[d] = msg[d]
        /\ FailMessage(e, "command_control_failed") =>
              msg'[e].status = "failed" /\ msg'[e].code = "command_control_failed"
    BY <1>2 DEF FailMessage
  <1>6. OnlyEvent(e) /\ (msg'[e].status = "none" => msg[e].status = "none")
    BY <1>1, <1>2, <1>3, <1>5 DEF OnlyEvent
  <1>7. faults' \in 0 .. MaxFaults /\ faults <= faults' /\ (Fault => ~Calm')
    BY <1>1, <1>2, FaultCount DEF Calm, byHandler
  <1>8. EventInv(e)'
    <2>. USE <1>1, <1>3 DEF EventInv, byHandler, input, Command
    <2>1. PlaceInv(e)'
      BY <1>6 DEF PlaceInv
    <2>2. EffectInv(e)'
      BY DEF EffectInv
    <2>3. ReplyInv(e)'
      BY DEF ReplyInv, Unanswered
    <2>4. RowInv(e)'
      BY <1>2, <1>5 DEF RowInv
    <2>5. OwnedInv(e)'
      <3>1. Calm' => msg'[e].status = "failed"
        BY <1>2, <1>5, <1>7
      <3>. QED BY <3>1 DEF OwnedInv
    <2>. QED BY <2>1, <2>2, <2>3, <2>4, <2>5
  <1>. QED BY <1>1, <1>3, <1>4, <1>6, <1>7, <1>8, HandlerStep DEF Busy

\* submitControl: the queue is cut, the control waits for its turn.
LEMMA SubmitControlStep ==
    ASSUME IInv, NEW e \in Events, SubmitControl(e)
    PROVE  IInv'
  <1>. USE DEF IInv, TypeOK
  <1>. DEFINE cut == {d \in Events : At(d, "queued")}
  <1>1. /\ UNCHANGED <<att, disk, prep, cleaner, life, crashes, kind, deliveries, replies>>
        /\ run[e].pc = "route" /\ kind[e] \in {"cancel", "new"} /\ e \notin cut
        /\ Fault \/ faults' = faults
    BY DEF SubmitControl, At, input, NoFault
  <1>2. Onward /\ faults' \in 0 .. MaxFaults /\ (Fault => ~Calm') /\ (faults' = faults => (Calm' <=> Calm))
    BY <1>1, FaultCount DEF Onward, Calm
  <1>3. CASE Goto(e, "dropped") /\ UNCHANGED <<faults, ctxDone, effects, msg>>
    <2>1. /\ run' \in [Events -> Progress] /\ \A d \in Events \ {e} : run'[d] = run[d]
          /\ run'[e].pc = "dropped" /\ run'[e].doubt = run[e].doubt
      BY <1>3, ProgressWritten DEF Places
    <2>2. OnlyEvent(e) /\ UNCHANGED byHandler
      BY <1>1, <1>3, <2>1 DEF OnlyEvent, byHandler, input
    <2>3. EventInv(e)'
      <3>. USE <1>1, <1>3, <2>1 DEF EventInv, Command
      <3>1. PlaceInv(e)'
        BY DEF PlaceInv
      <3>2. EffectInv(e)' /\ RowInv(e)'
        BY DEF EffectInv, RowInv
      <3>3. ReplyInv(e)'
        BY DEF ReplyInv, Unanswered
      <3>4. OwnedInv(e)'
        BY <1>2 DEF OwnedInv
      <3>. QED BY <3>1, <3>2, <3>3, <3>4
    <2>. QED BY <1>1, <1>2, <1>3, <2>1, <2>2, <2>3, HandlerStep DEF Busy, Onward
  <1>4. CASE /\ run' = [d \in Events |-> IF d \in cut THEN [run[d] EXCEPT !.pc = "over"]
                                         ELSE IF d = e THEN [run[d] EXCEPT !.pc = "control"] ELSE run[d]]
             /\ ctxDone' = (\E d \in Events : Busy(d))
             /\ IF kind[e] = "cancel" THEN Happened(e) ELSE UNCHANGED effects
             /\ \/ NoFault /\ msg' = [d \in Events |-> IF d \in cut THEN [msg[d] EXCEPT !.status = "failed",
                                                          !.code = "cancelled_by_command"] ELSE msg[d]]
                \/ Fault /\ UNCHANGED msg
    <2>1. run' \in [Events -> Progress]
      BY <1>4 DEF Progress
    <2>2. /\ \A d \in cut : run[d].pc = "queued" /\ run'[d].pc = "over" /\ run'[d].doubt = run[d].doubt
          /\ run'[e].pc = "control" /\ run'[e].doubt = run[e].doubt
          /\ \A d \in Events \ {e} : d \notin cut => run'[d] = run[d]
      BY <1>1, <1>4 DEF Progress, At
    <2>. DEFINE row(r) == [r EXCEPT !.status = "failed", !.code = "cancelled_by_command"]
    <2>3. \A r \in MessageRows : /\ row(r) \in MessageRows /\ row(r).status = "failed"
                                 /\ row(r).reply = r.reply /\ row(r).effect = r.effect
      BY DEF MessageRows
    <2>4. \/ msg' = [d \in Events |-> IF d \in cut THEN row(msg[d]) ELSE msg[d]]
          \/ Fault /\ msg' = msg
      BY <1>4
    <2>5. msg \in [Events -> MessageRows] /\ cut \subseteq Events
      OBVIOUS
    <2>. HIDE DEF row, cut
    <2>6. msg' \in [Events -> MessageRows]
      BY ONLY <2>3, <2>4, <2>5
    <2>7. /\ \A d \in Events : d \notin cut => msg'[d] = msg[d]
          /\ \A d \in cut : \/ msg'[d] = msg[d] /\ Fault
                            \/ msg'[d].status = "failed"
      BY ONLY <2>3, <2>4, <2>5
    <2>8. \A d \in cut : msg'[d].reply = msg[d].reply /\ msg'[d].effect = msg[d].effect
      BY ONLY <2>3, <2>4, <2>5
    <2>. USE DEF cut
    <2>9. /\ effects' \in [Events -> Nat] /\ \A d \in Events \ {e} : effects'[d] = effects[d]
          /\ effects'[e] = IF kind[e] = "cancel" THEN effects[e] + 1 ELSE effects[e]
      <3>1. IF kind[e] = "cancel" THEN Happened(e) ELSE UNCHANGED effects
        BY <1>4
      <3>. QED BY <3>1 DEF Happened
    <2>10. AttTypeOK'
      BY <1>1, <1>2, <1>4 DEF AttTypeOK
    <2>11. ASSUME NEW d \in cut PROVE EventInv(d)'
      <3>. USE <1>1, <2>2, <2>7, <2>9, <2>11 DEF EventInv, Command
      <3>1. kind[d] \in {"normal", "goal"} /\ d \in Events /\ d # e
        BY DEF PlaceInv
      <3>2. PlaceInv(d)'
        BY <3>1 DEF PlaceInv
      <3>3. EffectInv(d)'
        BY <3>1 DEF EffectInv
      <3>4. ReplyInv(d)'
        BY <3>1 DEF ReplyInv, Unanswered
      <3>5. RowInv(d)'
        BY <2>8, <3>1 DEF RowInv
      <3>6. OwnedInv(d)'
        BY <1>2, <3>1 DEF OwnedInv
      <3>. QED BY <3>2, <3>3, <3>4, <3>5, <3>6
    <2>12. EventInv(e)'
      <3>. USE <1>1, <2>2, <2>7, <2>9 DEF EventInv, Command
      <3>1. PlaceInv(e)'
        BY DEF PlaceInv
      <3>2. EffectInv(e)'
        BY DEF EffectInv
      <3>3. ReplyInv(e)'
        BY DEF ReplyInv, Unanswered
      <3>4. RowInv(e)'
        BY DEF RowInv
      <3>5. OwnedInv(e)'
        BY DEF OwnedInv
      <3>. QED BY <3>1, <3>2, <3>3, <3>4, <3>5
    <2>13. ASSUME NEW d \in Events, d # e, d \notin cut PROVE EventInv(d)'
      BY <1>1, <1>2, <2>2, <2>7, <2>9, <2>13, Untouched
    <2>14. FileInv'
      <3>1. \A d \in Events : /\ At(d, "prepare")' <=> At(d, "prepare")
                              /\ At(d, "turn")' => At(d, "turn")
                              /\ msg'[d].status = "none" => msg[d].status = "none"
        BY <1>1, <2>2, <2>7 DEF At
      <3>. QED BY <1>1, <3>1, WorkMeansUp, FilesUndisturbed
    <2>. QED BY <1>1, <2>1, <2>6, <2>9, <2>10, <2>11, <2>12, <2>13, <2>14
  <1>. QED BY <1>3, <1>4 DEF SubmitControl
-----------------------------------------------------------------------------
(* The batch.                                                              *)

\* A status that is written leaves the rest of the row alone.
LEMMA StatusWritten ==
    ASSUME msg \in [Events -> MessageRows], NEW e \in Events,
           NEW s \in {"processing", "succeeded", "failed"}, msg' = [msg EXCEPT ![e].status = s]
    PROVE  /\ msg' \in [Events -> MessageRows] /\ \A d \in Events \ {e} : msg'[d] = msg[d]
           /\ msg'[e].status = s /\ msg'[e].reply = msg[e].reply /\ msg'[e].effect = msg[e].effect
  <1>. DEFINE q == [msg[e] EXCEPT !.status = s]
  <1>1. q \in MessageRows /\ q.status = s /\ q.reply = msg[e].reply /\ q.effect = msg[e].effect
    BY DEF MessageRows
  <1>2. msg' = [msg EXCEPT ![e] = q]
    OBVIOUS
  <1>. HIDE DEF q
  <1>. QED BY <1>1, <1>2

\* The turn is over, or the preparation failed.
LEMMA EndBatchStep ==
    ASSUME IInv, NEW e \in Events, EndBatch(e)
    PROVE  IInv'
  <1>. USE DEF IInv, TypeOK
  <1>1. /\ UNCHANGED <<att, disk, prep, cleaner, life, crashes, kind, deliveries, effects, replies>>
        /\ run[e].pc \in {"turn", "failing"} /\ ctxDone' = FALSE
    BY DEF EndBatch, input
  <1>2. Goto(e, "over")
    BY DEF EndBatch, Saved
  <1>3. PICK s \in {"succeeded", "failed"} :
          \/ faults' = faults /\ s = "succeeded" /\ msg[e].status # "processing" /\ msg' = msg
          \/ faults' = faults /\ msg' = [msg EXCEPT ![e].status = s]
          \/ Fault /\ (msg' = msg \/ msg' = [msg EXCEPT ![e].status = s])
    BY DEF EndBatch, Saved, NoFault
  <1>4. /\ run' \in [Events -> Progress] /\ \A d \in Events \ {e} : run'[d] = run[d]
        /\ run'[e].pc = "over" /\ run'[e].doubt = run[e].doubt
    BY <1>2, ProgressWritten DEF Places
  <1>5. /\ msg' \in [Events -> MessageRows] /\ \A d \in Events \ {e} : msg'[d] = msg[d]
        /\ msg'[e].reply = msg[e].reply /\ msg'[e].effect = msg[e].effect
        /\ msg'[e].status = "none" => msg[e].status = "none"
    BY <1>3, StatusWritten
  <1>6. Onward /\ faults' \in 0 .. MaxFaults /\ (Fault => ~Calm') /\ (faults' = faults => (Calm' <=> Calm))
    BY <1>1, <1>3, FaultCount DEF Onward, Calm
  <1>7. OnlyEvent(e)
    BY <1>1, <1>4, <1>5 DEF OnlyEvent
  <1>8. EventInv(e)'
    <2>. USE <1>1, <1>4, <1>5 DEF EventInv, Command
    <2>1. PlaceInv(e)'
      BY DEF PlaceInv
    <2>2. EffectInv(e)'
      BY DEF EffectInv
    <2>3. ReplyInv(e)'
      BY DEF ReplyInv, Unanswered
    <2>4. RowInv(e)'
      BY DEF RowInv, PlaceInv
    <2>5. OwnedInv(e)'
      <3>1. Calm' => msg[e].status = "processing"
        BY <1>3, <1>6 DEF OwnedInv
      <3>2. Calm' => msg'[e].status = s
        BY <1>3, <1>6, <3>1, StatusWritten
      <3>. QED BY <3>2 DEF OwnedInv
    <2>. QED BY <2>1, <2>2, <2>3, <2>4, <2>5
  <1>9. \A d \in Events : EventInv(d)'
    BY <1>6, <1>7, <1>8, OneEvent
  <1>10. FileInv'
    <2>1. \A d \in Events : /\ At(d, "prepare")' <=> At(d, "prepare")
                            /\ At(d, "turn")' => At(d, "turn")
                            /\ msg'[d].status = "none" => msg[d].status = "none"
      BY <1>1, <1>4, <1>5 DEF At
    <2>. QED BY <1>1, <2>1, WorkMeansUp, FilesUndisturbed
  <1>11. AttTypeOK'
    BY <1>1, <1>6 DEF AttTypeOK
  <1>. QED BY <1>1, <1>4, <1>5, <1>9, <1>10, <1>11

\* Prepare returned: with every file, or with an error.
LEMMA AfterPrepareStep ==
    ASSUME IInv, NEW e \in Events, AfterPrepare(e)
    PROVE  IInv'
  <1>. USE DEF IInv, TypeOK
  <1>1. /\ UNCHANGED <<att, disk, ctxDone, cleaner, life, crashes, faults, kind, deliveries, msg, replies>>
        /\ run[e].pc = "prepare" /\ prep.pc \in {"ok", "error"} /\ prep' = NoPrep
        /\ \/ prep.pc = "ok" /\ Goto(e, "turn") /\ Happened(e)
           \/ Goto(e, "failing") /\ UNCHANGED effects
    BY DEF AfterPrepare, At, input
  <1>2. /\ run' \in [Events -> Progress] /\ \A d \in Events \ {e} : run'[d] = run[d]
        /\ run'[e].pc \in {"turn", "failing"} /\ run'[e].doubt = run[e].doubt
        /\ run'[e].pc = "turn" => prep.pc = "ok"
    BY <1>1, ProgressWritten DEF Places
  <1>3. /\ effects' \in [Events -> Nat] /\ \A d \in Events \ {e} : effects'[d] = effects[d]
        /\ effects'[e] \in {effects[e], effects[e] + 1} /\ effects[e] \in Nat
    BY <1>1 DEF Happened
  <1>4. Onward /\ OnlyEvent(e)
    BY <1>1, <1>2, <1>3, FaultCount DEF Onward, OnlyEvent
  <1>5. EventInv(e)'
    <2>. USE <1>1, <1>2, <1>3 DEF EventInv, Command
    <2>1. PlaceInv(e)'
      BY DEF PlaceInv
    <2>2. EffectInv(e)'
      BY DEF EffectInv
    <2>3. ReplyInv(e)'
      BY DEF ReplyInv, Unanswered
    <2>4. RowInv(e)'
      BY DEF RowInv, PlaceInv
    <2>5. OwnedInv(e)'
      BY DEF OwnedInv, Calm
    <2>. QED BY <2>1, <2>2, <2>3, <2>4, <2>5
  <1>6. \A d \in Events : EventInv(d)'
    BY <1>4, <1>5, OneEvent
  <1>7. FileInv'
    <2>. USE <1>1, <1>2 DEF FileInv
    <2>1. \A d \in Events : Attached(d)' = Attached(d)
      BY DEF Attached
    <2>2. \A f : Kept(f)' <=> Kept(f)
      BY DEF Kept, Settled
    <2>3. \A d \in Events \ {e} : ~Busy(d) /\ ~Busy(d)' /\ run'[d].pc = run[d].pc
      BY DEF PrepInv, Busy
    <2>4. FreshInv'
      BY <2>1 DEF FreshInv
    <2>5. PrepInv'
      <3>1. prep'.pc = "idle"
        BY DEF NoPrep
      <3>. QED BY <2>3, <3>1 DEF PrepInv, Working, Busy, At
    <2>6. TurnInv'
      <3>1. At(e, "turn")' => \A f \in ToSet(Attached(e)) : Kept(f)
        <4>1. prep.pc = "ok" => \A f \in ToSet(Attached(e)) \ ToSet(prep.left) : Kept(f)
          BY DEF PrepInv, At
        <4>2. prep.pc = "ok" => ToSet(prep.left) = {}
          BY DEF PrepInv, ToSet
        <4>. QED BY <4>1, <4>2 DEF At
      <3>. QED BY <2>1, <2>2, <2>3, <3>1 DEF TurnInv, At, Busy
    <2>7. CleanInv'
      BY DEF CleanInv, Settled
    <2>8. LifeInv'
      BY WorkMeansUp DEF LifeInv
    <2>9. FilesMatchRows'
      BY DEF FilesMatchRows
    <2>. QED BY <2>4, <2>5, <2>6, <2>7, <2>8, <2>9
  <1>8. AttTypeOK'
    <2>1. NoPrep \in Preparations
      BY EmptySeq DEF NoPrep, Preparations
    <2>. QED BY <1>1, <2>1 DEF AttTypeOK
  <1>. QED BY <1>1, <1>2, <1>3, <1>6, <1>7, <1>8

\* A batch begins: with the preparation of its files, or with the turn.
LEMMA StartBatchStep ==
    ASSUME IInv, NEW e \in Events, StartBatch(e)
    PROVE  IInv'
  <1>. USE DEF IInv, TypeOK
  <1>1. /\ UNCHANGED <<att, disk, cleaner, life, crashes, kind, deliveries, replies>>
        /\ run[e].pc = "queued" /\ Idle /\ ctxDone' = FALSE
    BY DEF StartBatch, At, input
  <1>2. \/ Attached(e) = <<>> /\ Goto(e, "turn") /\ Happened(e) /\ UNCHANGED prep
        \/ /\ Attached(e) # <<>> /\ Goto(e, "prepare") /\ prep' = [pc |-> "load", left |-> Attached(e)]
           /\ UNCHANGED effects
    BY DEF StartBatch
  <1>3. \/ faults' = faults /\ msg' = [msg EXCEPT ![e].status = "processing"]
        \/ Fault /\ (msg' = msg \/ msg' = [msg EXCEPT ![e].status = "processing"])
    BY DEF StartBatch, Saved, NoFault
  <1>4. /\ run' \in [Events -> Progress] /\ \A d \in Events \ {e} : run'[d] = run[d]
        /\ run'[e].pc \in {"turn", "prepare"} /\ run'[e].doubt = run[e].doubt
        /\ run'[e].pc = "prepare" => UNCHANGED effects
    BY <1>2, ProgressWritten DEF Places
  <1>5. /\ effects' \in [Events -> Nat] /\ \A d \in Events \ {e} : effects'[d] = effects[d]
        /\ effects'[e] \in {effects[e], effects[e] + 1} /\ effects[e] \in Nat
    BY <1>2 DEF Happened
  <1>6. /\ msg' \in [Events -> MessageRows] /\ \A d \in Events \ {e} : msg'[d] = msg[d]
        /\ msg'[e].reply = msg[e].reply /\ msg'[e].effect = msg[e].effect
        /\ msg'[e].status = "none" => msg[e].status = "none"
        /\ msg'[e].status = "processing" \/ Fault
    BY <1>3, StatusWritten
  <1>7. Onward /\ faults' \in 0 .. MaxFaults /\ (Fault => ~Calm') /\ (faults' = faults => (Calm' <=> Calm))
    BY <1>1, <1>3, FaultCount DEF Onward, Calm
  <1>8. OnlyEvent(e)
    BY <1>1, <1>4, <1>5, <1>6 DEF OnlyEvent
  <1>9. EventInv(e)'
    <2>. USE <1>1, <1>4, <1>5, <1>6 DEF EventInv, Command
    <2>1. PlaceInv(e)'
      BY DEF PlaceInv
    <2>2. EffectInv(e)'
      BY DEF EffectInv
    <2>3. ReplyInv(e)'
      BY DEF ReplyInv, Unanswered
    <2>4. RowInv(e)'
      BY DEF RowInv, PlaceInv
    <2>5. OwnedInv(e)'
      BY <1>7 DEF OwnedInv
    <2>. QED BY <2>1, <2>2, <2>3, <2>4, <2>5
  <1>10. \A d \in Events : EventInv(d)'
    BY <1>7, <1>8, <1>9, OneEvent
  <1>11. \A d \in Events : Attached(d)' = Attached(d)
    BY <1>1 DEF Attached
  <1>12. FileInv'
    <2>. USE <1>1, <1>11 DEF FileInv
    <2>1. \A f : Kept(f)' <=> Kept(f)
      BY DEF Kept, Settled
    <2>2. \A d \in Events : ~Busy(d) /\ (Busy(d)' => d = e)
      BY <1>4 DEF Idle, Busy
    <2>3. prep.pc = "idle"
      BY <2>2 DEF PrepInv, Busy, At
    <2>4. FreshInv'
      BY <1>6 DEF FreshInv
    <2>5. ASSUME Attached(e) = <<>>, Goto(e, "turn"), UNCHANGED prep PROVE PrepInv' /\ TurnInv'
      <3>1. run'[e].pc = "turn"
        BY <2>5, ProgressWritten DEF Places
      <3>2. PrepInv'
        BY <2>2, <2>3, <2>5, <3>1 DEF PrepInv, Working, Busy, At
      <3>3. TurnInv'
        <4>1. ToSet(Attached(e)) = {}
          BY <2>5 DEF ToSet
        <4>. QED BY <2>2, <4>1 DEF TurnInv, At, Busy
      <3>. QED BY <3>2, <3>3
    <2>6. ASSUME Attached(e) # <<>>, Goto(e, "prepare"), prep' = [pc |-> "load", left |-> Attached(e)]
          PROVE  PrepInv' /\ TurnInv'
      <3>1. run'[e].pc = "prepare" /\ prep'.pc = "load" /\ prep'.left = Attached(e)
        BY <2>6, ProgressWritten DEF Places
      <3>2. PrepInv'
        <4>1. \A f \in ToSet(Attached(e)) \ ToSet(prep'.left) : Kept(f)'
          BY <3>1
        <4>. QED BY <2>2, <2>6, <3>1, <4>1 DEF PrepInv, Working, Busy, At
      <3>3. TurnInv'
        BY <2>2, <3>1 DEF TurnInv, At, Busy
      <3>. QED BY <3>2, <3>3
    <2>7. PrepInv' /\ TurnInv'
      BY <1>2, <2>5, <2>6
    <2>8. CleanInv'
      BY DEF CleanInv, Settled
    <2>9. LifeInv'
      BY WorkMeansUp DEF LifeInv
    <2>10. FilesMatchRows'
      BY DEF FilesMatchRows
    <2>. QED BY <2>4, <2>7, <2>8, <2>9, <2>10
  <1>13. AttTypeOK'
    <2>1. Attached(e) \in Seq(Files)
      BY IngressAssumption, EmptySeq DEF Attached
    <2>2. prep' \in Preparations
      BY <1>2, <2>1 DEF Preparations, AttTypeOK
    <2>. QED BY <1>1, <1>7, <2>2 DEF AttTypeOK
  <1>. QED BY <1>1, <1>4, <1>5, <1>6, <1>10, <1>12, <1>13
-----------------------------------------------------------------------------
(* Delivery, crash and restart.                                            *)

\* The attachments of an event are files, and so is the one in preparation.
LEMMA AttachedFiles ==
    ASSUME TypeOK
    PROVE  /\ \A e \in Events : Attached(e) \in Seq(Files) /\ ToSet(Attached(e)) \subseteq Files
           /\ \A d, e \in Events : d # e => ToSet(Attached(d)) \cap ToSet(Attached(e)) = {}
           /\ prep.left # <<>> => Current \in Files
  <1>1. \A s \in Seq(Files) : ToSet(s) \subseteq Files
    BY DEF ToSet
  <1>2. \A e \in Events : Attached(e) \in Seq(Files)
    BY IngressAssumption, EmptySeq DEF Attached
  <1>3. ToSet(<<>>) = {}
    BY DEF ToSet
  <1>4. \A d, e \in Events : d # e => ToSet(Attached(d)) \cap ToSet(Attached(e)) = {}
    BY <1>3, IngressAssumption DEF Attached
  <1>5. prep.left # <<>> => Current \in Files
    <2>1. prep.left \in Seq(Files)
      BY DEF TypeOK, AttTypeOK, Preparations
    <2>. QED BY <2>1 DEF Current
  <1>. QED BY <1>1, <1>2, <1>4, <1>5

\* The transaction that inserts the row of a message stages its files.
LEMMA Inserted ==
    ASSUME IInv, NEW e \in Events, msg[e].status = "none", InsertRows(e)
    PROVE  /\ msg' \in [Events -> MessageRows] /\ \A d \in Events \ {e} : msg'[d] = msg[d]
           /\ msg'[e].status = "received" /\ msg'[e].code = ""
           /\ msg'[e].effect \in {"none", "pending"} /\ msg'[e].reply \in {"none", "pending"}
           /\ Command(e) => msg'[e].reply = "pending"
           /\ att' \in [Files -> AttRows]
           /\ \A f \in Files : IF f \in ToSet(Attached(e))
                                THEN att[f].state = "none" /\ att'[f].state = "staged"
                                ELSE att'[f] = att[f]
  <1>. USE DEF IInv, TypeOK
  <1>. DEFINE pending == IF Command(e) THEN "pending" ELSE "none"
              q == [status |-> "received", effect |-> pending, reply |-> pending, code |-> ""]
  <1>1. q \in MessageRows /\ q.status = "received" /\ q.code = "" /\ q.effect = pending /\ q.reply = pending
    BY DEF MessageRows
  <1>2. msg' = [msg EXCEPT ![e] = q]
    BY DEF InsertRows
  <1>3. pending \in {"none", "pending"} /\ (Command(e) => pending = "pending")
    OBVIOUS
  <1>. HIDE DEF q, pending
  <1>4. /\ msg' \in [Events -> MessageRows] /\ \A d \in Events \ {e} : msg'[d] = msg[d]
        /\ msg'[e].status = "received" /\ msg'[e].code = ""
        /\ msg'[e].effect \in {"none", "pending"} /\ msg'[e].reply \in {"none", "pending"}
        /\ Command(e) => msg'[e].reply = "pending"
    BY <1>1, <1>2, <1>3
  <1>. DEFINE S == ToSet(Attached(e))
  <1>5. \A f \in S : att[f].state = "none"
    BY DEF FileInv, FreshInv
  <1>6. att' = [f \in Files |-> IF f \in S THEN [att[f] EXCEPT !.state = "staged"] ELSE att[f]]
    BY DEF InsertRows
  <1>7. \A r \in AttRows : [r EXCEPT !.state = "staged"] \in AttRows /\ [r EXCEPT !.state = "staged"].state = "staged"
    BY DEF AttRows
  <1>8. att \in [Files -> AttRows]
    BY DEF AttTypeOK
  <1>. HIDE DEF S
  <1>9. att' \in [Files -> AttRows]
    BY <1>6, <1>7, <1>8
  <1>10. \A f \in Files : IF f \in S THEN att[f].state = "none" /\ att'[f].state = "staged" ELSE att'[f] = att[f]
    BY <1>5, <1>6, <1>7, <1>8
  <1>. QED BY <1>4, <1>9, <1>10 DEF S

\* Staging new rows disturbs no file that anybody works with.
LEMMA StagedFiles ==
    ASSUME IInv, life = "up", kind' = kind, UNCHANGED <<disk, prep, cleaner, life>>, NEW e \in Events,
           msg'[e].status # "none", \A d \in Events \ {e} : msg'[d] = msg[d],
           \A d \in Events : (At(d, "prepare")' <=> At(d, "prepare")) /\ (At(d, "turn")' <=> At(d, "turn")),
           \A f \in Files : IF f \in ToSet(Attached(e))
                             THEN att[f].state = "none" /\ att'[f].state = "staged" ELSE att'[f] = att[f]
    PROVE  FileInv'
  <1>. USE DEF IInv, FileInv
  <1>1. \A d \in Events : Attached(d)' = Attached(d)
    BY DEF Attached
  <1>2. \A d \in Events : ToSet(Attached(d)) \subseteq Files
    BY AttachedFiles
  <1>3. \A f \in Files : att[f].state # "none" => att'[f] = att[f]
    OBVIOUS
  <1>4. \A f \in Files : Kept(f) => Kept(f)'
    BY <1>3 DEF Kept, Settled
  <1>5. \A d \in Events : Busy(d)' => Busy(d)
    BY DEF Busy, At
  <1>6. FreshInv'
    <2>1. ASSUME NEW d \in Events, msg'[d].status = "none", NEW f \in ToSet(Attached(d)) PROVE att'[f].state = "none"
      <3>1. d # e /\ f \in Files /\ f \notin ToSet(Attached(e))
        BY <2>1, AttachedFiles
      <3>2. att[f].state = "none"
        BY <2>1, <3>1 DEF FreshInv
      <3>. QED BY <3>1, <3>2
    <2>. QED BY <1>1, <2>1 DEF FreshInv
  <1>7. PrepInv'
    <2>1. prep.pc \in Working => att'[Current].state = "processing"
      BY <1>3, AttachedFiles DEF PrepInv
    <2>. QED BY <1>1, <1>2, <1>4, <1>5, <2>1 DEF PrepInv, Current
  <1>8. TurnInv'
    BY <1>1, <1>2, <1>4 DEF TurnInv
  <1>9. CleanInv'
    <2>1. cleaner.todo \cup cleaner.f \subseteq Files
      BY DEF TypeOK, AttTypeOK, CleanerRuns
    <2>2. \A f \in cleaner.todo \cup cleaner.f : att'[f] = att[f]
      BY <1>3, <2>1 DEF CleanInv, Settled
    <2>. QED BY <1>3, <2>2 DEF CleanInv, Settled
  <1>10. LifeInv'
    BY DEF LifeInv
  <1>11. FilesMatchRows'
    BY DEF FilesMatchRows
  <1>. QED BY <1>6, <1>7, <1>8, <1>9, <1>10, <1>11

\* An event is delivered, for the first time or again.
LEMMA DeliverStep ==
    ASSUME IInv, NEW e \in Events, Deliver(e)
    PROVE  IInv'
  <1>. USE DEF IInv, TypeOK
  <1>1. /\ UNCHANGED <<disk, prep, ctxDone, cleaner, life, crashes, kind, effects, replies>>
        /\ life = "up" /\ PersistIncoming(e)
    BY DEF Deliver
  <1>2. deliveries' \in 0 .. MaxDeliveries
    BY IngressAssumption DEF Deliver
  <1>3. faults' = faults \/ Fault
    BY <1>1 DEF PersistIncoming, NoFault
  <1>4. Onward /\ faults' \in 0 .. MaxFaults /\ (Fault => ~Calm')
    BY <1>1, <1>3, FaultCount DEF Onward, Calm
  <1>5. CASE UNCHANGED <<msg, att, run>>
    <2>1. \A d \in Events : EventInv(d)'
      BY <1>1, <1>4, <1>5, Untouched
    <2>2. FileInv'
      BY <1>1, <1>5, FilesUndisturbed DEF At
    <2>3. AttTypeOK'
      BY <1>1, <1>4, <1>5 DEF AttTypeOK
    <2>. QED BY <1>1, <1>2, <1>5, <2>1, <2>2, <2>3
  <1>6. CASE msg[e].status = "none" /\ InsertRows(e) /\ (Goto(e, "route") \/ (Fault /\ UNCHANGED run))
    <2>1. run[e].pc = "none"
      BY <1>6 DEF EventInv, PlaceInv
    <2>2. /\ run' \in [Events -> Progress] /\ \A d \in Events \ {e} : run'[d] = run[d]
          /\ run'[e].doubt = run[e].doubt
          /\ run'[e].pc = "route" \/ (run'[e].pc = "none" /\ Fault)
      BY <1>6, <2>1, ProgressWritten DEF Places
    <2>3. /\ msg' \in [Events -> MessageRows] /\ \A d \in Events \ {e} : msg'[d] = msg[d]
          /\ msg'[e].status = "received" /\ msg'[e].code = ""
          /\ msg'[e].effect \in {"none", "pending"} /\ msg'[e].reply \in {"none", "pending"}
          /\ Command(e) => msg'[e].reply = "pending"
      BY <1>6, Inserted
    <2>4. /\ att' \in [Files -> AttRows]
          /\ \A f \in Files : IF f \in ToSet(Attached(e))
                               THEN att[f].state = "none" /\ att'[f].state = "staged"
                               ELSE att'[f] = att[f]
      BY <1>6, Inserted
    <2>5. EventInv(e)'
      <3>. USE <1>1, <2>1, <2>2, <2>3 DEF EventInv, Command
      <3>1. PlaceInv(e)'
        BY DEF PlaceInv
      <3>2. EffectInv(e)'
        BY DEF EffectInv
      <3>3. ReplyInv(e)'
        BY DEF ReplyInv, Unanswered
      <3>4. RowInv(e)'
        BY DEF RowInv
      <3>5. OwnedInv(e)'
        BY <1>4 DEF OwnedInv
      <3>. QED BY <3>1, <3>2, <3>3, <3>4, <3>5
    <2>6. \A d \in Events : EventInv(d)'
      <3>1. OnlyEvent(e)
        BY <1>1, <2>2, <2>3 DEF OnlyEvent
      <3>. QED BY <1>4, <2>5, <3>1, OneEvent
    <2>7. FileInv'
      <3>1. \A d \in Events : (At(d, "prepare")' <=> At(d, "prepare")) /\ (At(d, "turn")' <=> At(d, "turn"))
        BY <2>1, <2>2 DEF At
      <3>. QED BY <1>1, <2>3, <2>4, <3>1, StagedFiles
    <2>8. AttTypeOK'
      <3>1. \A f \in Files : att'[f].state \in {"ready", "deleting", "deleted"} => att'[f].due # "none"
        BY <2>4 DEF AttTypeOK
      <3>. QED BY <1>1, <1>4, <2>4, <3>1 DEF AttTypeOK
    <2>. QED BY <1>1, <1>2, <2>2, <2>3, <2>6, <2>7, <2>8
  <1>. QED BY <1>1, <1>5, <1>6 DEF PersistIncoming

\* The process dies.
LEMMA CrashStep ==
    ASSUME IInv, Crash
    PROVE  IInv'
  <1>. USE DEF IInv, TypeOK
  <1>1. /\ UNCHANGED <<att, disk, faults, kind, deliveries, msg, effects, replies>>
        /\ crashes' = crashes + 1 /\ crashes < MaxCrashes /\ life' = "down"
        /\ prep' = NoPrep /\ cleaner' = NoRun /\ ctxDone' = FALSE
    BY DEF Crash, AttCrash, input
  <1>2. run' = [e \in Events |-> IF msg[e].status = "none" THEN run[e] ELSE [run[e] EXCEPT !.pc = "over"]]
    BY DEF Crash
  <1>3. /\ run' \in [Events -> Progress]
        /\ \A e \in Events : /\ run'[e].doubt = run[e].doubt
                             /\ run'[e].pc = IF msg[e].status = "none" THEN run[e].pc ELSE "over"
    BY <1>2 DEF Progress
  <1>4. crashes' \in 0 .. MaxCrashes /\ ~Calm'
    <2>1. faults \in Nat /\ crashes \in Nat
      BY AttachmentsAssumption DEF AttTypeOK
    <2>. QED BY <1>1, <2>1, AttachmentsAssumption DEF Calm
  <1>5. ASSUME NEW e \in Events PROVE EventInv(e)'
    <2>. USE <1>1, <1>3 DEF EventInv, Command
    <2>1. PlaceInv(e)'
      BY DEF PlaceInv
    <2>2. EffectInv(e)'
      BY DEF EffectInv, PlaceInv
    <2>3. ReplyInv(e)'
      BY DEF ReplyInv, Unanswered, PlaceInv
    <2>4. RowInv(e)'
      BY DEF RowInv, PlaceInv
    <2>5. OwnedInv(e)'
      BY <1>4 DEF OwnedInv
    <2>. QED BY <2>1, <2>2, <2>3, <2>4, <2>5
  <1>6. FileInv'
    <2>. USE <1>1 DEF FileInv
    <2>1. \A e \in Events : run'[e].pc \in {"none", "over"}
      BY <1>3 DEF EventInv, PlaceInv
    <2>2. prep'.pc = "idle" /\ cleaner'.pc = "idle" /\ cleaner'.todo = {} /\ cleaner'.f = {}
      BY DEF NoPrep, NoRun
    <2>3. FreshInv'
      BY DEF FreshInv, Attached
    <2>4. PrepInv' /\ TurnInv' /\ LifeInv'
      BY <2>1, <2>2 DEF PrepInv, TurnInv, LifeInv, Busy, At, Working
    <2>5. CleanInv'
      BY <2>2 DEF CleanInv
    <2>6. FilesMatchRows'
      BY DEF FilesMatchRows
    <2>. QED BY <2>3, <2>4, <2>5, <2>6
  <1>7. AttTypeOK'
    <2>1. NoPrep \in Preparations /\ NoRun \in CleanerRuns
      BY EmptySeq DEF NoPrep, Preparations, NoRun, CleanerRuns
    <2>. QED BY <1>1, <1>4, <2>1 DEF AttTypeOK
  <1>. QED BY <1>1, <1>3, <1>5, <1>6, <1>7

\* The next process starts: what was unfinished is given up.
LEMMA RestartStep ==
    ASSUME IInv, Restart
    PROVE  IInv'
  <1>. USE DEF IInv, TypeOK
  <1>1. /\ UNCHANGED inVars /\ UNCHANGED <<disk, faults, crashes>> /\ life = "down" /\ Reconcile
        /\ life' = "starting" /\ cleaner' = [NoRun EXCEPT !.pc = "list"] /\ prep' = NoPrep /\ ctxDone' = FALSE
    BY DEF Restart, AttRestart
  <1>. DEFINE given(r) == [r EXCEPT !.state = "failed", !.due = IF r.due = "none" THEN "future" ELSE r.due]
  <1>2. \A r \in AttRows : given(r) \in AttRows /\ given(r).state = "failed" /\ given(r).due # "none"
    BY DEF AttRows
  <1>3. att' = [f \in Files |-> IF att[f].state \in {"staged", "processing"} THEN given(att[f]) ELSE att[f]]
    BY <1>1 DEF Reconcile
  <1>4. att \in [Files -> AttRows]
    BY DEF AttTypeOK
  <1>. HIDE DEF given
  <1>5. att' \in [Files -> AttRows]
    BY <1>2, <1>3, <1>4
  <1>6. \A f \in Files : IF att[f].state \in {"staged", "processing"} THEN att'[f].state = "failed" ELSE att'[f] = att[f]
    BY <1>2, <1>3, <1>4
  <1>7. \A e \in Events : EventInv(e)'
    <2>1. Onward
      BY <1>1, FaultCount DEF Onward, inVars
    <2>. QED BY <1>1, <2>1, Untouched DEF inVars
  <1>8. FileInv'
    <2>. USE <1>1 DEF FileInv
    <2>1. \A e \in Events : run'[e].pc \in {"none", "over"}
      BY DEF LifeInv, inVars
    <2>2. prep'.pc = "idle" /\ cleaner'.pc = "list" /\ cleaner'.todo = {} /\ cleaner'.f = {}
      BY DEF NoPrep, NoRun
    <2>3. FreshInv'
      <3>1. \A e \in Events : Attached(e)' = Attached(e) /\ ToSet(Attached(e)) \subseteq Files
        BY AttachedFiles DEF Attached, inVars
      <3>. QED BY <1>6, <3>1 DEF FreshInv, inVars
    <2>4. PrepInv' /\ TurnInv' /\ LifeInv'
      BY <2>1, <2>2 DEF PrepInv, TurnInv, LifeInv, Busy, At, Working
    <2>5. CleanInv'
      BY <2>2 DEF CleanInv
    <2>6. FilesMatchRows'
      BY <1>6 DEF FilesMatchRows
    <2>. QED BY <2>3, <2>4, <2>5, <2>6
  <1>9. AttTypeOK'
    <2>1. NoPrep \in Preparations /\ [NoRun EXCEPT !.pc = "list"] \in CleanerRuns
      BY EmptySeq DEF NoPrep, Preparations, NoRun, CleanerRuns
    <2>2. \A f \in Files : att'[f].state \in {"ready", "deleting", "deleted"} => att'[f].due # "none"
      BY <1>6 DEF AttTypeOK
    <2>. QED BY <1>1, <1>5, <2>1, <2>2 DEF AttTypeOK
  <1>. QED BY <1>1, <1>7, <1>8, <1>9 DEF inVars
-----------------------------------------------------------------------------
(* Service.Prepare.                                                        *)

\* What a step of the files leaves of the events.
LEMMA EventsKept ==
    ASSUME IInv, UNCHANGED inVars, faults' = faults \/ Fault, crashes' = crashes
    PROVE  /\ \A e \in Events : EventInv(e)' /\ Attached(e)' = Attached(e) /\ (Busy(e)' <=> Busy(e))
           /\ \A e \in Events : (At(e, "prepare")' <=> At(e, "prepare")) /\ (At(e, "turn")' <=> At(e, "turn"))
           /\ faults' \in 0 .. MaxFaults
  <1>1. Onward /\ faults' \in 0 .. MaxFaults
    BY FaultCount DEF Onward, inVars, IInv
  <1>2. \A e \in Events : EventInv(e)'
    BY <1>1, Untouched DEF inVars, IInv
  <1>. QED BY <1>1, <1>2 DEF Attached, Busy, At, inVars

\* The list of files still to prepare begins with the current one.
LEMMA ListOfFiles ==
    ASSUME NEW s \in Seq(Files), s # <<>>
    PROVE  /\ Head(s) \in ToSet(s) /\ ToSet(s) \subseteq {Head(s)} \cup ToSet(Tail(s))
           /\ Tail(s) \in Seq(Files) /\ (Len(s) = 1 <=> Tail(s) = <<>>)
  <1>1. Head(s) = s[1] /\ 1 \in DOMAIN s /\ Len(s) >= 1
    OBVIOUS
  <1>2. Head(s) \in ToSet(s)
    BY <1>1 DEF ToSet
  <1>3. Tail(s) \in Seq(Files) /\ Len(Tail(s)) = Len(s) - 1 /\ \A i \in 1 .. Len(s) - 1 : Tail(s)[i] = s[i + 1]
    BY <1>1
  <1>4. Len(s) = 1 <=> Tail(s) = <<>>
    BY <1>1, <1>3, EmptySeq
  <1>5. ASSUME NEW i \in DOMAIN s, i # 1 PROVE s[i] \in ToSet(Tail(s))
    <2>1. i - 1 \in 1 .. Len(s) - 1 /\ i - 1 \in DOMAIN Tail(s)
      BY <1>3, <1>5
    <2>2. Tail(s)[i - 1] = s[i]
      BY <1>3, <1>5, <2>1
    <2>. QED BY <2>1, <2>2 DEF ToSet
  <1>6. ToSet(s) \subseteq {Head(s)} \cup ToSet(Tail(s))
    BY <1>1, <1>5 DEF ToSet
  <1>. QED BY <1>2, <1>3, <1>4, <1>6

\* A step of Prepare changes at most the row and the file it works on, and only
\* while they are not settled.
LEMMA PrepareFrame ==
    ASSUME IInv, UNCHANGED inVars, UNCHANGED byPrepare, faults' = faults \/ Fault,
           prep.pc \in Working \cup {"load"}, NEW c \in Files, c = Current,
           att' \in [Files -> AttRows], disk' \in [Files -> {"none", "part", "payload"}],
           \A f \in Files \ {c} : att'[f] = att[f] /\ disk'[f] = disk[f],
           att[c].state \in {"staged", "processing"} \/ UNCHANGED <<att, disk>>,
           att'[c].state \in {"ready", "deleting", "deleted"} =>
               UNCHANGED <<att, disk>> \/ (Kept(c)' /\ att'[c].due # "none"
                                           /\ att'[c].state = "ready" /\ disk'[c] = "payload"),
           prep'.pc \in {"load", "open", "download", "part", "payload", "fail", "ok", "error"},
           \/ /\ prep'.left = prep.left /\ prep'.pc \notin {"load", "ok"}
              /\ prep'.pc \in Working => att'[c].state = "processing"
              /\ prep'.pc = "payload" => disk'[c] = "payload"
           \/ /\ prep'.left = Tail(prep.left) /\ Kept(c)'
              /\ prep'.pc = IF Len(prep.left) = 1 THEN "ok" ELSE "load",
           prep' = [pc |-> prep'.pc, left |-> prep'.left]
    PROVE  IInv'
  <1>. USE DEF IInv, FileInv
  <1>1. /\ \A e \in Events : EventInv(e)' /\ Attached(e)' = Attached(e) /\ (Busy(e)' <=> Busy(e))
        /\ \A e \in Events : (At(e, "prepare")' <=> At(e, "prepare")) /\ (At(e, "turn")' <=> At(e, "turn"))
        /\ faults' \in 0 .. MaxFaults
    BY EventsKept DEF byPrepare
  <1>2. prep.left \in Seq(Files) /\ prep.left # <<>> /\ Current \in Files
    <2>1. prep.left \in Seq(Files)
      BY DEF TypeOK, AttTypeOK, Preparations
    <2>2. prep.left # <<>>
      BY DEF PrepInv
    <2>. QED BY <2>1, <2>2 DEF Current
  <1>4. \A e \in Events : ToSet(Attached(e)) \subseteq Files
    BY AttachedFiles
  <1>5. \A f \in Files : Settled(f) => att'[f] = att[f] /\ disk'[f] = disk[f]
    BY DEF Settled
  <1>6. \A f \in Files : Kept(f) => Kept(f)'
    BY <1>5 DEF Kept, Settled
  <1>7. \A f \in Files : att[f].state = "none" => att'[f].state = "none"
    <2>1. ASSUME NEW f \in Files, att[f].state = "none" PROVE att'[f].state = "none"
      BY <2>1
    <2>. QED BY <2>1
  <1>8. FreshInv'
    BY <1>1, <1>4, <1>7 DEF FreshInv, inVars
  <1>9. /\ prep' \in Preparations /\ prep'.pc # "idle"
        /\ prep'.pc \in Working \cup {"load"} => prep'.left # <<>>
        /\ prep'.pc = "ok" => prep'.left = <<>>
    BY <1>2, ListOfFiles DEF Preparations, Working
  <1>10. prep'.pc \in Working => prep'.left = prep.left
    BY DEF Working
  <1>11. PrepInv'
    <2>1. prep.pc # "idle"
      BY DEF Working
    <2>2. ASSUME NEW e \in Events, At(e, "prepare"), NEW f \in ToSet(Attached(e)) \ ToSet(prep'.left) PROVE Kept(f)'
      <3>1. f \in Files
        BY <1>4
      <3>2. CASE f \notin ToSet(prep.left)
        BY <1>6, <2>2, <3>1, <3>2 DEF PrepInv
      <3>3. CASE f \in ToSet(prep.left)
        <4>1. prep'.left = Tail(prep.left) /\ Kept(c)'
          BY <2>2, <3>3
        <4>2. f = c
          BY <1>2, <2>2, <3>3, <4>1, ListOfFiles DEF Current
        <4>. QED BY <4>1, <4>2 DEF Kept, Settled
      <3>. QED BY <3>2, <3>3
    <2>3. /\ prep'.pc \in Working => att'[Head(prep'.left)].state = "processing"
          /\ prep'.pc = "payload" => disk'[Head(prep'.left)] = "payload"
      BY <1>10 DEF Working, Current
    <2>. QED BY <1>1, <1>9, <2>1, <2>2, <2>3 DEF PrepInv, Current
  <1>12. TurnInv'
    BY <1>1, <1>4, <1>6 DEF TurnInv
  <1>13. CleanInv'
    <2>1. cleaner' = cleaner
      BY DEF byPrepare
    <2>2. cleaner.todo \cup cleaner.f \subseteq Files
      BY DEF TypeOK, AttTypeOK, CleanerRuns
    <2>3. \A f \in cleaner.todo \cup cleaner.f : att'[f] = att[f] /\ disk'[f] = disk[f]
      BY <1>5, <2>2 DEF CleanInv
    <2>. QED BY <2>1, <2>2, <2>3 DEF CleanInv, Settled
  <1>14. LifeInv'
    <2>1. life = "up"
      BY DEF LifeInv, Working
    <2>. QED BY <2>1 DEF LifeInv, byPrepare
  <1>15. FilesMatchRows' /\ \A f \in Files : att'[f].state \in {"ready", "deleting", "deleted"} => att'[f].due # "none"
    <2>1. ASSUME NEW f \in Files
          PROVE  /\ att'[f].state = "ready" /\ att'[f].due = "future" => disk'[f] = "payload"
                 /\ att'[f].state = "deleted" /\ att'[f].path => disk'[f] = "none"
                 /\ att'[f].state \in {"ready", "deleting", "deleted"} => att'[f].due # "none"
      <3>1. CASE att'[f] = att[f] /\ disk'[f] = disk[f]
        BY <3>1 DEF FilesMatchRows, TypeOK, AttTypeOK
      <3>2. CASE ~(att'[f] = att[f] /\ disk'[f] = disk[f])
        BY <3>2
      <3>. QED BY <3>1, <3>2
    <2>. QED BY <2>1 DEF FilesMatchRows
  <1>16. TypeOK'
    BY <1>1, <1>9, <1>15 DEF TypeOK, AttTypeOK, byPrepare, inVars
  <1>. QED BY <1>1, <1>8, <1>11, <1>12, <1>13, <1>14, <1>15, <1>16

\* A row whose state and deadline are written.
LEMMA RowSet ==
    ASSUME att \in [Files -> AttRows], NEW c \in Files,
           NEW s \in {"processing", "ready", "failed", "deleting", "deleted"},
           NEW t \in {"none", "future", "past"}, Set(c, s, t)
    PROVE  /\ att' \in [Files -> AttRows] /\ \A f \in Files \ {c} : att'[f] = att[f]
           /\ att'[c].state = s /\ att'[c].due = t /\ att'[c].path = att[c].path
  <1>. DEFINE q == [att[c] EXCEPT !.state = s, !.due = t]
  <1>1. q \in AttRows /\ q.state = s /\ q.due = t
    BY DEF AttRows
  <1>2. q.path = att[c].path
    BY DEF AttRows
  <1>3. att' = [att EXCEPT ![c] = q]
    BY DEF Set
  <1>. HIDE DEF q
  <1>. QED BY <1>1, <1>2, <1>3

\* The steps of Prepare change the place in it, not the list.
LEMMA PlaceWritten ==
    ASSUME prep \in Preparations, NEW p, Step(p)
    PROVE  prep' = [pc |-> prep'.pc, left |-> prep'.left] /\ prep'.pc = p /\ prep'.left = prep.left
  BY DEF Preparations, Step

\* Each step of Prepare.
LEMMA PrepareStep ==
    ASSUME IInv, UNCHANGED inVars, Prepare
    PROVE  IInv'
  <1>. USE DEF IInv, FileInv
  <1>1. /\ prep.pc \in Working \cup {"load"} /\ UNCHANGED byPrepare
        /\ faults' = faults \/ Fault
    BY DEF Prepare, ClaimAttachment, OpenReference, Download, Materialize, CompleteAttachment, FailAttachment,
           Stored, NoFault, Working, Step, byPrepare
  <1>2. att \in [Files -> AttRows] /\ disk \in [Files -> {"none", "part", "payload"}] /\ prep \in Preparations
    BY DEF TypeOK, AttTypeOK
  <1>3. PICK c \in Files : c = Current
    BY <1>1, AttachedFiles DEF PrepInv
  <1>4. prep.pc \in Working => att[c].state = "processing"
    BY <1>3 DEF PrepInv
  <1>5. CASE ClaimAttachment
    <2>1. UNCHANGED disk
      BY <1>5 DEF ClaimAttachment
    <2>2. CASE UNCHANGED att /\ Step("error")
      BY <1>1, <1>2, <1>3, <2>1, <2>2, PlaceWritten, PrepareFrame DEF Working
    <2>3. CASE att[c].state = "staged" /\ Set(c, "processing", att[c].due) /\ (Step("open") \/ Step("error"))
      <3>1. att[c].due \in {"none", "future", "past"}
        BY <1>2 DEF AttRows
      <3>2. /\ att' \in [Files -> AttRows] /\ \A f \in Files \ {c} : att'[f] = att[f]
            /\ att'[c].state = "processing"
        BY <1>2, <2>3, <3>1, RowSet
      <3>. QED BY <1>1, <1>2, <1>3, <2>1, <2>3, <3>2, PlaceWritten, PrepareFrame DEF Working
    <2>. QED BY <1>3, <1>5, <2>2, <2>3 DEF ClaimAttachment, Stored
  <1>6. CASE OpenReference
    <2>1. UNCHANGED <<att, disk>> /\ (Step("download") \/ Step("fail")) /\ prep.pc \in Working
      BY <1>6 DEF OpenReference, Working
    <2>. QED BY <1>1, <1>2, <1>3, <1>4, <2>1, PlaceWritten, PrepareFrame DEF Working
  <1>7. CASE Download
    <2>1. /\ att' = att /\ prep.pc \in Working
          /\ \/ Step("part") /\ disk' = [disk EXCEPT ![c] = "part"]
             \/ Step("fail") /\ disk' = disk
      BY <1>3, <1>7 DEF Download, Working
    <2>2. disk' \in [Files -> {"none", "part", "payload"}] /\ \A f \in Files \ {c} : disk'[f] = disk[f]
      BY <1>2, <2>1
    <2>. QED BY <1>1, <1>2, <1>3, <1>4, <2>1, <2>2, PlaceWritten, PrepareFrame DEF Working
  <1>8. CASE Materialize
    <2>1. /\ att' = att /\ prep.pc \in Working
          /\ \/ Step("payload") /\ disk' = [disk EXCEPT ![c] = "payload"]
             \/ Step("fail") /\ disk' = [disk EXCEPT ![c] = "none"]
      BY <1>3, <1>8 DEF Materialize, Working
    <2>2. /\ disk' \in [Files -> {"none", "part", "payload"}] /\ \A f \in Files \ {c} : disk'[f] = disk[f]
          /\ Step("payload") => disk'[c] = "payload"
      BY <1>2, <2>1, PlaceWritten
    <2>. QED BY <1>1, <1>2, <1>3, <1>4, <2>1, <2>2, PlaceWritten, PrepareFrame DEF Working
  <1>9. CASE CompleteAttachment
    <2>. DEFINE q == [state |-> "ready", due |-> "future", path |-> TRUE]
    <2>1. /\ disk' = disk /\ prep.pc = "payload" /\ prep.pc \in Working /\ disk[c] = "payload"
          /\ \/ att' = [att EXCEPT ![c] = q] /\ (Prepared \/ Step("error"))
             \/ att' = att /\ Step("error")
      BY <1>3, <1>9 DEF CompleteAttachment, Stored, Working, PrepInv
    <2>2. CASE att' = att /\ Step("error")
      BY <1>1, <1>2, <1>3, <1>4, <2>1, <2>2, PlaceWritten, PrepareFrame DEF Working
    <2>3. CASE att' = [att EXCEPT ![c] = q] /\ (Prepared \/ Step("error"))
      <3>1. q \in AttRows /\ q.state = "ready" /\ q.due = "future" /\ q.path
        BY DEF AttRows
      <3>. HIDE DEF q
      <3>2. att' \in [Files -> AttRows] /\ att'[c] = q /\ \A f \in Files \ {c} : att'[f] = att[f]
        BY <1>2, <2>3, <3>1
      <3>3. Kept(c)'
        BY <3>1, <3>2 DEF Kept, Settled
      <3>4. CASE Step("error")
        BY <1>1, <1>2, <1>3, <1>4, <2>1, <3>1, <3>2, <3>3, <3>4, PlaceWritten, PrepareFrame DEF Working
      <3>5. CASE Prepared
        <4>1. /\ prep' = [pc |-> prep'.pc, left |-> prep'.left] /\ prep'.left = Tail(prep.left)
              /\ prep'.pc = IF Len(prep.left) = 1 THEN "ok" ELSE "load"
          BY <1>2, <3>5 DEF Prepared, Preparations
        <4>. QED BY <1>1, <1>2, <1>3, <1>4, <2>1, <3>1, <3>2, <3>3, <4>1, PrepareFrame
      <3>. QED BY <2>3, <3>4, <3>5
    <2>. QED BY <2>1, <2>2, <2>3
  <1>10. CASE FailAttachment
    <2>1. /\ disk' = disk /\ prep.pc \in Working /\ Step("error")
          /\ att' = att \/ Set(c, "failed", "future")
      BY <1>3, <1>10 DEF FailAttachment, Stored, Working
    <2>2. /\ att' \in [Files -> AttRows] /\ \A f \in Files \ {c} : att'[f] = att[f]
          /\ att' = att \/ att'[c].state = "failed"
      BY <1>2, <2>1, RowSet
    <2>. QED BY <1>1, <1>2, <1>3, <1>4, <2>1, <2>2, PlaceWritten, PrepareFrame DEF Working
  <1>. QED BY <1>5, <1>6, <1>7, <1>8, <1>9, <1>10 DEF Prepare
-----------------------------------------------------------------------------
(* Cleaner.Run and the calendar.                                           *)

\* The cleaner touches only files that preparation is done with, and keeps their
\* paths: neither a preparation nor a turn notices.
LEMMA CleanerFrame ==
    ASSUME IInv, UNCHANGED inVars, UNCHANGED byCleaner, faults' = faults \/ Fault,
           att' \in [Files -> AttRows], disk' \in [Files -> {"none", "part", "payload"}],
           \A f \in Files : /\ Settled(f) => /\ Settled(f)' /\ att'[f].path = att[f].path
                                             /\ att'[f].due = "future" => att'[f] = att[f]
                                             /\ att'[f].state \in {"ready", "deleting", "deleted"} => att'[f].due # "none"
                            /\ ~Settled(f) => att'[f].state = att[f].state /\ disk'[f] = disk[f],
           cleaner' \in CleanerRuns, CleanInv', life' \in {life, "up", "down"}, life # "down" \/ life' # "up",
           life' = "down" => life # "up" /\ cleaner'.pc = "idle", FilesMatchRows'
    PROVE  IInv'
  <1>. USE DEF IInv, FileInv
  <1>1. /\ \A e \in Events : EventInv(e)' /\ Attached(e)' = Attached(e) /\ (Busy(e)' <=> Busy(e))
        /\ \A e \in Events : (At(e, "prepare")' <=> At(e, "prepare")) /\ (At(e, "turn")' <=> At(e, "turn"))
        /\ faults' \in 0 .. MaxFaults
    BY EventsKept DEF byCleaner
  <1>2. \A e \in Events : ToSet(Attached(e)) \subseteq Files
    BY AttachedFiles
  <1>3. \A f \in Files : Kept(f) => Kept(f)'
    BY DEF Kept
  <1>4. FreshInv'
    BY <1>1, <1>2 DEF FreshInv, Settled, inVars
  <1>5. PrepInv'
    <2>1. prep' = prep
      BY DEF byCleaner
    <2>2. /\ prep.pc \in Working => att'[Current].state = "processing"
          /\ prep.pc = "payload" => disk'[Current] = "payload"
      BY AttachedFiles DEF PrepInv, Settled, Working
    <2>. QED BY <1>1, <1>2, <1>3, <2>1, <2>2 DEF PrepInv, Current
  <1>6. TurnInv'
    BY <1>1, <1>2, <1>3 DEF TurnInv
  <1>7. LifeInv'
    BY DEF LifeInv, byCleaner, inVars
  <1>8. TypeOK'
    <2>1. \A f \in Files : att'[f].state \in {"ready", "deleting", "deleted"} => att'[f].due # "none"
      BY DEF Settled
    <2>2. life' \in {"down", "starting", "up"}
      BY DEF TypeOK, AttTypeOK
    <2>. QED BY <1>1, <2>1, <2>2 DEF TypeOK, AttTypeOK, byCleaner, inVars
  <1>. QED BY <1>1, <1>4, <1>5, <1>6, <1>7, <1>8

\* A deadline passes.
LEMMA ExpireStep ==
    ASSUME IInv, UNCHANGED inVars, Expire
    PROVE  IInv'
  <1>. USE DEF IInv, FileInv
  <1>1. PICK c \in Files : att[c].due = "future" /\ att' = [att EXCEPT ![c].due = "past"]
    BY DEF Expire
  <1>2. att \in [Files -> AttRows] /\ UNCHANGED byCleaner /\ UNCHANGED <<disk, cleaner, life, faults>>
    BY DEF Expire, TypeOK, AttTypeOK
  <1>. DEFINE q == [att[c] EXCEPT !.due = "past"]
  <1>3. q \in AttRows /\ q.state = att[c].state /\ q.due = "past"
    BY <1>2 DEF AttRows
  <1>4. q.path = att[c].path
    BY <1>2 DEF AttRows
  <1>5. att' = [att EXCEPT ![c] = q]
    BY <1>1
  <1>. HIDE DEF q
  <1>6. /\ att' \in [Files -> AttRows] /\ \A f \in Files \ {c} : att'[f] = att[f]
        /\ att'[c].state = att[c].state /\ att'[c].path = att[c].path /\ att'[c].due = "past"
    BY <1>2, <1>3, <1>4, <1>5
  <1>7. \A f \in Files : /\ att'[f].state = att[f].state /\ att'[f].path = att[f].path
                         /\ att'[f].due # att[f].due => att'[f].due = "past"
                         /\ att'[f].due = "future" => att'[f] = att[f]
    BY <1>6
  <1>8. CleanInv'
    <2>1. cleaner.todo \cup cleaner.f \subseteq Files
      BY DEF TypeOK, AttTypeOK, CleanerRuns
    <2>2. \A f \in cleaner.todo \cup cleaner.f : Settled(f)' /\ att'[f].path = att[f].path
      BY <1>7, <2>1 DEF CleanInv, Settled
    <2>3. \A f \in Files : att[f].state = "deleting" /\ att[f].due = "past" =>
              att'[f].state = "deleting" /\ att'[f].due = "past" /\ att'[f].path = att[f].path
      BY <1>7
    <2>. QED BY <1>2, <2>2, <2>3 DEF CleanInv
  <1>9. FilesMatchRows'
    BY <1>2, <1>7 DEF FilesMatchRows
  <1>10. \A f \in Files : /\ Settled(f)' <=> Settled(f)
                          /\ att'[f].state \in {"ready", "deleting", "deleted"} => att'[f].due # "none"
    BY <1>7 DEF Settled, TypeOK, AttTypeOK
  <1>11. disk \in [Files -> {"none", "part", "payload"}] /\ cleaner \in CleanerRuns
    BY DEF TypeOK, AttTypeOK
  <1>12. life' = "down" => life # "up" /\ cleaner'.pc = "idle"
    BY <1>2 DEF LifeInv
  <1>. QED BY <1>2, <1>6, <1>7, <1>8, <1>9, <1>10, <1>11, <1>12, CleanerFrame

\* What is known of the run of the cleaner, and of the file it has taken.
LEMMA CleanerFacts ==
    ASSUME IInv
    PROVE  /\ att \in [Files -> AttRows] /\ disk \in [Files -> {"none", "part", "payload"}]
           /\ cleaner \in CleanerRuns /\ NoRun \in CleanerRuns
           /\ cleaner.todo \subseteq Files /\ cleaner.f \subseteq Files
           /\ cleaner.pc # "idle" => life # "down"
           /\ \A f \in Files : att[f].state \in {"ready", "deleting", "deleted"} => att[f].due # "none"
           /\ cleaner.pc \in {"remove", "complete", "restore"} =>
                 /\ Taken \in Files /\ cleaner.f = {Taken}
                 /\ att[Taken].state = "deleting" /\ att[Taken].due = "past"
                 /\ cleaner.was \in [Files -> AttRows] /\ cleaner.was[Taken].state \in {"ready", "failed"}
                 /\ cleaner.was[Taken].path = att[Taken].path
                 /\ cleaner.pc = "complete" /\ att[Taken].path => disk[Taken] = "none"
  <1>. USE DEF IInv, FileInv, TypeOK, AttTypeOK
  <1>1. cleaner.todo \subseteq Files /\ cleaner.f \subseteq Files /\ NoRun \in CleanerRuns
    BY DEF CleanerRuns, NoRun
  <1>2. cleaner.pc # "idle" => life # "down"
    BY DEF LifeInv
  <1>3. ASSUME cleaner.pc \in {"remove", "complete", "restore"}
        PROVE  /\ Taken \in Files /\ cleaner.f = {Taken}
               /\ att[Taken].state = "deleting" /\ att[Taken].due = "past"
               /\ cleaner.was \in [Files -> AttRows] /\ cleaner.was[Taken].state \in {"ready", "failed"}
               /\ cleaner.was[Taken].path = att[Taken].path
               /\ cleaner.pc = "complete" /\ att[Taken].path => disk[Taken] = "none"
    <2>1. PICK c \in Files : /\ cleaner.f = {c} /\ att[c].state = "deleting" /\ att[c].due = "past"
                             /\ cleaner.pc = "complete" /\ att[c].path => disk[c] = "none"
      BY <1>3 DEF CleanInv
    <2>2. Taken = c
      BY <2>1 DEF Taken
    <2>3. cleaner.was \in [Files -> AttRows] /\ cleaner.was[c].state \in {"ready", "failed"}
          /\ cleaner.was[c].path = att[c].path
      BY <1>3, <2>1 DEF CleanInv
    <2>. QED BY <2>1, <2>2, <2>3
  <1>. QED BY <1>1, <1>2, <1>3

\* A run that is over leaves nothing behind.
LEMMA RunOver ==
    ASSUME IInv, RunFails \/ RunEnds, cleaner.pc # "idle" \/ life = "up"
    PROVE  /\ cleaner' \in CleanerRuns /\ CleanInv' /\ life' \in {life, "up", "down"} /\ (life # "down" \/ life' # "up")
           /\ life' = "down" => life # "up" /\ cleaner'.pc = "idle"
  <1>1. cleaner' = NoRun /\ NoRun \in CleanerRuns /\ life # "down"
    BY CleanerFacts DEF RunFails, RunEnds
  <1>2. CleanInv'
    BY <1>1 DEF NoRun, CleanInv
  <1>. QED BY <1>1, <1>2 DEF RunFails, RunEnds, NoRun

\* ListExpiredAttachments, and the end of the list.
LEMMA ListStep ==
    ASSUME IInv, UNCHANGED inVars, ListExpired \/ EndRun
    PROVE  IInv'
  <1>1. UNCHANGED byCleaner /\ UNCHANGED <<att, disk>> /\ (faults' = faults \/ Fault)
    BY DEF ListExpired, EndRun, NoFault
  <1>2. /\ att \in [Files -> AttRows] /\ disk \in [Files -> {"none", "part", "payload"}]
        /\ \A f \in Files : att[f].state \in {"ready", "deleting", "deleted"} => att[f].due # "none"
    BY CleanerFacts
  <1>3. FilesMatchRows'
    BY <1>1 DEF IInv, FileInv, FilesMatchRows
  <1>4. \A f \in Files : Settled(f)' <=> Settled(f)
    BY <1>1 DEF Settled
  <1>5. CASE RunFails \/ RunEnds
    <2>1. cleaner.pc # "idle" \/ life = "up"
      BY DEF ListExpired, EndRun
    <2>2. /\ cleaner' \in CleanerRuns /\ CleanInv' /\ life' \in {life, "up", "down"} /\ (life # "down" \/ life' # "up")
          /\ life' = "down" => life # "up" /\ cleaner'.pc = "idle"
      BY <1>5, <2>1, RunOver
    <2>. QED BY <1>1, <1>2, <1>3, <1>4, <2>2, CleanerFrame
  <1>6. CASE /\ cleaner' = [pc |-> "next", todo |-> {f \in Files : Expired(f)}, was |-> att, f |-> {}]
             /\ UNCHANGED life /\ ListExpired
    <2>1. cleaner' \in CleanerRuns
      BY <1>2, <1>6 DEF CleanerRuns
    <2>2. CleanInv'
      BY <1>1, <1>2, <1>6 DEF CleanInv, Expired, Settled
    <2>3. life # "down"
      BY <1>6, CleanerFacts DEF ListExpired
    <2>. QED BY <1>1, <1>2, <1>3, <1>4, <1>6, <2>1, <2>2, <2>3, CleanerFrame
  <1>. QED BY <1>5, <1>6 DEF ListExpired, EndRun

\* ClaimAttachmentDeletion.
LEMMA ClaimDeletionStep ==
    ASSUME IInv, UNCHANGED inVars, ClaimDeletion
    PROVE  IInv'
  <1>1. UNCHANGED byCleaner /\ UNCHANGED disk /\ (faults' = faults \/ Fault) /\ cleaner.pc = "next"
    BY DEF ClaimDeletion, Stored, NoFault
  <1>2. /\ att \in [Files -> AttRows] /\ disk \in [Files -> {"none", "part", "payload"}]
        /\ cleaner \in CleanerRuns /\ cleaner.todo \subseteq Files
        /\ \A f \in Files : att[f].state \in {"ready", "deleting", "deleted"} => att[f].due # "none"
    BY CleanerFacts
  <1>. DEFINE taken(f) == [cleaner EXCEPT !.todo = cleaner.todo \ {f}, !.f = {f}]
  <1>3. PICK c \in cleaner.todo :
          \/ /\ Expired(c) /\ Set(c, "deleting", "past")
             /\ (cleaner' = [taken(c) EXCEPT !.pc = "remove"] /\ UNCHANGED life) \/ RunFails
          \/ Expired(c) /\ UNCHANGED att /\ RunFails
          \/ cleaner' = taken(c) /\ UNCHANGED <<att, life>>
    BY DEF ClaimDeletion, Stored
  <1>4. c \in Files /\ Settled(c) /\ cleaner.was \in [Files -> AttRows]
        /\ cleaner.was[c].state \in {"ready", "failed"} /\ cleaner.was[c].path = att[c].path
    BY <1>1, <1>2 DEF IInv, FileInv, CleanInv
  <1>5. /\ att' \in [Files -> AttRows] /\ \A f \in Files \ {c} : att'[f] = att[f]
        /\ att' = att \/ (att'[c].state = "deleting" /\ att'[c].due = "past" /\ att'[c].path = att[c].path)
    <2>1. ASSUME Set(c, "deleting", "past")
          PROVE  /\ att' \in [Files -> AttRows] /\ \A f \in Files \ {c} : att'[f] = att[f]
                 /\ att'[c].state = "deleting" /\ att'[c].due = "past" /\ att'[c].path = att[c].path
      BY <1>2, <1>4, <2>1, RowSet
    <2>. QED BY <1>2, <1>3, <2>1
  <1>6. FilesMatchRows'
    BY <1>1, <1>5 DEF IInv, FileInv, FilesMatchRows
  <1>7. \A f \in Files : /\ Settled(f) => /\ Settled(f)' /\ att'[f].path = att[f].path
                                          /\ att'[f].due = "future" => att'[f] = att[f]
                                          /\ att'[f].state \in {"ready", "deleting", "deleted"} => att'[f].due # "none"
                         /\ ~Settled(f) => att'[f].state = att[f].state
    BY <1>2, <1>4, <1>5 DEF Settled
  <1>8. CASE RunFails
    <2>1. /\ cleaner' \in CleanerRuns /\ CleanInv' /\ life' \in {life, "up", "down"} /\ (life # "down" \/ life' # "up")
          /\ life' = "down" => life # "up" /\ cleaner'.pc = "idle"
      BY <1>1, <1>8, RunOver
    <2>. QED BY <1>1, <1>2, <1>5, <1>6, <1>7, <2>1, CleanerFrame
  <1>9. CASE \/ Set(c, "deleting", "past") /\ cleaner' = [taken(c) EXCEPT !.pc = "remove"] /\ UNCHANGED life
             \/ cleaner' = taken(c) /\ UNCHANGED <<att, life>>
    <2>1. /\ cleaner' \in CleanerRuns /\ cleaner'.todo = cleaner.todo \ {c} /\ cleaner'.f = {c}
          /\ cleaner'.was = cleaner.was /\ cleaner'.pc \in {"next", "remove"}
      <3>. DEFINE t == taken(c)
      <3>1. t \in CleanerRuns
        BY <1>2, <1>4 DEF CleanerRuns
      <3>2. t.todo = cleaner.todo \ {c} /\ t.f = {c} /\ t.was = cleaner.was /\ t.pc = "next"
        BY <1>1, <1>2 DEF CleanerRuns
      <3>3. cleaner' = [t EXCEPT !.pc = "remove"] \/ cleaner' = t
        BY <1>9
      <3>. HIDE DEF t
      <3>. QED BY <3>1, <3>2, <3>3 DEF CleanerRuns
    <2>2. cleaner'.pc = "remove" => att'[c].state = "deleting" /\ att'[c].due = "past"
      BY <1>1, <1>2, <1>4, <1>9, RowSet DEF CleanerRuns
    <2>3. CleanInv'
      <3>1. \A f \in cleaner.todo : /\ cleaner.was[f].state \in {"ready", "failed"}
                                    /\ cleaner.was[f].path = att'[f].path /\ Settled(f)'
        BY <1>2, <1>7 DEF IInv, FileInv, CleanInv
      <3>. QED BY <1>4, <2>1, <2>2, <3>1 DEF CleanInv
    <2>4. life # "down"
      BY <1>1, CleanerFacts
    <2>. QED BY <1>1, <1>2, <1>5, <1>6, <1>7, <1>9, <2>1, <2>3, <2>4, CleanerFrame
  <1>. QED BY <1>3, <1>8, <1>9

\* Where the run stands is written, nothing else of it.
LEMMA CleanWritten ==
    ASSUME IInv, cleaner.pc # "idle", NEW p \in {"next", "complete", "restore"}, Clean(p)
    PROVE  /\ cleaner' \in CleanerRuns /\ cleaner'.pc = p /\ life' = life /\ life # "down"
           /\ cleaner'.todo = cleaner.todo /\ cleaner'.was = cleaner.was /\ cleaner'.f = cleaner.f
  BY CleanerFacts DEF Clean, CleanerRuns

\* remove.
LEMMA RemoveFileStep ==
    ASSUME IInv, UNCHANGED inVars, RemoveFile
    PROVE  IInv'
  <1>1. UNCHANGED byCleaner /\ UNCHANGED att /\ (faults' = faults \/ Fault) /\ cleaner.pc = "remove"
    BY DEF RemoveFile, NoFault
  <1>2. /\ att \in [Files -> AttRows] /\ disk \in [Files -> {"none", "part", "payload"}]
        /\ cleaner.todo \subseteq Files
        /\ \A f \in Files : att[f].state \in {"ready", "deleting", "deleted"} => att[f].due # "none"
    BY CleanerFacts
  <1>3. PICK c \in Files : c = Taken /\ cleaner.f = {c} /\ att[c].state = "deleting" /\ att[c].due = "past"
                           /\ cleaner.was \in [Files -> AttRows] /\ cleaner.was[c].path = att[c].path
    BY <1>1, CleanerFacts
  <1>4. PICK p \in {"complete", "restore"} :
          /\ Clean(p) /\ (disk' = disk \/ disk' = [disk EXCEPT ![c] = "none"])
          /\ p = "complete" /\ att[c].path => disk' = [disk EXCEPT ![c] = "none"]
    BY <1>3 DEF RemoveFile
  <1>5. /\ disk' \in [Files -> {"none", "part", "payload"}] /\ \A f \in Files \ {c} : disk'[f] = disk[f]
        /\ p = "complete" /\ att[c].path => disk'[c] = "none"
    BY <1>2, <1>4
  <1>6. /\ cleaner' \in CleanerRuns /\ cleaner'.pc = p /\ life' = life /\ life # "down"
        /\ cleaner'.todo = cleaner.todo /\ cleaner'.was = cleaner.was /\ cleaner'.f = cleaner.f
    BY <1>1, <1>4, CleanWritten
  <1>7. CleanInv'
    BY <1>1, <1>3, <1>5, <1>6 DEF IInv, FileInv, CleanInv, Settled
  <1>8. FilesMatchRows'
    BY <1>1, <1>3, <1>5 DEF IInv, FileInv, FilesMatchRows
  <1>9. \A f \in Files : (Settled(f)' <=> Settled(f)) /\ (~Settled(f) => disk'[f] = disk[f])
    BY <1>1, <1>3, <1>5 DEF Settled
  <1>. QED BY <1>1, <1>2, <1>5, <1>6, <1>7, <1>8, <1>9, CleanerFrame

\* CompleteAttachmentDeletion and RestoreAttachmentDeletion.
LEMMA CloseDeletionStep ==
    ASSUME IInv, UNCHANGED inVars, CompleteDeletion \/ RestoreDeletion
    PROVE  IInv'
  <1>1. /\ UNCHANGED byCleaner /\ UNCHANGED disk /\ (faults' = faults \/ Fault)
        /\ cleaner.pc \in {"complete", "restore"}
    BY DEF CompleteDeletion, RestoreDeletion, Stored, NoFault
  <1>2. /\ att \in [Files -> AttRows] /\ disk \in [Files -> {"none", "part", "payload"}]
        /\ cleaner.todo \subseteq Files
        /\ \A f \in Files : att[f].state \in {"ready", "deleting", "deleted"} => att[f].due # "none"
    BY CleanerFacts
  <1>3. PICK c \in Files : /\ c = Taken /\ cleaner.f = {c} /\ att[c].state = "deleting" /\ att[c].due = "past"
                           /\ cleaner.was \in [Files -> AttRows] /\ cleaner.was[c].path = att[c].path
                           /\ cleaner.was[c].state \in {"ready", "failed"}
                           /\ cleaner.pc = "complete" /\ att[c].path => disk[c] = "none"
    BY <1>1, CleanerFacts
  <1>4. PICK s \in {"ready", "failed", "deleted"} :
          /\ att' = att \/ Set(c, s, "past")
          /\ s = "deleted" => cleaner.pc = "complete"
          /\ Clean("next") \/ RunFails
    BY <1>3 DEF CompleteDeletion, RestoreDeletion, Stored
  <1>5. /\ att' \in [Files -> AttRows] /\ \A f \in Files \ {c} : att'[f] = att[f]
        /\ att' = att \/ (att'[c].state = s /\ att'[c].due = "past" /\ att'[c].path = att[c].path)
    BY <1>2, <1>4, RowSet
  <1>6. FilesMatchRows'
    BY <1>1, <1>3, <1>4, <1>5 DEF IInv, FileInv, FilesMatchRows
  <1>7. \A f \in Files : /\ Settled(f) => /\ Settled(f)' /\ att'[f].path = att[f].path
                                          /\ att'[f].due = "future" => att'[f] = att[f]
                                          /\ att'[f].state \in {"ready", "deleting", "deleted"} => att'[f].due # "none"
                         /\ ~Settled(f) => att'[f].state = att[f].state
    BY <1>2, <1>3, <1>5 DEF Settled
  <1>8. CASE RunFails
    <2>1. /\ cleaner' \in CleanerRuns /\ CleanInv' /\ life' \in {life, "up", "down"} /\ (life # "down" \/ life' # "up")
          /\ life' = "down" => life # "up" /\ cleaner'.pc = "idle"
      BY <1>1, <1>8, RunOver
    <2>. QED BY <1>1, <1>2, <1>5, <1>6, <1>7, <2>1, CleanerFrame
  <1>9. CASE Clean("next")
    <2>1. /\ cleaner' \in CleanerRuns /\ cleaner'.pc = "next" /\ life' = life /\ life # "down"
          /\ cleaner'.todo = cleaner.todo /\ cleaner'.was = cleaner.was /\ cleaner'.f = cleaner.f
      BY <1>1, <1>9, CleanWritten
    <2>2. CleanInv'
      <3>1. \A f \in cleaner.todo \cup cleaner.f :
              /\ cleaner.was[f].state \in {"ready", "failed"}
              /\ cleaner.was[f].path = att'[f].path /\ Settled(f)'
        BY <1>2, <1>3, <1>7 DEF IInv, FileInv, CleanInv
      <3>. QED BY <1>3, <2>1, <3>1 DEF CleanInv
    <2>. QED BY <1>1, <1>2, <1>5, <1>6, <1>7, <2>1, <2>2, CleanerFrame
  <1>. QED BY <1>4, <1>8, <1>9
-----------------------------------------------------------------------------
(* The theorems.                                                           *)

\* It holds at the start.
LEMMA InitIInv == Init => IInv
  <1>. SUFFICES ASSUME Init PROVE IInv
    OBVIOUS
  <1>1. AttTypeOK
    <2>1. NoPrep \in Preparations /\ NoRun \in CleanerRuns
      BY EmptySeq DEF NoPrep, Preparations, NoRun, CleanerRuns
    <2>2. att \in [Files -> AttRows] /\ \A f \in Files : att[f].state = "none"
      BY DEF Init, AttInit, AttRows
    <2>3. faults \in 0 .. MaxFaults /\ crashes \in 0 .. MaxCrashes
      BY AttachmentsAssumption DEF Init, AttInit
    <2>4. disk \in [Files -> {"none", "part", "payload"}] /\ ctxDone \in BOOLEAN /\ life = "up"
      BY DEF Init, AttInit
    <2>5. prep = NoPrep /\ cleaner = NoRun
      BY DEF Init, AttInit
    <2>. QED BY <2>1, <2>2, <2>3, <2>4, <2>5 DEF AttTypeOK
  <1>2. TypeOK
    <2>1. NoRow \in MessageRows /\ NotRunning \in Progress
      BY DEF NoRow, NotRunning, MessageRows, Progress
    <2>2. msg \in [Events -> MessageRows] /\ run \in [Events -> Progress]
      BY <2>1 DEF Init
    <2>. QED BY <1>1, <2>2, IngressAssumption DEF Init, TypeOK
  <1>3. \A e \in Events : /\ run[e].pc = "none" /\ ~run[e].doubt /\ effects[e] = 0 /\ replies[e] = 0
                          /\ msg[e].status = "none" /\ msg[e].reply = "none" /\ msg[e].effect = "none"
    BY DEF Init, NoRow, NotRunning
  <1>4. \A e \in Events : EventInv(e)
    BY <1>3 DEF EventInv, PlaceInv, EffectInv, ReplyInv, RowInv, OwnedInv, Unanswered
  <1>5. FileInv
    <2>1. prep.pc = "idle" /\ cleaner.pc = "idle" /\ cleaner.todo = {} /\ cleaner.f = {} /\ life = "up"
      BY DEF Init, AttInit, NoPrep, NoRun
    <2>2. \A f \in Files : att[f].state = "none"
      BY DEF Init, AttInit
    <2>3. FreshInv
      BY <1>2, <2>2, AttachedFiles DEF FreshInv
    <2>4. PrepInv /\ TurnInv /\ LifeInv
      BY <1>3, <2>1 DEF PrepInv, TurnInv, LifeInv, Busy, At, Working
    <2>5. CleanInv /\ FilesMatchRows
      BY <2>1, <2>2 DEF CleanInv, FilesMatchRows
    <2>. QED BY <2>3, <2>4, <2>5 DEF FileInv
  <1>. QED BY <1>2, <1>4, <1>5 DEF IInv

\* Every step preserves it.
LEMMA NextIInv == IInv /\ [Next]_vars => IInv'
  <1>. SUFFICES ASSUME IInv, [Next]_vars PROVE IInv'
    OBVIOUS
  <1>1. ASSUME NEW e \in Events, Deliver(e) PROVE IInv'
    BY <1>1, DeliverStep
  <1>2. ASSUME NEW e \in Events, Handle(e) PROVE IInv'
    BY <1>2, SubmitControlStep, AnswerCommandStep, AcceptStep, RefuseStep, SendStaticCardStep, SendCommandTextStep,
       StoreReplyStep, RunControlStep, LoseControlStep, OnErrorStep, StartBatchStep, AfterPrepareStep, EndBatchStep DEF Handle
  <1>3. CASE FileStep
    BY <1>3, PrepareStep, ListStep, ClaimDeletionStep, RemoveFileStep, CloseDeletionStep, ExpireStep
       DEF FileStep, CleanerRun
  <1>4. CASE Restart
    BY <1>4, RestartStep
  <1>5. CASE Crash
    BY <1>5, CrashStep
  <1>6. CASE UNCHANGED vars
    <2>. USE <1>6 DEF IInv, vars, attVars, inVars
    <2>1. TypeOK'
      BY DEF TypeOK, AttTypeOK
    <2>2. \A e \in Events : EventInv(e)'
      <3>1. Onward
        BY FaultCount DEF Onward
      <3>. QED BY <3>1, Untouched
    <2>3. FileInv'
      BY DEF FileInv, FreshInv, PrepInv, TurnInv, CleanInv, LifeInv, FilesMatchRows, Attached, At, Busy, Kept, Settled,
             Current
    <2>. QED BY <2>1, <2>2, <2>3
  <1>. QED BY <1>1, <1>2, <1>3, <1>4, <1>5, <1>6 DEF Next

\* The invariant is inductive.
THEOREM Inductive == Spec => []IInv
  BY InitIInv, NextIInv, PTL DEF Spec

\* Rows, progress and files take only the values the code gives them.
THEOREM TypeCorrect == Spec => []TypeOK
  <1>1. IInv => TypeOK
    BY DEF IInv
  <1>. QED BY <1>1, Inductive, PTL

\* However often an event is delivered, with any failures and crashes in between,
\* it has one effect and the user sees one answer (two after a card that Feishu
\* took without giving it an identifier).
THEOREM DeliveredOnce == Spec => []OncePerEvent
  <1>1. IInv => OncePerEvent
    BY DEF IInv, EventInv, EffectInv, ReplyInv, OncePerEvent
  <1>. QED BY <1>1, Inductive, PTL

\* The row of a command tells what happened, and an open row has somebody who
\* ends it as long as nothing failed, or is the untouched row of a control that
\* was refused or lost.
THEOREM TrustedRows == Spec => []RowsCanBeTrusted
  <1>1. IInv => CommandRowsTrue
    BY DEF IInv, EventInv, RowInv, CommandRowsTrue
  <1>2. IInv => OpenIsOwned
    BY DEF IInv, EventInv, PlaceInv, ReplyInv, RowInv, OwnedInv, Calm, OpenIsOwned, At, Unanswered
  <1>. QED BY <1>1, <1>2, Inductive, PTL DEF RowsCanBeTrusted

\* Rows and files agree wherever the process dies, and a turn that runs has its
\* files although the cleaner works next to it.
THEOREM FilesPresent == Spec => []FilesAreThere
  <1>1. IInv => FilesMatchRows
    BY DEF IInv, FileInv
  <1>2. IInv => TurnHasFiles
    <2>. SUFFICES ASSUME IInv, NEW e \in Events, At(e, "turn"), NEW f \in ToSet(Attached(e))
                  PROVE  att[f].path /\ (att[f].due = "future" => disk[f] = "payload")
      BY DEF TurnHasFiles
    <2>1. f \in Files /\ Kept(f)
      BY AttachedFiles DEF IInv, FileInv, TurnInv
    <2>. QED BY <2>1 DEF IInv, FileInv, Kept, FilesMatchRows
  <1>. QED BY <1>1, <1>2, Inductive, PTL DEF FilesAreThere
=============================================================================
