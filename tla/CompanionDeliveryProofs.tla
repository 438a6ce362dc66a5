----------------------- MODULE CompanionDeliveryProofs -----------------------
(***************************************************************************)
(* Proofs about CompanionDelivery for any texts and any number of segments,  *)
(* interferences and failures.  Of the splitting only SplittingAssumption is *)
(* used.                                                                    *)
(***************************************************************************)
EXTENDS CompanionDelivery, SequenceTheorems, TLAPS

-----------------------------------------------------------------------------
(* The inductive invariant.                                                *)

Over == {"ended", "dead", "restarted"}
Before == {"picked", "mark", "turn", "timeout", "marker"}
Delivering == {"publish", "segment", "sending", "record", "complete", "summary", "plain"}
Settled == row.status \in {"succeeded", "failed"}

\* The worker: what it knows of the text once there is one, and how far it is.
HasText == w.text \in Texts /\ w.segs # <<>> /\ (w.empty \/ w.segs = SplitCompanion(w.text))
WorkInv ==
    /\ (w.marked \/ w.pc = "marker") => HasText
    /\ w.pc \in Before => ~w.marked
    /\ w.pc \in Delivering => w.marked
    /\ w.pc \in {"segment", "sending", "record"} => w.i \in 1 .. Len(w.segs)
    /\ w.pc \in {"complete", "summary", "plain"} => w.i = Len(w.segs) + 1

\* The row: the marker comes with the delivery and stays until the end is recorded.
RowInv ==
    /\ w.pc \in Before => Open /\ row.stage = "none"
    /\ w.pc \in Delivering => Started
    /\ w.marked => Started \/ Settled
    /\ row.status = "succeeded" => w.pc \in {"settle", "finish"} \cup Over /\ w.marked

\* The arbiter: until the delivery is over only a canceller has claimed the end.
ReasonInv ==
    /\ w.pc \in {"picked", "mark", "turn", "marker"} \cup Delivering => reason \in {"", "cancelled"}
    /\ w.pc = "plain" => reason = "cancelled"

\* The slot: its context lives between Publish and a canceller or the end.
SlotInv ==
    /\ slot.cancelled => slot.ctx # "live"
    /\ slot.ctx = "done" => slot.cancelled \/ slot.finished
    /\ slot.finished => w.pc \in Over
    /\ w.pc \in Delivering => slot.started
    /\ w.pc \in Delivering \ {"publish"} => slot.ctx # "none"
    /\ stop = "acked" => w.pc \in Over

\* What is visible, in order and no further than the segment under way.
Below(n) == \A k \in DOMAIN visible : visible[k] < n
VisibleInv ==
    /\ visible # <<>> => w.marked
    /\ w.pc \in Before \cup {"publish"} => visible = <<>>
    /\ SegmentsOnceInOrder
    /\ w.pc \in {"segment", "sending", "complete", "summary", "plain"} => Below(w.i)
    /\ w.pc = "record" /\ w.last \in {"rejected", "rate_limited"} => Below(w.i)
    /\ w.pc = "record" => Below(w.i + 1)

\* While no segment was refused, the visible ones are the first.
First(n) == visible = [k \in 1 .. n |-> k]
PrefixInv ==
    w.rejected = 0 =>
        /\ w.pc \in {"segment", "sending", "complete", "summary", "plain"} => First(w.i - 1)
        /\ w.pc = "record" /\ w.last = "rate_limited" => First(w.i - 1)
        /\ w.pc = "record" /\ w.last = "sent" => First(w.i)

\* A success without a code is one of the whole answer.
WholeInv ==
    row.status = "succeeded" /\ row.code = "" /\ reason # "cancelled" =>
        First(Len(w.segs)) /\ ~w.empty

\* A batch on its way out, with EndedMeansSettled's conditions.
EndInv ==
    (w.pc \in {"finish", "ended"} /\ failures = 0 /\ ~closed /\ ~(slot.cancelled /\ w.i > Len(w.segs))) =>
        Settled

IInv == /\ TypeOK /\ WorkInv /\ RowInv /\ ReasonInv /\ SlotInv
        /\ VisibleInv /\ PrefixInv /\ WholeInv /\ EndInv
-----------------------------------------------------------------------------
(* What the ways to leave a place do to the worker.                         *)

\* Every local but pc, err, last, tries, i and rejected is kept.
Same == w'.marked = w.marked /\ w'.text = w.text /\ w'.segs = w.segs /\ w'.empty = w.empty
\* The worker is at p, with the delivery as far as it was.
Moved(p) == w' \in Workers /\ w'.pc = p /\ Same /\ w'.i = w.i /\ w'.rejected = w.rejected

LEMMA GotoMoves == ASSUME w \in Workers, NEW p \in Places, Goto(p) PROVE Moved(p) /\ w'.last = w.last
<1>1. w' \in Workers BY DEF Goto, Workers
<1> QED BY <1>1 DEF Goto, Workers, Moved, Same

LEMMA FailedMoves == ASSUME w \in Workers, NEW e \in Errors, Failed(e) PROVE Moved("settle")
<1>1. w' \in Workers BY DEF Failed, Workers, Places
<1> QED BY <1>1 DEF Failed, Workers, Moved, Same

LEMMA ResultMoves ==
    ASSUME w \in Workers, NEW o \in Outcomes, Result(o) PROVE Moved("record") /\ w'.last = o
<1>1. w' \in Workers BY DEF Result, Workers, Places
<1> QED BY <1>1 DEF Result, Workers, Moved, Same

LEMMA NextMoves ==
    ASSUME w \in Workers, NEW r \in Nat, NextSegment(r)
    PROVE  /\ w' \in Workers /\ Same /\ w'.i = w.i + 1 /\ w'.rejected = w.rejected + r
           /\ w'.pc = IF w.i = Len(w.segs) THEN "complete" ELSE "segment"
<1>1. w.i \in Nat /\ w.rejected \in Nat BY DEF Workers
<1>2. w.i + 1 \in Nat /\ w.rejected + r \in Nat BY <1>1
<1> DEFINE p == IF w.i = Len(w.segs) THEN "complete" ELSE "segment"
           x == w.i + 1
           y == w.rejected + r
<1>3. p \in Places /\ x \in Nat /\ y \in Nat BY <1>2 DEF Places
<1>4. w' = [w EXCEPT !.pc = p, !.i = x, !.tries = 0, !.rejected = y] BY DEF NextSegment
<1>5. w' \in Workers /\ Same /\ w'.i = x /\ w'.rejected = y /\ w'.pc = p
  <2> HIDE DEF p, x, y
  <2>0. 0 \in 0 .. 1 OBVIOUS
  <2>1. w' \in Workers BY ONLY w \in Workers, <1>3, <1>4, <2>0 DEF Workers
  <2> QED BY <2>1, <1>4 DEF Workers, Same
<1> QED BY <1>5

\* The ways that belong to one action.
LEMMA DeadlineMoves ==
    ASSUME w \in Workers, w' = [w EXCEPT !.pc = "timeout", !.err = "deadline"] PROVE Moved("timeout")
<1>1. w' \in Workers BY DEF Workers, Places, Errors
<1> QED BY <1>1 DEF Workers, Moved, Same

LEMMA NoOutputMoves ==
    ASSUME w \in Workers, w' = [w EXCEPT !.pc = "finish", !.err = "output"] PROVE Moved("finish")
<1>1. w' \in Workers BY DEF Workers, Places, Errors
<1> QED BY <1>1 DEF Workers, Moved, Same

LEMMA RetryMoves ==
    ASSUME w \in Workers, w' = [w EXCEPT !.pc = "segment", !.tries = 1] PROVE Moved("segment")
<1>0. 1 \in 0 .. 1 OBVIOUS
<1>1. w' \in Workers BY <1>0 DEF Workers, Places
<1> QED BY <1>1 DEF Workers, Moved, Same

LEMMA PublishMoves ==
    ASSUME w \in Workers, w' = [w EXCEPT !.pc = "segment", !.i = 1]
    PROVE  w' \in Workers /\ w'.pc = "segment" /\ Same /\ w'.i = 1
<1>1. w' \in Workers BY DEF Workers, Places
<1> QED BY <1>1 DEF Workers, Same

LEMMA MarkMoves ==
    ASSUME w \in Workers, w' = [w EXCEPT !.pc = "publish", !.marked = TRUE]
    PROVE  /\ w' \in Workers /\ w'.pc = "publish" /\ w'.marked
           /\ w'.text = w.text /\ w'.segs = w.segs /\ w'.empty = w.empty
<1>1. w' \in Workers BY DEF Workers, Places
<1> QED BY <1>1 DEF Workers

\* An answer as the worker holds it: its segments, or one empty segment.
SegmentsOf(a) == IF a.segs = <<>> THEN << <<>> >> ELSE a.segs

LEMMA TextMoves ==
    ASSUME w \in Workers, NEW a \in Answers,
           w' = [w EXCEPT !.pc = "marker", !.text = a.text, !.empty = a.segs = <<>>, !.segs = SegmentsOf(a)]
    PROVE  /\ w' \in Workers /\ w'.pc = "marker" /\ w'.marked = w.marked
           /\ w'.text \in Texts /\ w'.segs # <<>> /\ (w'.empty \/ w'.segs = SplitCompanion(w'.text))
<1>0. PICK text \in Texts : a = [text |-> text, segs |-> SplitCompanion(text)] BY DEF Answers
<1> DEFINE cut == SplitCompanion(text)
           segs == SegmentsOf(a)
           none == cut = <<>>
<1>1. cut \in Seq(Seq(Nat)) BY SplittingAssumption
<1>2. <<>> \in Seq(Nat) BY EmptySeq
<1>3. << <<>> >> \in Seq(Seq(Nat)) /\ << <<>> >> # <<>> BY <1>2
<1>4. segs \in Seq(Seq(Nat)) /\ segs # <<>> /\ (none \/ segs = cut) /\ none \in BOOLEAN
  BY <1>0, <1>1, <1>3 DEF SegmentsOf
<1>5. w' = [w EXCEPT !.pc = "marker", !.text = text, !.empty = none, !.segs = segs] BY <1>0
<1> HIDE DEF cut, segs, none
<1>6. w' \in Workers BY ONLY w \in Workers, text \in Texts, <1>4, <1>5 DEF Workers, Places
<1>7. w'.pc = "marker" /\ w'.marked = w.marked /\ w'.text = text /\ w'.segs = segs /\ w'.empty = none
  BY ONLY w \in Workers, <1>5 DEF Workers
<1> QED BY <1>4, <1>6, <1>7 DEF cut
-----------------------------------------------------------------------------
(* Facts about the worker, the row and what is visible.                    *)

LEMMA Counts ==
    ASSUME w \in Workers
    PROVE  /\ w.i \in Nat /\ w.rejected \in Nat /\ Len(w.segs) \in Nat
           /\ w.segs # <<>> => Len(w.segs) >= 1
           /\ w.i = Len(w.segs) + 1 => w.i - 1 = Len(w.segs)
<1>1. w.i \in Nat /\ w.rejected \in Nat /\ w.segs \in Seq(Seq(Nat)) BY DEF Workers
<1>2. Len(w.segs) \in Nat /\ (w.segs # <<>> => Len(w.segs) >= 1) BY <1>1, EmptySeq
<1>3. \A n \in Nat : n + 1 - 1 = n OBVIOUS
<1> QED BY <1>1, <1>2, <1>3

\* The two transactions that end a delivery leave the row or record the end.
LEMMA FailedRow ==
    ASSUME row \in Rows, SettleMarked
    PROVE  row' = row \/ (Started /\ row'.status = "failed" /\ row'.stage = "none")
BY DEF SettleMarked, Stored

LEMMA CompletedRow ==
    ASSUME row \in Rows, CompleteDelivery
    PROVE  \/ row' = row
           \/ Started /\ row'.status = "succeeded" /\ row'.stage = "none" /\ row'.code = SummaryCode
BY DEF CompleteDelivery, Stored

LEMMA CompletedPlace ==
    ASSUME w \in Workers, CompleteDelivery
    PROVE  Moved("settle") \/ (Moved("finish") /\ row'.status = "succeeded")
<1>1. CASE Goto("finish") /\ row' = [status |-> "succeeded", stage |-> "none", code |-> SummaryCode]
  BY <1>1, GotoMoves DEF Places
<1>2. ASSUME NEW e \in Errors, Failed(e) PROVE Moved("settle")
  BY <1>2, FailedMoves
<1> QED BY <1>1, <1>2 DEF CompleteDelivery, Stored, Errors

\* A segment that becomes visible is the last one so far.
LEMMA ShownGrows ==
    ASSUME visible \in Seq(Nat), w \in Workers, Shown, Below(w.i), SegmentsOnceInOrder
    PROVE  SegmentsOnceInOrder' /\ \A k \in DOMAIN visible' : visible'[k] < w.i + 1
<1>1. w.i \in Nat BY Counts
<1>2. /\ visible' \in Seq(Nat) /\ Len(visible') = Len(visible) + 1 /\ visible'[Len(visible) + 1] = w.i
      /\ \A k \in 1 .. Len(visible) : visible'[k] = visible[k]
  BY <1>1 DEF Shown
<1>3. DOMAIN visible = 1 .. Len(visible) /\ DOMAIN visible' = 1 .. Len(visible) + 1 /\ Len(visible) \in Nat
  BY <1>2
<1>4. \A k \in 1 .. Len(visible) : visible[k] \in Nat OBVIOUS
<1>5. \A k \in 1 .. Len(visible) : visible[k] < w.i BY <1>3 DEF Below
<1>6. \A k \in 1 .. Len(visible) : visible'[k] < w.i BY <1>2, <1>5
<1>7. \A k \in 1 .. Len(visible) + 1 : k \in 1 .. Len(visible) \/ k = Len(visible) + 1 BY <1>3
<1>8. ASSUME NEW a \in DOMAIN visible', NEW b \in DOMAIN visible', a < b PROVE visible'[a] < visible'[b]
  <2>1. a \in 1 .. Len(visible) BY <1>3, <1>8
  <2>2. CASE b \in 1 .. Len(visible)
    <3>1. visible[a] < visible[b] BY <1>3, <1>8, <2>1, <2>2 DEF SegmentsOnceInOrder
    <3> QED BY <1>2, <2>1, <2>2, <3>1
  <2>3. CASE b = Len(visible) + 1 BY <1>2, <1>6, <2>1, <2>3
  <2> QED BY <1>3, <1>7, <2>2, <2>3
<1>9. ASSUME NEW k \in DOMAIN visible' PROVE visible'[k] < w.i + 1
  <2>1. CASE k \in 1 .. Len(visible) BY <1>1, <1>2, <1>4, <1>5, <2>1
  <2>2. CASE k = Len(visible) + 1 BY <1>1, <1>2, <2>2
  <2> QED BY <1>3, <1>7, <2>1, <2>2
<1> QED BY <1>8, <1>9 DEF SegmentsOnceInOrder

LEMMA ShownOutcome ==
    ASSUME w \in Workers, visible \in Seq(Nat), SegmentAnswered, Shown
    PROVE  w'.last \notin {"rejected", "rate_limited"}
<1>1. visible' # visible
  <2>1. w.i \in Nat BY Counts
  <2>2. Len(visible') = Len(visible) + 1 /\ Len(visible) \in Nat BY <2>1 DEF Shown
  <2> QED BY <2>2
<1> QED BY <1>1, ResultMoves DEF SegmentAnswered, Outcomes

LEMMA SentIsShown ==
    ASSUME w \in Workers, visible \in Seq(Nat), SegmentAnswered, visible' = visible
    PROVE  w'.last # "sent"
<1>1. ~Shown
  <2>1. w.i \in Nat BY Counts
  <2>2. Shown => Len(visible') = Len(visible) + 1 /\ Len(visible) \in Nat BY <2>1 DEF Shown
  <2> QED BY <2>2
<1> QED BY <1>1, ResultMoves DEF SegmentAnswered, Outcomes

-----------------------------------------------------------------------------
(* Each part of the invariant is kept by each action.                      *)

\* Types of the worker: every way to leave a place gives a worker.
LEMMA WorkerStep ==
    ASSUME w \in Workers, Next
    PROVE  w' \in Workers
<1> USE DEF Places, Errors, Outcomes, Moved, Same
<1>1. CASE OutputUnavailable BY <1>1, NoOutputMoves DEF OutputUnavailable, At, Fault, shared, seen, others
<1>2. CASE SetCompanionControl BY <1>2, GotoMoves DEF SetCompanionControl, At, others, seen
<1>3. CASE StartTurn BY <1>3, GotoMoves DEF StartTurn, At, Stored, Fault, Calm, shared, seen, others
<1>4. CASE TurnEnds
  BY <1>4, FailedMoves, DeadlineMoves, TextMoves DEF TurnEnds, At, Claim, others, seen, SegmentsOf
<1>5. CASE TurnTimedOut BY <1>5, GotoMoves DEF TurnTimedOut, At, Stored, Fault, Calm, Open, shared, others
<1>6. CASE MarkStarted BY <1>6, FailedMoves, MarkMoves DEF MarkStarted, At, Stored, Fault, Calm, others, seen
<1>7. CASE Publish BY <1>7, FailedMoves, PublishMoves DEF Publish, At, others, seen
<1>8. CASE PauseCut BY <1>8, FailedMoves DEF PauseCut, At, DeliveryDone, shared, seen, others
<1>9. CASE BeginSend BY <1>9, GotoMoves, ResultMoves DEF BeginSend, At, DeliveryDone, shared, seen, others
<1>10. CASE SegmentAnswered BY <1>10, ResultMoves DEF SegmentAnswered, At, Shown, DeliveryDone, shared, others
<1>11. CASE RecordSegment
  BY <1>11, FailedMoves, NextMoves, RetryMoves
      DEF RecordSegment, At, AfterSegment, Claim, Calm, Fault, others, seen
<1>12. CASE DecideCompletion BY <1>12, GotoMoves DEF DecideCompletion, At, shared, seen, others
<1>13. CASE CompleteDelivery
  BY <1>13, GotoMoves, FailedMoves
      DEF CompleteDelivery, At, Stored, DeliveryDone, Started, Claim, Calm, Fault, others, seen
<1>14. CASE CompletePlain
  BY <1>14, GotoMoves DEF CompletePlain, At, Stored, DeliveryDone, Calm, Fault, shared, seen, others
<1>15. CASE SettleMarked
  BY <1>15, GotoMoves DEF SettleMarked, At, Stored, Started, Calm, Fault, shared, seen, others
<1>16. CASE SettleUnmarked BY <1>16, GotoMoves DEF SettleUnmarked, At, Stored, Open, Calm, Fault, shared, others
<1>17. CASE Finish BY <1>17, GotoMoves DEF Finish, At, others, seen
<1>18. CASE SubmitControl BY <1>18 DEF SubmitControl, Alive, Interfere, Claim, seen
<1>19. CASE BeginShutdown BY <1>19 DEF BeginShutdown, Alive, Interfere, Claim, seen
<1>20. CASE CancelSlot BY <1>20 DEF CancelSlot, DoneOpen, Alive, Claim, seen
<1>21. CASE CancelReturns BY <1>21 DEF CancelReturns, DoneOpen, Alive, seen
<1>22. CASE Close BY <1>22 DEF Close, seen
<1>23. CASE Crash BY <1>23, GotoMoves DEF Crash, Interfere, seen
<1>24. CASE Restart BY <1>24, GotoMoves DEF Restart, At, Started, shared, seen, others
<1> QED BY <1>1, <1>2, <1>3, <1>4, <1>5, <1>6, <1>7, <1>8, <1>9, <1>10, <1>11, <1>12, <1>13, <1>14,
        <1>15, <1>16, <1>17, <1>18, <1>19, <1>20, <1>21, <1>22, <1>23, <1>24 DEF Next, Work

\* Types of the row: the codes of a summary and of a failure are codes.
LEMMA RowTypeStep ==
    ASSUME w \in Workers, row \in Rows, Next
    PROVE  row' \in Rows
<1> USE DEF Rows, Codes
<1>1. CASE OutputUnavailable BY <1>1 DEF OutputUnavailable, At, Fault, shared, seen, others
<1>2. CASE SetCompanionControl BY <1>2 DEF SetCompanionControl, At, others, seen
<1>3. CASE StartTurn BY <1>3 DEF StartTurn, At, Stored, Fault, Calm, shared, seen, others
<1>4. CASE TurnEnds BY <1>4 DEF TurnEnds, At, Claim, others, seen, SegmentsOf
<1>5. CASE TurnTimedOut BY <1>5 DEF TurnTimedOut, At, Stored, Fault, Calm, Open, shared, others
<1>6. CASE MarkStarted BY <1>6 DEF MarkStarted, At, Stored, Fault, Calm, others, seen
<1>7. CASE Publish BY <1>7 DEF Publish, At, others, seen
<1>8. CASE PauseCut BY <1>8 DEF PauseCut, At, DeliveryDone, shared, seen, others
<1>9. CASE BeginSend BY <1>9 DEF BeginSend, At, DeliveryDone, shared, seen, others
<1>10. CASE SegmentAnswered BY <1>10 DEF SegmentAnswered, At, Shown, DeliveryDone, shared, others
<1>11. CASE RecordSegment BY <1>11 DEF RecordSegment, At, AfterSegment, Claim, Calm, Fault, others, seen
<1>12. CASE DecideCompletion BY <1>12 DEF DecideCompletion, At, shared, seen, others
<1>13. CASE CompleteDelivery
  <2>1. SummaryCode \in Codes BY DEF SummaryCode, Codes
  <2>2. [status |-> "succeeded", stage |-> "none", code |-> SummaryCode] \in Rows BY <2>1 DEF Rows
  <2> QED BY <1>13, <2>2 DEF CompleteDelivery, Stored
<1>14. CASE CompletePlain
  BY <1>14 DEF CompletePlain, At, Stored, DeliveryDone, Calm, Fault, shared, seen, others
<1>15. CASE SettleMarked
  <2>1. FailureCode \in Codes BY DEF FailureCode, Codes
  <2>2. [status |-> "failed", stage |-> "none", code |-> FailureCode] \in Rows BY <2>1 DEF Rows
  <2> QED BY <1>15, <2>2 DEF SettleMarked, Stored
<1>16. CASE SettleUnmarked BY <1>16 DEF SettleUnmarked, At, Stored, Open, Calm, Fault, shared, others
<1>17. CASE Finish BY <1>17 DEF Finish, At, others, seen
<1>18. CASE SubmitControl BY <1>18 DEF SubmitControl, Alive, Interfere, Claim, seen
<1>19. CASE BeginShutdown BY <1>19 DEF BeginShutdown, Alive, Interfere, Claim, seen
<1>20. CASE CancelSlot BY <1>20 DEF CancelSlot, DoneOpen, Alive, Claim, seen
<1>21. CASE CancelReturns BY <1>21 DEF CancelReturns, DoneOpen, Alive, seen
<1>22. CASE Close BY <1>22 DEF Close, seen
<1>23. CASE Crash BY <1>23 DEF Crash, Interfere, seen
<1>24. CASE Restart BY <1>24 DEF Restart, At, Started, shared, seen, others
<1> QED BY <1>1, <1>2, <1>3, <1>4, <1>5, <1>6, <1>7, <1>8, <1>9, <1>10, <1>11, <1>12, <1>13, <1>14,
        <1>15, <1>16, <1>17, <1>18, <1>19, <1>20, <1>21, <1>22, <1>23, <1>24 DEF Next, Work

\* Types of what the worker shares with a canceller.
LEMMA ShareTypeStep ==
    ASSUME reason \in Reasons, slot \in Slots, closed \in BOOLEAN, stop \in Stops, Next
    PROVE  reason' \in Reasons /\ slot' \in Slots /\ closed' \in BOOLEAN /\ stop' \in Stops
<1> USE DEF Reasons, Slots
<1>1. CASE OutputUnavailable BY <1>1 DEF OutputUnavailable, At, Fault, shared, seen, others
<1>2. CASE SetCompanionControl BY <1>2 DEF SetCompanionControl, At, others, seen
<1>3. CASE StartTurn BY <1>3 DEF StartTurn, At, Stored, Fault, Calm, shared, seen, others
<1>4. CASE TurnEnds BY <1>4 DEF TurnEnds, At, Claim, others, seen, SegmentsOf
<1>5. CASE TurnTimedOut BY <1>5 DEF TurnTimedOut, At, Stored, Fault, Calm, Open, shared, others
<1>6. CASE MarkStarted BY <1>6 DEF MarkStarted, At, Stored, Fault, Calm, others, seen
<1>7. CASE Publish BY <1>7 DEF Publish, At, others, seen
<1>8. CASE PauseCut BY <1>8 DEF PauseCut, At, DeliveryDone, shared, seen, others
<1>9. CASE BeginSend BY <1>9 DEF BeginSend, At, DeliveryDone, shared, seen, others
<1>10. CASE SegmentAnswered BY <1>10 DEF SegmentAnswered, At, Shown, DeliveryDone, shared, others
<1>11. CASE RecordSegment BY <1>11 DEF RecordSegment, At, AfterSegment, Claim, Calm, Fault, others, seen
<1>12. CASE DecideCompletion BY <1>12 DEF DecideCompletion, At, shared, seen, others
<1>13. CASE CompleteDelivery
  BY <1>13 DEF CompleteDelivery, At, Stored, DeliveryDone, Started, Claim, Calm, Fault, others, seen
<1>14. CASE CompletePlain
  BY <1>14 DEF CompletePlain, At, Stored, DeliveryDone, Calm, Fault, shared, seen, others
<1>15. CASE SettleMarked BY <1>15 DEF SettleMarked, At, Stored, Started, Calm, Fault, shared, seen, others
<1>16. CASE SettleUnmarked BY <1>16 DEF SettleUnmarked, At, Stored, Open, Calm, Fault, shared, others
<1>17. CASE Finish BY <1>17 DEF Finish, At, others, seen
<1>18. CASE SubmitControl BY <1>18 DEF SubmitControl, Alive, Interfere, Claim, seen
<1>19. CASE BeginShutdown BY <1>19 DEF BeginShutdown, Alive, Interfere, Claim, seen, Stops
<1>20. CASE CancelSlot
  <2>1. slot' \in Slots
    <3>1. CASE slot' = [slot EXCEPT !.cancelled = TRUE, !.ctx = IF slot.ctx = "live" THEN "done" ELSE slot.ctx]
      BY <3>1 DEF Slots
    <3> QED BY <1>20, <3>1 DEF CancelSlot
  <2> QED BY <1>20, <2>1 DEF CancelSlot, Claim, Stops
<1>21. CASE CancelReturns BY <1>21 DEF CancelReturns, DoneOpen, Alive, seen, Stops
<1>22. CASE Close BY <1>22 DEF Close, seen, Stops
<1>23. CASE Crash BY <1>23 DEF Crash, Interfere, seen, Stops
<1>24. CASE Restart BY <1>24 DEF Restart, At, Started, shared, seen, others
<1> QED BY <1>1, <1>2, <1>3, <1>4, <1>5, <1>6, <1>7, <1>8, <1>9, <1>10, <1>11, <1>12, <1>13, <1>14,
        <1>15, <1>16, <1>17, <1>18, <1>19, <1>20, <1>21, <1>22, <1>23, <1>24 DEF Next, Work

\* Types of what the user can see.
LEMMA SeenTypeStep ==
    ASSUME w \in Workers, visible \in Seq(Nat), notices \in Nat, controlAt \in Nat, Next
    PROVE  visible' \in Seq(Nat) /\ notices' \in Nat /\ controlAt' \in Nat
<1> USE DEF Workers
<1>1. CASE OutputUnavailable BY <1>1 DEF OutputUnavailable, At, Fault, shared, seen, others
<1>2. CASE SetCompanionControl BY <1>2 DEF SetCompanionControl, At, others, seen
<1>3. CASE StartTurn BY <1>3 DEF StartTurn, At, Stored, Fault, Calm, shared, seen, others
<1>4. CASE TurnEnds BY <1>4 DEF TurnEnds, At, Claim, others, seen, SegmentsOf
<1>5. CASE TurnTimedOut BY <1>5 DEF TurnTimedOut, At, Stored, Fault, Calm, Open, shared, others
<1>6. CASE MarkStarted BY <1>6 DEF MarkStarted, At, Stored, Fault, Calm, others, seen
<1>7. CASE Publish BY <1>7 DEF Publish, At, others, seen
<1>8. CASE PauseCut BY <1>8 DEF PauseCut, At, DeliveryDone, shared, seen, others
<1>9. CASE BeginSend BY <1>9 DEF BeginSend, At, DeliveryDone, shared, seen, others
<1>10. CASE SegmentAnswered
  <2>1. Append(visible, w.i) \in Seq(Nat) BY Counts
  <2> QED BY <1>10, <2>1 DEF SegmentAnswered, Shown, shared, others
<1>11. CASE RecordSegment BY <1>11 DEF RecordSegment, At, AfterSegment, Claim, Calm, Fault, others, seen
<1>12. CASE DecideCompletion BY <1>12 DEF DecideCompletion, At, shared, seen, others
<1>13. CASE CompleteDelivery
  BY <1>13 DEF CompleteDelivery, At, Stored, DeliveryDone, Started, Claim, Calm, Fault, others, seen
<1>14. CASE CompletePlain
  BY <1>14 DEF CompletePlain, At, Stored, DeliveryDone, Calm, Fault, shared, seen, others
<1>15. CASE SettleMarked BY <1>15 DEF SettleMarked, At, Stored, Started, Calm, Fault, shared, seen, others
<1>16. CASE SettleUnmarked BY <1>16 DEF SettleUnmarked, At, Stored, Open, Calm, Fault, shared, others
<1>17. CASE Finish BY <1>17 DEF Finish, At, others, seen
<1>18. CASE SubmitControl
  <2>1. Len(visible) \in Nat OBVIOUS
  <2> QED BY <1>18, <2>1 DEF SubmitControl, seen
<1>19. CASE BeginShutdown BY <1>19 DEF BeginShutdown, Alive, Interfere, Claim, seen
<1>20. CASE CancelSlot BY <1>20 DEF CancelSlot, DoneOpen, Alive, Claim, seen
<1>21. CASE CancelReturns BY <1>21 DEF CancelReturns, DoneOpen, Alive, seen
<1>22. CASE Close BY <1>22 DEF Close, seen
<1>23. CASE Crash BY <1>23 DEF Crash, Interfere, seen
<1>24. CASE Restart BY <1>24 DEF Restart, At, Started, shared, seen, others
<1> QED BY <1>1, <1>2, <1>3, <1>4, <1>5, <1>6, <1>7, <1>8, <1>9, <1>10, <1>11, <1>12, <1>13, <1>14,
        <1>15, <1>16, <1>17, <1>18, <1>19, <1>20, <1>21, <1>22, <1>23, <1>24 DEF Next, Work

\* The counters stay within their bounds.
LEMMA BoundTypeStep ==
    ASSUME interferences \in 0 .. MaxInterferences, failures \in 0 .. MaxFailures, Next
    PROVE  interferences' \in 0 .. MaxInterferences /\ failures' \in 0 .. MaxFailures
<1> USE CompanionAssumption
<1>1. CASE OutputUnavailable BY <1>1 DEF OutputUnavailable, At, Fault, shared, seen, others
<1>2. CASE SetCompanionControl BY <1>2 DEF SetCompanionControl, At, others, seen
<1>3. CASE StartTurn BY <1>3 DEF StartTurn, At, Stored, Fault, Calm, shared, seen, others
<1>4. CASE TurnEnds BY <1>4 DEF TurnEnds, At, Claim, others, seen, SegmentsOf
<1>5. CASE TurnTimedOut BY <1>5 DEF TurnTimedOut, At, Stored, Fault, Calm, Open, shared, others
<1>6. CASE MarkStarted BY <1>6 DEF MarkStarted, At, Stored, Fault, Calm, others, seen
<1>7. CASE Publish BY <1>7 DEF Publish, At, others, seen
<1>8. CASE PauseCut BY <1>8 DEF PauseCut, At, DeliveryDone, shared, seen, others
<1>9. CASE BeginSend BY <1>9 DEF BeginSend, At, DeliveryDone, shared, seen, others
<1>10. CASE SegmentAnswered BY <1>10 DEF SegmentAnswered, At, Shown, DeliveryDone, shared, others
<1>11. CASE RecordSegment
  <2>1. Fault \/ Calm BY <1>11 DEF RecordSegment
  <2> QED BY <1>11, <2>1 DEF RecordSegment, others, Fault, Calm
<1>12. CASE DecideCompletion BY <1>12 DEF DecideCompletion, At, shared, seen, others
<1>13. CASE CompleteDelivery
  <2>1. Fault \/ Calm BY <1>13 DEF CompleteDelivery, Stored
  <2> QED BY <1>13, <2>1 DEF CompleteDelivery, others, Fault, Calm
<1>14. CASE CompletePlain
  BY <1>14 DEF CompletePlain, At, Stored, DeliveryDone, Calm, Fault, shared, seen, others
<1>15. CASE SettleMarked BY <1>15 DEF SettleMarked, At, Stored, Started, Calm, Fault, shared, seen, others
<1>16. CASE SettleUnmarked BY <1>16 DEF SettleUnmarked, At, Stored, Open, Calm, Fault, shared, others
<1>17. CASE Finish BY <1>17 DEF Finish, At, others, seen
<1>18. CASE SubmitControl BY <1>18 DEF SubmitControl, Interfere
<1>19. CASE BeginShutdown BY <1>19 DEF BeginShutdown, Interfere
<1>20. CASE CancelSlot BY <1>20 DEF CancelSlot, DoneOpen, Alive, Claim, seen
<1>21. CASE CancelReturns BY <1>21 DEF CancelReturns, DoneOpen, Alive, seen
<1>22. CASE Close BY <1>22 DEF Close, seen
<1>23. CASE Crash BY <1>23 DEF Crash, Interfere, seen
<1>24. CASE Restart BY <1>24 DEF Restart, At, Started, shared, seen, others
<1> QED BY <1>1, <1>2, <1>3, <1>4, <1>5, <1>6, <1>7, <1>8, <1>9, <1>10, <1>11, <1>12, <1>13, <1>14,
        <1>15, <1>16, <1>17, <1>18, <1>19, <1>20, <1>21, <1>22, <1>23, <1>24 DEF Next, Work

\* The worker holds a text from the marker on and counts its segments.
LEMMA WorkStep ==
    ASSUME w \in Workers, WorkInv, Next
    PROVE  WorkInv'
<1> USE DEF Places, Errors, Outcomes, Moved, Same, WorkInv, HasText, Before, Delivering
<1>1. CASE OutputUnavailable BY <1>1, NoOutputMoves DEF OutputUnavailable, At, Fault, shared, seen, others
<1>2. CASE SetCompanionControl BY <1>2, GotoMoves DEF SetCompanionControl, At, others, seen
<1>3. CASE StartTurn BY <1>3, GotoMoves DEF StartTurn, At, Stored, Fault, Calm, shared, seen, others
<1>4. CASE TurnEnds
  BY <1>4, FailedMoves, DeadlineMoves, TextMoves DEF TurnEnds, At, Claim, others, seen, SegmentsOf
<1>5. CASE TurnTimedOut BY <1>5, GotoMoves DEF TurnTimedOut, At, Stored, Fault, Calm, Open, shared, others
<1>6. CASE MarkStarted BY <1>6, FailedMoves, MarkMoves DEF MarkStarted, At, Stored, Fault, Calm, others, seen
<1>7. CASE Publish
  <2>1. w.marked /\ HasText /\ Len(w.segs) \in Nat /\ Len(w.segs) >= 1 BY <1>7, Counts DEF Publish, At
  <2>2. 1 \in 1 .. Len(w.segs) BY <2>1
  <2>3. Moved("settle") \/ (w'.pc = "segment" /\ Same /\ w'.i = 1) BY <1>7, FailedMoves, PublishMoves DEF Publish
  <2> QED BY <2>1, <2>2, <2>3
<1>8. CASE PauseCut BY <1>8, FailedMoves DEF PauseCut, At, DeliveryDone, shared, seen, others
<1>9. CASE BeginSend BY <1>9, GotoMoves, ResultMoves DEF BeginSend, At, DeliveryDone, shared, seen, others
<1>10. CASE SegmentAnswered BY <1>10, ResultMoves DEF SegmentAnswered, At, Shown, DeliveryDone, shared, others
<1>11. CASE RecordSegment
  <2>1. w.i \in Nat /\ Len(w.segs) \in Nat /\ w.i \in 1 .. Len(w.segs) BY <1>11, Counts DEF RecordSegment, At
  <2>2. CASE NextSegment(0) \/ NextSegment(1) BY <1>11, <2>1, <2>2, NextMoves DEF RecordSegment, At
  <2> QED BY <1>11, <2>2, FailedMoves, RetryMoves DEF RecordSegment, At, AfterSegment, Claim, Calm, Fault, others, seen
<1>12. CASE DecideCompletion BY <1>12, GotoMoves DEF DecideCompletion, At, shared, seen, others
<1>13. CASE CompleteDelivery
  BY <1>13, GotoMoves, FailedMoves
      DEF CompleteDelivery, At, Stored, DeliveryDone, Started, Claim, Calm, Fault, others, seen
<1>14. CASE CompletePlain
  BY <1>14, GotoMoves DEF CompletePlain, At, Stored, DeliveryDone, Calm, Fault, shared, seen, others
<1>15. CASE SettleMarked
  BY <1>15, GotoMoves DEF SettleMarked, At, Stored, Started, Calm, Fault, shared, seen, others
<1>16. CASE SettleUnmarked BY <1>16, GotoMoves DEF SettleUnmarked, At, Stored, Open, Calm, Fault, shared, others
<1>17. CASE Finish BY <1>17, GotoMoves DEF Finish, At, others, seen
<1>18. CASE SubmitControl BY <1>18 DEF SubmitControl, Alive, Interfere, Claim, seen
<1>19. CASE BeginShutdown BY <1>19 DEF BeginShutdown, Alive, Interfere, Claim, seen
<1>20. CASE CancelSlot BY <1>20 DEF CancelSlot, DoneOpen, Alive, Claim, seen
<1>21. CASE CancelReturns BY <1>21 DEF CancelReturns, DoneOpen, Alive, seen
<1>22. CASE Close BY <1>22 DEF Close, seen
<1>23. CASE Crash BY <1>23, GotoMoves DEF Crash, Interfere, seen
<1>24. CASE Restart BY <1>24, GotoMoves DEF Restart, At, Started, shared, seen, others
<1> QED BY <1>1, <1>2, <1>3, <1>4, <1>5, <1>6, <1>7, <1>8, <1>9, <1>10, <1>11, <1>12, <1>13, <1>14,
        <1>15, <1>16, <1>17, <1>18, <1>19, <1>20, <1>21, <1>22, <1>23, <1>24 DEF Next, Work

\* The durable marker accompanies the delivery until its end is recorded.
LEMMA RowStep ==
    ASSUME w \in Workers, row \in Rows, WorkInv, RowInv, Next
    PROVE  RowInv'
<1> USE DEF Places, Errors, Outcomes, Moved, Same, Rows, WorkInv, RowInv, Open, Started, Settled, Before,
            Delivering, Over
<1>1. CASE OutputUnavailable BY <1>1, NoOutputMoves DEF OutputUnavailable, At, Fault, shared, seen, others
<1>2. CASE SetCompanionControl BY <1>2, GotoMoves DEF SetCompanionControl, At, others, seen
<1>3. CASE StartTurn BY <1>3, GotoMoves DEF StartTurn, At, Stored, Fault, Calm, shared, seen, others
<1>4. CASE TurnEnds
  BY <1>4, FailedMoves, DeadlineMoves, TextMoves DEF TurnEnds, At, Claim, others, seen, SegmentsOf
<1>5. CASE TurnTimedOut BY <1>5, GotoMoves DEF TurnTimedOut, At, Stored, Fault, Calm, shared, others
<1>6. CASE MarkStarted BY <1>6, FailedMoves, MarkMoves DEF MarkStarted, At, Stored, Fault, Calm, others, seen
<1>7. CASE Publish BY <1>7, FailedMoves, PublishMoves DEF Publish, At, others, seen
<1>8. CASE PauseCut BY <1>8, FailedMoves DEF PauseCut, At, DeliveryDone, shared, seen, others
<1>9. CASE BeginSend BY <1>9, GotoMoves, ResultMoves DEF BeginSend, At, DeliveryDone, shared, seen, others
<1>10. CASE SegmentAnswered BY <1>10, ResultMoves DEF SegmentAnswered, At, Shown, DeliveryDone, shared, others
<1>11. CASE RecordSegment
  BY <1>11, FailedMoves, NextMoves, RetryMoves
      DEF RecordSegment, At, AfterSegment, Claim, Calm, Fault, others, seen
<1>12. CASE DecideCompletion BY <1>12, GotoMoves DEF DecideCompletion, At, shared, seen, others
<1>13. CASE CompleteDelivery BY <1>13, CompletedRow, CompletedPlace DEF CompleteDelivery, At
<1>14. CASE CompletePlain
  BY <1>14, GotoMoves DEF CompletePlain, At, Stored, DeliveryDone, Calm, Fault, shared, seen, others
<1>15. CASE SettleMarked
  <2>1. Moved("finish") BY <1>15, GotoMoves DEF SettleMarked, Stored
  <2> QED BY <1>15, <2>1, FailedRow DEF SettleMarked, At
<1>16. CASE SettleUnmarked BY <1>16, GotoMoves DEF SettleUnmarked, At, Stored, Calm, Fault, shared, others
<1>17. CASE Finish BY <1>17, GotoMoves DEF Finish, At, others, seen
<1>18. CASE SubmitControl BY <1>18 DEF SubmitControl, Alive, Interfere, Claim, seen
<1>19. CASE BeginShutdown BY <1>19 DEF BeginShutdown, Alive, Interfere, Claim, seen
<1>20. CASE CancelSlot BY <1>20 DEF CancelSlot, DoneOpen, Alive, Claim, seen
<1>21. CASE CancelReturns BY <1>21 DEF CancelReturns, DoneOpen, Alive, seen
<1>22. CASE Close BY <1>22 DEF Close, seen
<1>23. CASE Crash BY <1>23, GotoMoves DEF Crash, Interfere, seen
<1>24. CASE Restart BY <1>24, GotoMoves DEF Restart, At, shared, seen, others
<1> QED BY <1>1, <1>2, <1>3, <1>4, <1>5, <1>6, <1>7, <1>8, <1>9, <1>10, <1>11, <1>12, <1>13, <1>14,
        <1>15, <1>16, <1>17, <1>18, <1>19, <1>20, <1>21, <1>22, <1>23, <1>24 DEF Next, Work

\* Before the end of a delivery only a canceller claims it.
LEMMA ReasonStep ==
    ASSUME w \in Workers, reason \in Reasons, ReasonInv, Next
    PROVE  ReasonInv'
<1> USE DEF Places, Errors, Outcomes, Moved, ReasonInv, Delivering
<1>1. CASE OutputUnavailable BY <1>1, NoOutputMoves DEF OutputUnavailable, At, Fault, shared, seen, others
<1>2. CASE SetCompanionControl BY <1>2, GotoMoves DEF SetCompanionControl, At, others, seen
<1>3. CASE StartTurn BY <1>3, GotoMoves DEF StartTurn, At, Stored, Fault, Calm, shared, seen, others
<1>4. CASE TurnEnds
  BY <1>4, FailedMoves, DeadlineMoves, TextMoves DEF TurnEnds, At, Claim, others, seen, SegmentsOf
<1>5. CASE TurnTimedOut BY <1>5, GotoMoves DEF TurnTimedOut, At, Stored, Fault, Calm, Open, shared, others
<1>6. CASE MarkStarted BY <1>6, FailedMoves, MarkMoves DEF MarkStarted, At, Stored, Fault, Calm, others, seen
<1>7. CASE Publish BY <1>7, FailedMoves, PublishMoves DEF Publish, At, others, seen
<1>8. CASE PauseCut BY <1>8, FailedMoves DEF PauseCut, At, DeliveryDone, shared, seen, others
<1>9. CASE BeginSend BY <1>9, GotoMoves, ResultMoves DEF BeginSend, At, DeliveryDone, shared, seen, others
<1>10. CASE SegmentAnswered BY <1>10, ResultMoves DEF SegmentAnswered, At, Shown, DeliveryDone, shared, others
<1>11. CASE RecordSegment
  BY <1>11, FailedMoves, NextMoves, RetryMoves
      DEF RecordSegment, At, AfterSegment, Claim, Calm, Fault, others, seen
<1>12. CASE DecideCompletion BY <1>12, GotoMoves DEF DecideCompletion, At, shared, seen, others
<1>13. CASE CompleteDelivery
  BY <1>13, GotoMoves, FailedMoves
      DEF CompleteDelivery, At, Stored, DeliveryDone, Started, Claim, Calm, Fault, others, seen
<1>14. CASE CompletePlain
  BY <1>14, GotoMoves DEF CompletePlain, At, Stored, DeliveryDone, Calm, Fault, shared, seen, others
<1>15. CASE SettleMarked
  BY <1>15, GotoMoves DEF SettleMarked, At, Stored, Started, Calm, Fault, shared, seen, others
<1>16. CASE SettleUnmarked BY <1>16, GotoMoves DEF SettleUnmarked, At, Stored, Open, Calm, Fault, shared, others
<1>17. CASE Finish BY <1>17, GotoMoves DEF Finish, At, others, seen
<1>18. CASE SubmitControl BY <1>18 DEF SubmitControl, Alive, Interfere, Claim, seen
<1>19. CASE BeginShutdown BY <1>19 DEF BeginShutdown, Alive, Interfere, Claim, seen
<1>20. CASE CancelSlot BY <1>20 DEF CancelSlot, DoneOpen, Alive, Claim, seen
<1>21. CASE CancelReturns BY <1>21 DEF CancelReturns, DoneOpen, Alive, seen
<1>22. CASE Close BY <1>22 DEF Close, seen
<1>23. CASE Crash BY <1>23, GotoMoves DEF Crash, Interfere, seen
<1>24. CASE Restart BY <1>24, GotoMoves DEF Restart, At, Started, shared, seen, others
<1> QED BY <1>1, <1>2, <1>3, <1>4, <1>5, <1>6, <1>7, <1>8, <1>9, <1>10, <1>11, <1>12, <1>13, <1>14,
        <1>15, <1>16, <1>17, <1>18, <1>19, <1>20, <1>21, <1>22, <1>23, <1>24 DEF Next, Work

\* A latched slot has no live context, a finished one no worker.
LEMMA SlotStep ==
    ASSUME w \in Workers, slot \in Slots, SlotInv, Next
    PROVE  SlotInv'
<1> USE DEF Places, Errors, Outcomes, Moved, Slots, SlotInv, Delivering, Over
<1>1. CASE OutputUnavailable BY <1>1, NoOutputMoves DEF OutputUnavailable, At, Fault, shared, seen, others
<1>2. CASE SetCompanionControl BY <1>2, GotoMoves DEF SetCompanionControl, At, others, seen
<1>3. CASE StartTurn BY <1>3, GotoMoves DEF StartTurn, At, Stored, Fault, Calm, shared, seen, others
<1>4. CASE TurnEnds
  BY <1>4, FailedMoves, DeadlineMoves, TextMoves DEF TurnEnds, At, Claim, others, seen, SegmentsOf
<1>5. CASE TurnTimedOut BY <1>5, GotoMoves DEF TurnTimedOut, At, Stored, Fault, Calm, Open, shared, others
<1>6. CASE MarkStarted BY <1>6, FailedMoves, MarkMoves DEF MarkStarted, At, Stored, Fault, Calm, others, seen
<1>7. CASE Publish BY <1>7, FailedMoves, PublishMoves DEF Publish, At, others, seen
<1>8. CASE PauseCut BY <1>8, FailedMoves DEF PauseCut, At, DeliveryDone, shared, seen, others
<1>9. CASE BeginSend BY <1>9, GotoMoves, ResultMoves DEF BeginSend, At, DeliveryDone, shared, seen, others
<1>10. CASE SegmentAnswered BY <1>10, ResultMoves DEF SegmentAnswered, At, Shown, DeliveryDone, shared, others
<1>11. CASE RecordSegment
  BY <1>11, FailedMoves, NextMoves, RetryMoves
      DEF RecordSegment, At, AfterSegment, Claim, Calm, Fault, others, seen
<1>12. CASE DecideCompletion BY <1>12, GotoMoves DEF DecideCompletion, At, shared, seen, others
<1>13. CASE CompleteDelivery
  BY <1>13, GotoMoves, FailedMoves
      DEF CompleteDelivery, At, Stored, DeliveryDone, Started, Claim, Calm, Fault, others, seen
<1>14. CASE CompletePlain
  BY <1>14, GotoMoves DEF CompletePlain, At, Stored, DeliveryDone, Calm, Fault, shared, seen, others
<1>15. CASE SettleMarked
  BY <1>15, GotoMoves DEF SettleMarked, At, Stored, Started, Calm, Fault, shared, seen, others
<1>16. CASE SettleUnmarked BY <1>16, GotoMoves DEF SettleUnmarked, At, Stored, Open, Calm, Fault, shared, others
<1>17. CASE Finish BY <1>17, GotoMoves DEF Finish, At, others, seen
<1>18. CASE SubmitControl BY <1>18 DEF SubmitControl, Alive, Interfere, Claim, seen
<1>19. CASE BeginShutdown BY <1>19 DEF BeginShutdown, Alive, Interfere, Claim, seen
<1>20. CASE CancelSlot BY <1>20 DEF CancelSlot, DoneOpen, Alive, Claim, seen
<1>21. CASE CancelReturns BY <1>21 DEF CancelReturns, DoneOpen, Alive, seen
<1>22. CASE Close BY <1>22 DEF Close, seen
<1>23. CASE Crash BY <1>23, GotoMoves DEF Crash, Interfere, seen
<1>24. CASE Restart BY <1>24, GotoMoves DEF Restart, At, Started, shared, seen, others
<1> QED BY <1>1, <1>2, <1>3, <1>4, <1>5, <1>6, <1>7, <1>8, <1>9, <1>10, <1>11, <1>12, <1>13, <1>14,
        <1>15, <1>16, <1>17, <1>18, <1>19, <1>20, <1>21, <1>22, <1>23, <1>24 DEF Next, Work

\* Only SegmentAnswered shows a segment, and never one that was shown before.
LEMMA VisibleStep ==
    ASSUME w \in Workers, visible \in Seq(Nat), WorkInv, VisibleInv, Next
    PROVE  VisibleInv'
<1> USE DEF Places, Errors, Outcomes, Moved, Same, WorkInv, VisibleInv, SegmentsOnceInOrder, Below,
            Before, Delivering
<1>1. CASE OutputUnavailable BY <1>1, NoOutputMoves DEF OutputUnavailable, At, Fault, shared, seen, others
<1>2. CASE SetCompanionControl BY <1>2, GotoMoves DEF SetCompanionControl, At, others, seen
<1>3. CASE StartTurn BY <1>3, GotoMoves DEF StartTurn, At, Stored, Fault, Calm, shared, seen, others
<1>4. CASE TurnEnds
  BY <1>4, FailedMoves, DeadlineMoves, TextMoves DEF TurnEnds, At, Claim, others, seen, SegmentsOf
<1>5. CASE TurnTimedOut BY <1>5, GotoMoves DEF TurnTimedOut, At, Stored, Fault, Calm, Open, shared, others
<1>6. CASE MarkStarted BY <1>6, FailedMoves, MarkMoves DEF MarkStarted, At, Stored, Fault, Calm, others, seen
<1>7. CASE Publish
  <2>1. visible' = visible /\ visible = <<>> BY <1>7 DEF Publish, At, seen
  <2>2. Moved("settle") \/ (w'.pc = "segment" /\ Same) BY <1>7, FailedMoves, PublishMoves DEF Publish
  <2> QED BY <2>1, <2>2
<1>8. CASE PauseCut BY <1>8, FailedMoves DEF PauseCut, At, DeliveryDone, shared, seen, others
<1>9. CASE BeginSend
  <2>1. visible' = visible /\ w.pc = "segment" BY <1>9 DEF BeginSend, At, seen
  <2>2. w.i \in Nat /\ Below(w.i) /\ Below(w.i + 1) BY <2>1, Counts
  <2>3. Moved("sending") \/ Moved("record") BY <1>9, GotoMoves, ResultMoves DEF BeginSend
  <2> QED BY <2>1, <2>2, <2>3
<1>10. CASE SegmentAnswered
  <2>1. w.pc = "sending" /\ w.i \in Nat /\ w.marked BY <1>10, Counts DEF SegmentAnswered, At
  <2>2. Moved("record") BY <1>10, ResultMoves DEF SegmentAnswered
  <2>3. CASE Shown
    <3>1. w'.last \notin {"rejected", "rate_limited"}
      BY <1>10, <2>3, ShownOutcome
    <3> QED BY <2>1, <2>2, <2>3, <3>1, ShownGrows
  <2>4. CASE visible' = visible
    <3>1. Below(w.i) /\ Below(w.i + 1) BY <2>1
    <3> QED BY <2>1, <2>2, <2>4, <3>1
  <2> QED BY <1>10, <2>3, <2>4 DEF SegmentAnswered
<1>11. CASE RecordSegment
  BY <1>11, FailedMoves, NextMoves, RetryMoves
      DEF RecordSegment, At, AfterSegment, Claim, Calm, Fault, others, seen
<1>12. CASE DecideCompletion BY <1>12, GotoMoves DEF DecideCompletion, At, shared, seen, others
<1>13. CASE CompleteDelivery
  BY <1>13, GotoMoves, FailedMoves
      DEF CompleteDelivery, At, Stored, DeliveryDone, Started, Claim, Calm, Fault, others, seen
<1>14. CASE CompletePlain
  BY <1>14, GotoMoves DEF CompletePlain, At, Stored, DeliveryDone, Calm, Fault, shared, seen, others
<1>15. CASE SettleMarked
  BY <1>15, GotoMoves DEF SettleMarked, At, Stored, Started, Calm, Fault, shared, seen, others
<1>16. CASE SettleUnmarked BY <1>16, GotoMoves DEF SettleUnmarked, At, Stored, Open, Calm, Fault, shared, others
<1>17. CASE Finish BY <1>17, GotoMoves DEF Finish, At, others, seen
<1>18. CASE SubmitControl BY <1>18 DEF SubmitControl, Alive, Interfere, Claim, seen
<1>19. CASE BeginShutdown BY <1>19 DEF BeginShutdown, Alive, Interfere, Claim, seen
<1>20. CASE CancelSlot BY <1>20 DEF CancelSlot, DoneOpen, Alive, Claim, seen
<1>21. CASE CancelReturns BY <1>21 DEF CancelReturns, DoneOpen, Alive, seen
<1>22. CASE Close BY <1>22 DEF Close, seen
<1>23. CASE Crash BY <1>23, GotoMoves DEF Crash, Interfere, seen
<1>24. CASE Restart BY <1>24, GotoMoves DEF Restart, At, Started, shared, seen, others
<1> QED BY <1>1, <1>2, <1>3, <1>4, <1>5, <1>6, <1>7, <1>8, <1>9, <1>10, <1>11, <1>12, <1>13, <1>14,
        <1>15, <1>16, <1>17, <1>18, <1>19, <1>20, <1>21, <1>22, <1>23, <1>24 DEF Next, Work

\* Nothing is skipped without being counted as rejected.
LEMMA PrefixStep ==
    ASSUME w \in Workers, visible \in Seq(Nat), WorkInv, VisibleInv, PrefixInv, Next
    PROVE  PrefixInv'
<1> USE DEF Places, Errors, Outcomes, Moved, Same, WorkInv, VisibleInv, PrefixInv, First, Before, Delivering
<1>1. CASE OutputUnavailable BY <1>1, NoOutputMoves DEF OutputUnavailable, At, Fault, shared, seen, others
<1>2. CASE SetCompanionControl BY <1>2, GotoMoves DEF SetCompanionControl, At, others, seen
<1>3. CASE StartTurn BY <1>3, GotoMoves DEF StartTurn, At, Stored, Fault, Calm, shared, seen, others
<1>4. CASE TurnEnds
  BY <1>4, FailedMoves, DeadlineMoves, TextMoves DEF TurnEnds, At, Claim, others, seen, SegmentsOf
<1>5. CASE TurnTimedOut BY <1>5, GotoMoves DEF TurnTimedOut, At, Stored, Fault, Calm, Open, shared, others
<1>6. CASE MarkStarted BY <1>6, FailedMoves, MarkMoves DEF MarkStarted, At, Stored, Fault, Calm, others, seen
<1>7. CASE Publish
  <2>1. visible' = visible /\ visible = <<>> BY <1>7 DEF Publish, At, seen
  <2>2. Moved("settle") \/ (w'.pc = "segment" /\ w'.i = 1) BY <1>7, FailedMoves, PublishMoves DEF Publish
  <2>3. First(0) BY <2>1
  <2> QED BY <2>1, <2>2, <2>3
<1>8. CASE PauseCut BY <1>8, FailedMoves DEF PauseCut, At, DeliveryDone, shared, seen, others
<1>9. CASE BeginSend BY <1>9, GotoMoves, ResultMoves DEF BeginSend, At, DeliveryDone, shared, seen, others
<1>10. CASE SegmentAnswered
  <2>1. w.pc = "sending" /\ w.i \in Nat /\ w.i >= 1 BY <1>10, Counts DEF SegmentAnswered, At
  <2>2. Moved("record") BY <1>10, ResultMoves DEF SegmentAnswered
  <2>3. CASE Shown
    <3>1. w'.last # "rate_limited" BY <1>10, <2>3, ShownOutcome
    <3>2. First(w.i - 1) => visible' = [k \in 1 .. w.i |-> k] BY <2>1, <2>3 DEF Shown
    <3> QED BY <2>1, <2>2, <3>1, <3>2
  <2>4. CASE visible' = visible
    <3>1. w'.last # "sent" BY <1>10, <2>4, SentIsShown
    <3> QED BY <2>1, <2>2, <2>4, <3>1
  <2> QED BY <1>10, <2>3, <2>4 DEF SegmentAnswered
<1>11. CASE RecordSegment
  <2>1. visible' = visible /\ w.pc = "record" /\ w.i \in Nat /\ w.i >= 1 /\ w.rejected \in Nat
    BY <1>11, Counts DEF RecordSegment, At, seen
  <2>2. CASE NextSegment(0) /\ w.last = "sent"
    <3>1. w'.i - 1 = w.i /\ w'.rejected = w.rejected BY <2>1, <2>2, NextMoves
    <3> QED BY <2>1, <2>2, <3>1, NextMoves
  <2>3. CASE NextSegment(1)
    <3>1. w'.rejected # 0 BY <2>1, <2>3, NextMoves
    <3> QED BY <3>1
  <2>4. CASE w.last = "rate_limited" /\ w' = [w EXCEPT !.pc = "segment", !.tries = 1]
    BY <2>1, <2>4, RetryMoves
  <2>5. CASE \E e \in Errors : Failed(e) BY <2>5, FailedMoves
  <2> QED BY <1>11, <2>2, <2>3, <2>4, <2>5 DEF RecordSegment, AfterSegment
<1>12. CASE DecideCompletion BY <1>12, GotoMoves DEF DecideCompletion, At, shared, seen, others
<1>13. CASE CompleteDelivery
  BY <1>13, GotoMoves, FailedMoves
      DEF CompleteDelivery, At, Stored, DeliveryDone, Started, Claim, Calm, Fault, others, seen
<1>14. CASE CompletePlain
  BY <1>14, GotoMoves DEF CompletePlain, At, Stored, DeliveryDone, Calm, Fault, shared, seen, others
<1>15. CASE SettleMarked
  BY <1>15, GotoMoves DEF SettleMarked, At, Stored, Started, Calm, Fault, shared, seen, others
<1>16. CASE SettleUnmarked BY <1>16, GotoMoves DEF SettleUnmarked, At, Stored, Open, Calm, Fault, shared, others
<1>17. CASE Finish BY <1>17, GotoMoves DEF Finish, At, others, seen
<1>18. CASE SubmitControl BY <1>18 DEF SubmitControl, Alive, Interfere, Claim, seen
<1>19. CASE BeginShutdown BY <1>19 DEF BeginShutdown, Alive, Interfere, Claim, seen
<1>20. CASE CancelSlot BY <1>20 DEF CancelSlot, DoneOpen, Alive, Claim, seen
<1>21. CASE CancelReturns BY <1>21 DEF CancelReturns, DoneOpen, Alive, seen
<1>22. CASE Close BY <1>22 DEF Close, seen
<1>23. CASE Crash BY <1>23, GotoMoves DEF Crash, Interfere, seen
<1>24. CASE Restart BY <1>24, GotoMoves DEF Restart, At, Started, shared, seen, others
<1> QED BY <1>1, <1>2, <1>3, <1>4, <1>5, <1>6, <1>7, <1>8, <1>9, <1>10, <1>11, <1>12, <1>13, <1>14,
        <1>15, <1>16, <1>17, <1>18, <1>19, <1>20, <1>21, <1>22, <1>23, <1>24 DEF Next, Work

\* Only CompleteDelivery records a success without a code for a delivery that nobody cancelled.
LEMMA WholeStep ==
    ASSUME w \in Workers, row \in Rows, WorkInv, RowInv, ReasonInv, PrefixInv, WholeInv, Next
    PROVE  WholeInv'
<1> USE DEF Places, Errors, Outcomes, Moved, Same, Rows, WorkInv, RowInv, ReasonInv, PrefixInv, WholeInv,
            First, Delivering, Over
<1>1. CASE OutputUnavailable BY <1>1, NoOutputMoves DEF OutputUnavailable, At, Fault, shared, seen, others
<1>2. CASE SetCompanionControl BY <1>2, GotoMoves DEF SetCompanionControl, At, others, seen
<1>3. CASE StartTurn BY <1>3, GotoMoves DEF StartTurn, At, Stored, Fault, Calm, shared, seen, others
<1>4. CASE TurnEnds
  BY <1>4, FailedMoves, DeadlineMoves, TextMoves DEF TurnEnds, At, Claim, others, seen, SegmentsOf
<1>5. CASE TurnTimedOut BY <1>5, GotoMoves DEF TurnTimedOut, At, Stored, Fault, Calm, Open, shared, others
<1>6. CASE MarkStarted BY <1>6, FailedMoves, MarkMoves DEF MarkStarted, At, Stored, Fault, Calm, others, seen
<1>7. CASE Publish BY <1>7, FailedMoves, PublishMoves DEF Publish, At, others, seen
<1>8. CASE PauseCut BY <1>8, FailedMoves DEF PauseCut, At, DeliveryDone, shared, seen, others
<1>9. CASE BeginSend BY <1>9, GotoMoves, ResultMoves DEF BeginSend, At, DeliveryDone, shared, seen, others
<1>10. CASE SegmentAnswered BY <1>10, ResultMoves DEF SegmentAnswered, At, Shown, DeliveryDone, shared, others
<1>11. CASE RecordSegment
  BY <1>11, FailedMoves, NextMoves, RetryMoves
      DEF RecordSegment, At, AfterSegment, Claim, Calm, Fault, others, seen
<1>12. CASE DecideCompletion BY <1>12, GotoMoves DEF DecideCompletion, At, shared, seen, others
<1>13. CASE CompleteDelivery
  <2>1. w.pc = "summary" /\ visible' = visible /\ (reason' # "cancelled" => reason # "cancelled")
    BY <1>13 DEF CompleteDelivery, At, seen, Claim, Stored
  <2>2. w'.segs = w.segs /\ w'.empty = w.empty BY <1>13, CompletedPlace
  <2>3. CASE row' = row BY <2>1, <2>2, <2>3
  <2>4. CASE row'.code = SummaryCode
    <3>1. SummaryCode = "" => ~w.empty /\ w.rejected = 0 BY DEF SummaryCode
    <3>2. w.i = Len(w.segs) + 1 BY <2>1
    <3>3. w.i - 1 = Len(w.segs) BY <3>2, Counts
    <3> QED BY <2>1, <2>2, <2>4, <3>1, <3>3
  <2> QED BY <1>13, <2>3, <2>4, CompletedRow
<1>14. CASE CompletePlain
  BY <1>14, GotoMoves DEF CompletePlain, At, Stored, DeliveryDone, Calm, Fault, shared, seen, others
<1>15. CASE SettleMarked
  <2>1. Moved("finish") /\ visible' = visible /\ reason' = reason
    BY <1>15, GotoMoves DEF SettleMarked, Stored, seen, shared
  <2> QED BY <1>15, <2>1, FailedRow
<1>16. CASE SettleUnmarked BY <1>16, GotoMoves DEF SettleUnmarked, At, Stored, Open, Calm, Fault, shared, others
<1>17. CASE Finish BY <1>17, GotoMoves DEF Finish, At, others, seen
<1>18. CASE SubmitControl BY <1>18 DEF SubmitControl, Alive, Interfere, Claim, seen
<1>19. CASE BeginShutdown BY <1>19 DEF BeginShutdown, Alive, Interfere, Claim, seen
<1>20. CASE CancelSlot BY <1>20 DEF CancelSlot, DoneOpen, Alive, Claim, seen
<1>21. CASE CancelReturns BY <1>21 DEF CancelReturns, DoneOpen, Alive, seen
<1>22. CASE Close BY <1>22 DEF Close, seen
<1>23. CASE Crash BY <1>23, GotoMoves DEF Crash, Interfere, seen
<1>24. CASE Restart BY <1>24, GotoMoves DEF Restart, At, Started, shared, seen, others
<1> QED BY <1>1, <1>2, <1>3, <1>4, <1>5, <1>6, <1>7, <1>8, <1>9, <1>10, <1>11, <1>12, <1>13, <1>14,
        <1>15, <1>16, <1>17, <1>18, <1>19, <1>20, <1>21, <1>22, <1>23, <1>24 DEF Next, Work

\* The ways to finish go through a transaction that records the end, unless it failed.
LEMMA EndStep ==
    ASSUME TypeOK, WorkInv, RowInv, SlotInv, EndInv, Next
    PROVE  EndInv'
<1> USE DEF TypeOK, Places, Errors, Outcomes, Moved, Same, Rows, WorkInv, RowInv, SlotInv, EndInv,
            Settled, Delivering, Over
<1>1. CASE OutputUnavailable BY <1>1, NoOutputMoves DEF OutputUnavailable, At, Fault, shared, seen, others
<1>2. CASE SetCompanionControl BY <1>2, GotoMoves DEF SetCompanionControl, At, others, seen
<1>3. CASE StartTurn BY <1>3, GotoMoves DEF StartTurn, At, Stored, Fault, Calm, shared, seen, others
<1>4. CASE TurnEnds
  BY <1>4, FailedMoves, DeadlineMoves, TextMoves DEF TurnEnds, At, Claim, others, seen, SegmentsOf
<1>5. CASE TurnTimedOut BY <1>5, GotoMoves DEF TurnTimedOut, At, Stored, Fault, Calm, Open, shared, others
<1>6. CASE MarkStarted BY <1>6, FailedMoves, MarkMoves DEF MarkStarted, At, Stored, Fault, Calm, others, seen
<1>7. CASE Publish BY <1>7, FailedMoves, PublishMoves DEF Publish, At, others, seen
<1>8. CASE PauseCut BY <1>8, FailedMoves DEF PauseCut, At, DeliveryDone, shared, seen, others
<1>9. CASE BeginSend BY <1>9, GotoMoves, ResultMoves DEF BeginSend, At, DeliveryDone, shared, seen, others
<1>10. CASE SegmentAnswered BY <1>10, ResultMoves DEF SegmentAnswered, At, Shown, DeliveryDone, shared, others
<1>11. CASE RecordSegment
  BY <1>11, FailedMoves, NextMoves, RetryMoves
      DEF RecordSegment, At, AfterSegment, Claim, Calm, Fault, others, seen
<1>12. CASE DecideCompletion BY <1>12, GotoMoves DEF DecideCompletion, At, shared, seen, others
<1>13. CASE CompleteDelivery BY <1>13, CompletedPlace
<1>14. CASE CompletePlain
  <2>1. w.pc = "plain" /\ Started /\ w.i > Len(w.segs) BY <1>14, Counts DEF CompletePlain, At
  <2>2. slot' = slot /\ closed' = closed /\ Moved("finish")
    BY <1>14, GotoMoves DEF CompletePlain, Stored, shared, others
  <2>3. failures \in Nat BY CompanionAssumption
  <2>4. CASE DeliveryDone
    BY <2>1, <2>2, <2>4 DEF DeliveryDone
  <2>5. CASE ~DeliveryDone
    <3>1. failures' # 0 \/ row' = [row EXCEPT !.status = "succeeded"]
      BY <1>14, <2>1, <2>3, <2>5 DEF CompletePlain, Stored, Fault, Started
    <3> QED BY <3>1
  <2> QED BY <2>4, <2>5
<1>15. CASE SettleMarked
  BY <1>15, GotoMoves DEF SettleMarked, At, Stored, Started, Calm, Fault, shared, seen, others
<1>16. CASE SettleUnmarked
  <2>1. failures \in Nat /\ closed' = closed BY <1>16, CompanionAssumption DEF SettleUnmarked, shared, others
  <2>2. CASE closed BY <2>1, <2>2
  <2>3. CASE ~closed /\ Open
    <3>1. failures' # 0 \/ row' = [row EXCEPT !.status = "failed", !.code = "companion_batch_failed"]
      BY <1>16, <2>1, <2>3 DEF SettleUnmarked, Stored, Fault
    <3> QED BY <3>1
  <2>4. CASE ~Open
    <3>1. row' = row BY <1>16, <2>4 DEF SettleUnmarked, Stored
    <3> QED BY <2>4, <3>1 DEF Open
  <2> QED BY <2>2, <2>3, <2>4
<1>17. CASE Finish BY <1>17, GotoMoves DEF Finish, At, others, seen
<1>18. CASE SubmitControl BY <1>18 DEF SubmitControl, Alive, Interfere, Claim, seen
<1>19. CASE BeginShutdown BY <1>19 DEF BeginShutdown, Alive, Interfere, Claim, seen
<1>20. CASE CancelSlot
  <2>1. w' = w /\ row' = row /\ closed' = closed /\ failures' = failures
    BY <1>20 DEF CancelSlot, seen
  <2>2. slot.cancelled => slot'.cancelled
    <3>1. CASE slot' = slot BY <3>1
    <3>2. CASE slot' = [slot EXCEPT !.cancelled = TRUE, !.ctx = IF slot.ctx = "live" THEN "done" ELSE slot.ctx]
      BY <3>2 DEF Slots
    <3> QED BY <1>20, <3>1, <3>2 DEF CancelSlot
  <2> QED BY <2>1, <2>2
<1>21. CASE CancelReturns BY <1>21 DEF CancelReturns, DoneOpen, Alive, seen
<1>22. CASE Close BY <1>22 DEF Close, seen
<1>23. CASE Crash BY <1>23, GotoMoves DEF Crash, Interfere, seen
<1>24. CASE Restart BY <1>24, GotoMoves DEF Restart, At, Started, shared, seen, others
<1> QED BY <1>1, <1>2, <1>3, <1>4, <1>5, <1>6, <1>7, <1>8, <1>9, <1>10, <1>11, <1>12, <1>13, <1>14,
        <1>15, <1>16, <1>17, <1>18, <1>19, <1>20, <1>21, <1>22, <1>23, <1>24 DEF Next, Work
-----------------------------------------------------------------------------
(* The theorems.                                                           *)

LEMMA InitInv == Init => IInv
<1>1. <<>> \in Seq(Seq(Nat)) /\ <<>> \in Seq(Nat) /\ DOMAIN <<>> = {} BY EmptySeq
<1>9. 0 \in 0 .. MaxInterferences /\ 0 \in 0 .. MaxFailures BY CompanionAssumption
<1>10. 0 \in Nat /\ 0 \in 0 .. 1 /\ NoControl \in Nat BY DEF NoControl
<1> SUFFICES ASSUME Init PROVE IInv OBVIOUS
<1> USE DEF Init
<1>2. w \in Workers
  <2>1. w = [pc |-> "picked", err |-> "", marked |-> FALSE, text |-> <<>>, segs |-> <<>>, i |-> 0, tries |-> 0,
             last |-> "", rejected |-> 0, empty |-> FALSE]
    OBVIOUS
  <2> QED BY ONLY <1>1, <1>10, <2>1 DEF Workers, Places, Errors, Outcomes
<1>3. row \in Rows BY DEF Rows, Codes
<1>4. slot \in Slots BY DEF Slots
<1>5. TypeOK BY <1>1, <1>2, <1>3, <1>4, <1>9, <1>10 DEF TypeOK, Reasons, Stops
<1>6. WorkInv /\ RowInv /\ ReasonInv BY DEF WorkInv, RowInv, ReasonInv, Before, Delivering, Open
<1>7. SlotInv /\ WholeInv /\ EndInv /\ PrefixInv BY DEF SlotInv, WholeInv, EndInv, PrefixInv, Delivering
<1>8. VisibleInv BY <1>1 DEF VisibleInv, SegmentsOnceInOrder
<1> QED BY <1>5, <1>6, <1>7, <1>8 DEF IInv

LEMMA StepInv == IInv /\ [Next]_vars => IInv'
<1>1. ASSUME IInv, Next PROVE IInv'
  <2>1. TypeOK'
    BY <1>1, WorkerStep, RowTypeStep, ShareTypeStep, SeenTypeStep, BoundTypeStep DEF IInv, TypeOK
  <2>2. WorkInv' /\ RowInv' /\ ReasonInv' /\ SlotInv'
    BY <1>1, WorkStep, RowStep, ReasonStep, SlotStep DEF IInv, TypeOK
  <2>3. VisibleInv' /\ PrefixInv' BY <1>1, VisibleStep, PrefixStep DEF IInv, TypeOK
  <2>4. WholeInv' BY <1>1, WholeStep DEF IInv, TypeOK
  <2>5. EndInv' BY <1>1, EndStep DEF IInv
  <2> QED BY <2>1, <2>2, <2>3, <2>4, <2>5 DEF IInv
<1>2. ASSUME IInv, UNCHANGED vars PROVE IInv'
  <2> USE <1>2 DEF IInv, vars
  <2>1. TypeOK' BY DEF TypeOK
  <2>2. WorkInv' BY DEF WorkInv, HasText
  <2>3. RowInv' BY DEF RowInv, Open, Started, Settled
  <2>4. ReasonInv' /\ SlotInv' BY DEF ReasonInv, SlotInv
  <2>5. VisibleInv' BY DEF VisibleInv, SegmentsOnceInOrder, Below
  <2>6. PrefixInv' /\ WholeInv' BY DEF PrefixInv, WholeInv, First
  <2>7. EndInv' BY DEF EndInv, Settled
  <2> QED BY <2>1, <2>2, <2>3, <2>4, <2>5, <2>6, <2>7
<1> QED BY <1>1, <1>2

LEMMA Invariance == Spec => []IInv
BY InitInv, StepInv, PTL DEF Spec

\* Type correctness: the worker, the row of the batch, the arbiter and the slot
\* keep their types whatever interferes with a delivery.
THEOREM TypeCorrect == Spec => []TypeOK
<1>1. IInv => TypeOK BY DEF IInv
<1> QED BY <1>1, Invariance, PTL

\* The segments of a text shown one after the other are the text.
LEMMA FirstIsWhole ==
    ASSUME w.text \in Texts, w.segs = SplitCompanion(w.text), First(Len(w.segs))
    PROVE  KeepsText(w.text, [k \in DOMAIN visible |-> w.segs[visible[k]]])
<1>1. w.segs \in Seq(Seq(Nat)) /\ KeepsText(w.text, w.segs) BY SplittingAssumption
<1>2. DOMAIN visible = 1 .. Len(w.segs) /\ \A k \in 1 .. Len(w.segs) : visible[k] = k BY DEF First
<1>3. w.segs = [k \in 1 .. Len(w.segs) |-> w.segs[k]] BY <1>1
<1>4. [k \in DOMAIN visible |-> w.segs[visible[k]]] = [k \in 1 .. Len(w.segs) |-> w.segs[k]] BY <1>2
<1>5. [k \in DOMAIN visible |-> w.segs[visible[k]]] = w.segs BY <1>3, <1>4
<1> QED BY <1>1, <1>5

\* The user sees every segment at most once and in order, and the whole answer
\* when processCompanion recorded a success without a code: over retries, lost
\* answers, cancellers and restarts, for every text the splitting keeps.
THEOREM ShownOnce == Spec => []AnswerShownOnce
<1>1. ASSUME IInv PROVE AnswerShownOnce
  <2>1. SegmentsOnceInOrder BY <1>1 DEF IInv, VisibleInv
  <2>2. ASSUME row.status = "succeeded", row.code = "", reason # "cancelled"
        PROVE  KeepsText(w.text, [k \in DOMAIN visible |-> w.segs[visible[k]]])
    <3>1. First(Len(w.segs)) /\ ~w.empty BY <1>1, <2>2 DEF IInv, WholeInv
    <3>2. w.marked BY <1>1, <2>2 DEF IInv, RowInv
    <3>3. w.text \in Texts /\ w.segs = SplitCompanion(w.text) BY <1>1, <3>1, <3>2 DEF IInv, WorkInv, HasText
    <3> QED BY <3>1, <3>3, FirstIsWhole
  <2> QED BY <2>1, <2>2 DEF AnswerShownOnce, WholeAnswerShown
<1> QED BY <1>1, Invariance, PTL

\* The row of a batch tells the truth: what is visible was marked before, so that
\* ReconcileAbandonedCompanionDeliveries finds it, and a batch that ended without
\* a failed call left nothing open.
THEOREM TruthfulRow == Spec => []RowTellsTheTruth
<1>1. ASSUME IInv PROVE RowTellsTheTruth
  <2>1. VisibleIsMarked BY <1>1 DEF IInv, VisibleInv, RowInv, Started, Settled, VisibleIsMarked
  <2>2. EndedMeansSettled BY <1>1 DEF IInv, EndInv, Settled, EndedMeansSettled
  <2> QED BY <2>1, <2>2 DEF RowTellsTheTruth
<1> QED BY <1>1, Invariance, PTL

\* A step is quiet once Manager.Cancel latched the slot or returned: no action
\* begins a request on a context that is done, and an acknowledged stop has no
\* worker left that could show anything.
LEMMA QuietStep ==
    ASSUME IInv, Next
    PROVE  /\ slot.cancelled /\ ~At("sending") => w'.pc # "sending" /\ visible' = visible
           /\ stop = "acked" => UNCHANGED seen
<1> USE DEF At
<1>1. w \in Workers BY DEF IInv, TypeOK
<1>2. stop = "acked" => w.pc \in Over BY DEF IInv, SlotInv
<1>3. slot.cancelled /\ w.pc = "segment" => DeliveryDone
  BY DEF IInv, TypeOK, Slots, SlotInv, Delivering, DeliveryDone
<1> USE DEF Moved, Places, Errors, Outcomes, Over
<1>5. CASE OutputUnavailable
  BY <1>1, <1>2, <1>3, <1>5, NoOutputMoves DEF OutputUnavailable, Fault, shared, seen, others
<1>6. CASE SetCompanionControl BY <1>1, <1>2, <1>3, <1>6, GotoMoves DEF SetCompanionControl, others, seen
<1>7. CASE StartTurn
  BY <1>1, <1>2, <1>3, <1>7, GotoMoves DEF StartTurn, Stored, Fault, Calm, shared, seen, others
<1>8. CASE TurnEnds
  BY <1>1, <1>2, <1>3, <1>8, FailedMoves, DeadlineMoves, TextMoves DEF TurnEnds, Claim, others, seen, SegmentsOf
<1>9. CASE TurnTimedOut
  BY <1>1, <1>2, <1>3, <1>9, GotoMoves DEF TurnTimedOut, Stored, Fault, Calm, Open, shared, others
<1>10. CASE MarkStarted
  BY <1>1, <1>2, <1>3, <1>10, FailedMoves, MarkMoves DEF MarkStarted, Stored, Fault, Calm, others, seen
<1>11. CASE Publish BY <1>1, <1>2, <1>3, <1>11, FailedMoves, PublishMoves DEF Publish, others, seen
<1>12. CASE PauseCut BY <1>1, <1>2, <1>3, <1>12, FailedMoves DEF PauseCut, DeliveryDone, shared, seen, others
<1>13. CASE BeginSend
  BY <1>1, <1>2, <1>3, <1>13, GotoMoves, ResultMoves DEF BeginSend, DeliveryDone, shared, seen, others
<1>14. CASE SegmentAnswered
  BY <1>1, <1>2, <1>3, <1>14, ResultMoves DEF SegmentAnswered, Shown, DeliveryDone, shared, others
<1>15. CASE RecordSegment
  BY <1>1, <1>2, <1>3, <1>15, FailedMoves, NextMoves, RetryMoves
      DEF RecordSegment, AfterSegment, Claim, Calm, Fault, others, seen
<1>16. CASE DecideCompletion BY <1>1, <1>2, <1>3, <1>16, GotoMoves DEF DecideCompletion, shared, seen, others
<1>17. CASE CompleteDelivery
  BY <1>1, <1>2, <1>3, <1>17, GotoMoves, FailedMoves
      DEF CompleteDelivery, Stored, DeliveryDone, Started, Claim, Calm, Fault, others, seen
<1>18. CASE CompletePlain
  BY <1>1, <1>2, <1>3, <1>18, GotoMoves
      DEF CompletePlain, Stored, DeliveryDone, Calm, Fault, shared, seen, others
<1>19. CASE SettleMarked
  BY <1>1, <1>2, <1>3, <1>19, GotoMoves DEF SettleMarked, Stored, Started, Calm, Fault, shared, seen, others
<1>20. CASE SettleUnmarked
  BY <1>1, <1>2, <1>3, <1>20, GotoMoves DEF SettleUnmarked, Stored, Open, Calm, Fault, shared, others
<1>21. CASE Finish BY <1>1, <1>2, <1>3, <1>21, GotoMoves DEF Finish, others, seen
<1>22. CASE SubmitControl BY <1>1, <1>2, <1>3, <1>22 DEF SubmitControl, Alive, Interfere, Claim, seen
<1>23. CASE BeginShutdown BY <1>1, <1>2, <1>3, <1>23 DEF BeginShutdown, Alive, Interfere, Claim, seen
<1>24. CASE CancelSlot BY <1>1, <1>2, <1>3, <1>24 DEF CancelSlot, DoneOpen, Alive, Claim, seen
<1>25. CASE CancelReturns BY <1>1, <1>2, <1>3, <1>25 DEF CancelReturns, DoneOpen, Alive, seen
<1>26. CASE Close BY <1>1, <1>2, <1>3, <1>26 DEF Close, seen
<1>27. CASE Crash BY <1>1, <1>2, <1>3, <1>27, GotoMoves DEF Crash, Interfere, seen
<1>28. CASE Restart BY <1>1, <1>2, <1>3, <1>28, GotoMoves DEF Restart, Started, shared, seen, others
<1> QED BY <1>5, <1>6, <1>7, <1>8, <1>9, <1>10, <1>11, <1>12, <1>13, <1>14, <1>15, <1>16, <1>17, <1>18,
        <1>19, <1>20, <1>21, <1>22, <1>23, <1>24, <1>25, <1>26, <1>27, <1>28 DEF Next, Work

\* A stop is quiet, in every step of every behaviour: Manager.Cancel does not
\* return before the batch has shown its last segment and its last notice.
THEOREM QuietStops == Spec => StopsAreQuiet
<1>1. ASSUME IInv, [Next]_vars
      PROVE  [/\ slot.cancelled /\ ~At("sending") => w'.pc # "sending" /\ visible' = visible
              /\ stop = "acked" => UNCHANGED seen]_vars
  BY <1>1, QuietStep
<1> QED BY <1>1, Invariance, PTL DEF Spec, StopsAreQuiet

=============================================================================
