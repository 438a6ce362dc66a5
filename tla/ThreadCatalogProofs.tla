------------------------- MODULE ThreadCatalogProofs -------------------------
(***************************************************************************)
(* Proofs about ThreadCatalog, for every set of threads and every number of *)
(* turns, /new commands, faults and releases.                              *)
(***************************************************************************)
EXTENDS ThreadCatalog, TLAPS

-----------------------------------------------------------------------------
(* The inductive invariant.                                                *)

\* The release and the places of the two goroutines.
PlaceInv ==
    /\ deploys <= MaxDeploys /\ target = deploys + 1
    /\ w.pc \in {"prepare", "archive", "advance"} => w.kind = "ordinary"
    /\ w.pc = "archive" => w.from \in Threads
    /\ w.pc \in {"resume", "turn"} => w.thread \in Threads
    /\ w.pc \in {"publish", "discard"} => w.started \in Threads
    /\ w.upgrade => w.kind = "ordinary" /\ w.pc \in {"start", "publish", "turn", "discard", "error"}
    /\ new.pc # "idle" => new.thread \in Threads

\* Whatever is held somewhere has been handed out by App Server.
Known(p) == p \in Threads => thread[p].life # "none"
KnownInv ==
    /\ Known(group.thread) /\ Known(group.from)
    /\ Known(w.thread) /\ Known(w.from) /\ Known(w.started)
    /\ Known(new.thread)

\* The row of an upgrade moves with the worker that works on it.
RowInv ==
    /\ w.pc \in {"archive", "advance"} => CanAdvance(w.from)
    /\ w.upgrade /\ w.pc \in {"start", "publish", "discard"} => group.state = "start_pending"
    /\ w.kind = "ordinary" /\ ~w.upgrade /\ w.pc \in {"resume", "start", "publish"}
          => group.state = "stable" /\ group.version = target

\* A stable row names a thread of its version, or one that a goal started.
Has(t, version) == t \in Threads => thread[t].tools = version \/ thread[t].goal
CatalogInv ==
    /\ group.state = "stable" => Has(group.thread, group.version)
    /\ w.kind = "ordinary" /\ w.pc \in {"resume", "turn"} => Has(w.thread, target)
    /\ w.pc = "publish" => IF w.kind = "goal" THEN thread[w.started].goal
                                              ELSE thread[w.started].tools = target

\* What a turn may rely on that no call failed in and that no /new crossed.
DisturbInv ==
    /\ w.pc # "idle" /\ ~w.disturbed => new.pc = "idle"
    /\ ~w.disturbed /\ ~w.upgrade /\ w.pc \in {"resume", "start", "publish"} => group.thread = w.thread
    /\ w.pc \in {"discard", "error"} => w.disturbed \/ (group.state = "start_pending" /\ group.target # target)

\* Without a fault somebody answers for every live thread.
Live(p) == p \in Threads /\ thread[p].life = "live"
Owned(t) ==
    \/ t = group.thread
    \/ w.pc \in {"publish", "discard"} /\ t = w.started
    \/ w.pc = "archive" /\ t = w.from
    \/ new.pc = "archive" /\ t = new.thread
LeakInv ==
    faults = 0 =>
        /\ \A t \in Threads : thread[t].life = "live" => Owned(t)
        /\ w.pc \in {"start", "publish"} => ~Live(w.thread)
        /\ w.pc \in {"archive", "advance"} => group.thread \in {w.from, NoThread}
        /\ w.pc = "advance" => ~Live(w.from)
        /\ w.upgrade /\ w.pc \in {"start", "publish"} => group.thread = NoThread
        /\ group.state = "archive_pending" => w.pc \in {"archive", "advance"}
        /\ group.state = "start_pending" => w.upgrade /\ w.pc \in {"start", "publish"}
        /\ group.state # "stable" => group.target = target
ClearInv == new.pc = "clear" => ~Live(new.thread)

IInv ==
    /\ TypeOK /\ PlaceInv /\ KnownInv /\ RowInv /\ CatalogInv /\ DisturbInv /\ ClearInv /\ LeakInv
-----------------------------------------------------------------------------
(* Type correctness, one step of the specification at a time.             *)

\* Every action keeps the variables in their types; the version of the release
\* is bounded by the releases so far.
LEMMA TypeStep ==
    ASSUME TypeOK, PlaceInv, Next
    PROVE  TypeOK'
<1>0. NoThread \in Pointers /\ Threads \subseteq Pointers /\ 0 \in Versions /\ MaxDeploys \in Nat
  BY CatalogAssumption DEF Pointers, Versions
<1> USE <1>0 DEF TypeOK
<1>1. ASSUME NEW kind \in {"ordinary", "goal"}, Submit(kind) PROVE TypeOK'
  <2>1. w' \in Workers BY <1>1 DEF Submit, Idle, Workers
  <2> QED BY <1>1, <2>1 DEF Submit
<1>2. CASE GetChatGroupThread
  <2>1. w' \in Workers BY <1>2 DEF GetChatGroupThread, GroupRows, Workers
  <2> QED BY <1>2, <2>1 DEF GetChatGroupThread, bounds
<1>3. CASE ensureToolCatalog
  <2>1. PreparedGroup \in GroupRows BY DEF PreparedGroup, GroupRows
  <2>2. CASE PreparedGroup.state = "stable"
    <3>1. w' = [w EXCEPT !.thread = group.thread,
                         !.pc = IF group.thread = NoThread THEN "start" ELSE "resume"]
      BY <1>3, <2>2 DEF ensureToolCatalog
    <3> QED BY <1>3, <2>1, <3>1 DEF ensureToolCatalog, bounds, GroupRows, Workers
  <2>3. CASE PreparedGroup.state = "archive_pending"
    <3>1. w' = [w EXCEPT !.from = PreparedGroup.from,
                         !.pc = IF PreparedGroup.from = NoThread THEN "advance" ELSE "archive"]
      BY <1>3, <2>3 DEF ensureToolCatalog
    <3> QED BY <1>3, <2>1, <3>1 DEF ensureToolCatalog, bounds, GroupRows, Workers
  <2>4. CASE PreparedGroup.state = "start_pending"
    <3>1. w' = [w EXCEPT !.thread = NoThread, !.upgrade = TRUE, !.pc = "start"]
      BY <1>3, <2>4 DEF ensureToolCatalog
    <3> QED BY <1>3, <2>1, <3>1 DEF ensureToolCatalog, bounds, GroupRows, Workers
  <2> QED BY <2>1, <2>2, <2>3, <2>4 DEF GroupRows
<1>4. CASE ArchiveOutdated
  BY <1>4 DEF ArchiveOutdated, Archived, WorkerAt, bounds, Workers, ThreadStates
<1>5. CASE AdvanceCatalogUpgradeAfterArchive
  <2>1. w' \in Workers BY <1>5 DEF AdvanceCatalogUpgradeAfterArchive, WorkerAt, Workers
  <2>2. group' \in GroupRows BY <1>5 DEF AdvanceCatalogUpgradeAfterArchive, GroupRows
  <2> QED BY <1>5, <2>1, <2>2 DEF AdvanceCatalogUpgradeAfterArchive, bounds
<1>6. CASE ThreadResume
  BY <1>6 DEF ThreadResume, WorkerAt, bounds, Workers
<1>7. ASSUME NEW t \in Threads, ThreadStart(t) PROVE TypeOK'
  <2>1. w' \in Workers BY <1>7 DEF ThreadStart, Workers
  <2>2. thread' \in [Threads -> ThreadStates] BY <1>7, Zenon DEF ThreadStart, Started, ThreadStates
  <2> QED BY <1>7, <2>1, <2>2 DEF ThreadStart, bounds
<1>8. CASE PublishThread
  <2>1. w' \in Workers BY <1>8 DEF PublishThread, WorkerAt, Workers
  <2>2. Completed(w.started) \in GroupRows BY DEF Completed, GroupRows, Workers
  <2>3. SetThreadIfExpected(w.thread, w.started) => group' \in GroupRows
    BY DEF SetThreadIfExpected, GroupRows, Workers
  <2>4. group' \in GroupRows BY <1>8, <2>2, <2>3 DEF PublishThread
  <2> QED BY <1>8, <2>1, <2>4 DEF PublishThread, bounds
<1>9. CASE DiscardThread
  BY <1>9 DEF DiscardThread, Archived, WorkerAt, bounds, Workers, ThreadStates
<1>10. CASE Return
  BY <1>10 DEF Return, Idle, bounds, Workers
<1>11. CASE WorkerCallFails
  <2>1. w' \in Workers BY <1>11 DEF WorkerCallFails, Workers
  <2>2. ASSUME NEW t \in Unused,
               thread' = Started(t, IF w.kind = "goal" THEN 0 ELSE target, w.kind = "goal")
        PROVE  thread' \in [Threads -> ThreadStates]
    BY <2>2 DEF Started, ThreadStates
  <2>3. Archived(w.from) \in [Threads -> ThreadStates] BY DEF Archived, ThreadStates
  <2>4. thread' \in [Threads -> ThreadStates] BY <1>11, <2>2, <2>3 DEF WorkerCallFails
  <2> QED BY <1>11, <2>1, <2>4 DEF WorkerCallFails
<1>12. CASE NewSession
  <2>1. w' \in Workers BY <1>12 DEF NewSession, Disturb, Workers
  <2>2. new' \in Controls BY <1>12 DEF NewSession, NewIdle, Controls, GroupRows
  <2> QED BY <1>12, <2>1, <2>2 DEF NewSession
<1>13. CASE ArchiveCurrent
  <2>1. w' \in Workers BY <1>13 DEF ArchiveCurrent, Disturb, Workers
  <2> QED BY <1>13, <2>1 DEF ArchiveCurrent, Archived, ThreadStates, Controls, bounds
<1>14. CASE ClearPointer
  <2>1. w' \in Workers BY <1>14 DEF ClearPointer, Disturb, Workers
  <2>2. group' \in GroupRows BY <1>14 DEF ClearPointer, SetThreadIfExpected, GroupRows
  <2> QED BY <1>14, <2>1, <2>2 DEF ClearPointer, NewIdle, Controls, bounds
<1>15. CASE NewCallFails
  <2>1. w' \in Workers BY <1>15 DEF NewCallFails, Disturb, Workers
  <2> QED BY <1>15, <2>1 DEF NewCallFails, Archived, ThreadStates, NewIdle, Controls
<1>16. CASE Crash
  BY <1>16 DEF Crash, Idle, NewIdle, Workers, Controls
<1>17. CASE Deploy
  BY <1>17 DEF Deploy, Versions, PlaceInv
<1> QED BY <1>1, <1>2, <1>3, <1>4, <1>5, <1>6, <1>7, <1>8, <1>9, <1>10, <1>11, <1>12, <1>13, <1>14, <1>15,
           <1>16, <1>17 DEF Next, WorkerStep

-----------------------------------------------------------------------------
(* The other parts, one lemma per action.                                  *)

USE CatalogAssumption DEF TypeOK, GroupRows, ThreadStates, Workers, Controls, Pointers, Versions, bounds

\* A message is handed to the worker.
LEMMA SubmitStep ==
    ASSUME IInv, NEW kind \in {"ordinary", "goal"}, Submit(kind)
    PROVE  IInv'
<1> USE DEF IInv, Submit, Idle
<1>1. TypeOK' BY TypeStep DEF Next, WorkerStep
<1>2. PlaceInv' BY DEF PlaceInv
<1>3. KnownInv' BY DEF KnownInv, Known
<1>4. RowInv' BY DEF RowInv, CanAdvance
<1>5. CatalogInv' BY DEF CatalogInv, Has
<1>6. DisturbInv' BY DEF DisturbInv
<1>7. ClearInv' BY DEF ClearInv, Live
<1>8. LeakInv' BY DEF LeakInv, Live, Owned
<1> QED BY <1>1, <1>2, <1>3, <1>4, <1>5, <1>6, <1>7, <1>8

\* The pointer is read.
LEMMA GetChatGroupThreadStep ==
    ASSUME IInv, GetChatGroupThread
    PROVE  IInv'
<1> USE DEF IInv, GetChatGroupThread
<1>1. TypeOK' BY TypeStep DEF Next, WorkerStep
<1>2. PlaceInv' BY DEF PlaceInv
<1>3. KnownInv' BY DEF KnownInv, Known
<1>4. RowInv' BY DEF PlaceInv, RowInv, CanAdvance
<1>5. CatalogInv' BY DEF CatalogInv, Has
<1>6. DisturbInv' BY DEF DisturbInv
<1>7. ClearInv' BY DEF ClearInv, Live
<1>8. LeakInv' BY DEF LeakInv, Live, Owned
<1> QED BY <1>1, <1>2, <1>3, <1>4, <1>5, <1>6, <1>7, <1>8

\* The upgrade is prepared: a stable row of this release, a stable row of an older
\* one, and the two unfinished upgrades.
LEMMA ensureToolCatalogStep ==
    ASSUME IInv, ensureToolCatalog
    PROVE  IInv'
<1>1. TypeOK' BY TypeStep DEF Next, WorkerStep, IInv
<1>2. w.pc = "prepare" /\ UNCHANGED <<thread, target, new, bounds>> BY DEF ensureToolCatalog
<1> USE DEF IInv
<1>3. CASE group.state = "stable" /\ group.version = target
  <2>1. /\ w' = [w EXCEPT !.thread = group.thread, !.pc = IF group.thread = NoThread THEN "start" ELSE "resume"]
        /\ group' = group
    BY <1>3 DEF ensureToolCatalog, PreparedGroup
  <2> USE <1>2, <1>3, <2>1
  <2>2. PlaceInv' BY DEF PlaceInv
  <2>3. KnownInv' BY DEF KnownInv, Known
  <2>4. RowInv' BY DEF PlaceInv, RowInv, CanAdvance
  <2>5. CatalogInv' BY DEF CatalogInv, Has
  <2>6. DisturbInv' BY DEF DisturbInv
  <2>7. ClearInv' BY DEF ClearInv, Live
  <2>8. LeakInv' BY DEF LeakInv, Live, Owned
  <2> QED BY <1>1, <2>2, <2>3, <2>4, <2>5, <2>6, <2>7, <2>8
<1>4. CASE group.state = "stable" /\ group.version # target
  <2>1. /\ w' = [w EXCEPT !.from = group.thread, !.pc = IF group.thread = NoThread THEN "advance" ELSE "archive"]
        /\ group' = [group EXCEPT !.state = "archive_pending", !.from = group.thread, !.target = target]
    BY <1>4 DEF ensureToolCatalog, PreparedGroup
  <2> USE <1>2, <1>4, <2>1
  <2>2. PlaceInv' BY DEF PlaceInv
  <2>3. KnownInv' BY DEF KnownInv, Known
  <2>4. RowInv' BY DEF RowInv, CanAdvance
  <2>5. CatalogInv' BY DEF CatalogInv, Has
  <2>6. DisturbInv' BY DEF DisturbInv
  <2>7. ClearInv' BY DEF ClearInv, Live
  <2>8. LeakInv' BY DEF LeakInv, Live, Owned
  <2> QED BY <1>1, <2>2, <2>3, <2>4, <2>5, <2>6, <2>7, <2>8
<1>5. CASE group.state = "archive_pending"
  <2>1. /\ w' = [w EXCEPT !.from = group.from, !.pc = IF group.from = NoThread THEN "advance" ELSE "archive"]
        /\ group' = group
    BY <1>5 DEF ensureToolCatalog, PreparedGroup
  <2> USE <1>2, <1>5, <2>1
  <2>2. PlaceInv' BY DEF PlaceInv
  <2>3. KnownInv' BY DEF KnownInv, Known
  <2>4. RowInv' BY DEF RowInv, CanAdvance
  <2>5. CatalogInv' BY DEF CatalogInv, Has
  <2>6. DisturbInv' BY DEF DisturbInv
  <2>7. ClearInv' BY DEF ClearInv, Live
  <2>8. LeakInv' BY DEF LeakInv, Live, Owned
  <2> QED BY <1>1, <2>2, <2>3, <2>4, <2>5, <2>6, <2>7, <2>8
<1>6. CASE group.state = "start_pending"
  <2>1. /\ w' = [w EXCEPT !.thread = NoThread, !.upgrade = TRUE, !.pc = "start"]
        /\ group' = group
    BY <1>6 DEF ensureToolCatalog, PreparedGroup
  <2> USE <1>2, <1>6, <2>1
  <2>2. PlaceInv' BY DEF PlaceInv
  <2>3. KnownInv' BY DEF KnownInv, Known
  <2>4. RowInv' BY DEF RowInv, CanAdvance
  <2>5. CatalogInv' BY DEF CatalogInv, Has
  <2>6. DisturbInv' BY DEF DisturbInv
  <2>7. ClearInv' BY DEF ClearInv, Live
  <2>8. LeakInv' BY DEF LeakInv, Live, Owned
  <2> QED BY <1>1, <2>2, <2>3, <2>4, <2>5, <2>6, <2>7, <2>8
<1> QED BY <1>2, <1>3, <1>4, <1>5, <1>6 DEF ensureToolCatalog, PreparedGroup

\* The outdated thread is archived.
LEMMA ArchiveOutdatedStep ==
    ASSUME IInv, ArchiveOutdated
    PROVE  IInv'
<1> USE DEF IInv, ArchiveOutdated, Archived, WorkerAt
<1>1. TypeOK' BY TypeStep DEF Next, WorkerStep
<1>2. PlaceInv' BY DEF PlaceInv
<1>3. KnownInv' BY DEF KnownInv, Known
<1>4. RowInv' BY DEF RowInv, CanAdvance
<1>5. CatalogInv' BY DEF CatalogInv, Has
<1>6. DisturbInv' BY DEF DisturbInv
<1>7. ClearInv' BY DEF ClearInv, Live
<1>8. LeakInv' BY DEF LeakInv, Live, Owned
<1> QED BY <1>1, <1>2, <1>3, <1>4, <1>5, <1>6, <1>7, <1>8

\* The row moves on to start_pending; by RowInv it can never refuse.
LEMMA AdvanceCatalogUpgradeAfterArchiveStep ==
    ASSUME IInv, AdvanceCatalogUpgradeAfterArchive
    PROVE  IInv'
<1>1. TypeOK' BY TypeStep DEF Next, WorkerStep, IInv
<1>2. w.pc = "advance" /\ UNCHANGED <<thread, target, new, bounds>> BY DEF AdvanceCatalogUpgradeAfterArchive
<1> USE DEF IInv
<1>3. CASE CanAdvance(w.from)
  <2>1. /\ w' = [w EXCEPT !.thread = NoThread, !.upgrade = TRUE, !.pc = "start"]
        /\ group' = [group EXCEPT !.thread = NoThread, !.state = "start_pending"]
    BY <1>3 DEF AdvanceCatalogUpgradeAfterArchive, WorkerAt, RowInv
  <2> USE <1>2, <1>3, <2>1
  <2>2. PlaceInv' BY DEF PlaceInv
  <2>3. KnownInv' BY DEF KnownInv, Known
  <2>4. RowInv' BY DEF RowInv, CanAdvance
  <2>5. CatalogInv' BY DEF CatalogInv, Has
  <2>6. DisturbInv' BY DEF DisturbInv
  <2>7. ClearInv' BY DEF ClearInv, Live
  <2>8. LeakInv' BY DEF RowInv, LeakInv, CanAdvance, Live, Owned
  <2> QED BY <1>1, <2>2, <2>3, <2>4, <2>5, <2>6, <2>7, <2>8
<1> QED BY <1>2, <1>3 DEF AdvanceCatalogUpgradeAfterArchive, WorkerAt, RowInv

\* App Server resumes the thread or not.
LEMMA ThreadResumeStep ==
    ASSUME IInv, ThreadResume
    PROVE  IInv'
<1> USE DEF IInv, ThreadResume, WorkerAt
<1>1. TypeOK' BY TypeStep DEF Next, WorkerStep
<1>2. PlaceInv' BY DEF PlaceInv
<1>3. KnownInv' BY DEF KnownInv, Known
<1>4. RowInv' BY DEF PlaceInv, RowInv, CanAdvance
<1>5. CatalogInv' BY DEF CatalogInv, Has
<1>6. DisturbInv' BY DEF DisturbInv
<1>7. ClearInv' BY DEF ClearInv, Live
<1>8. LeakInv' BY DEF PlaceInv, LeakInv, Live, Owned
<1> QED BY <1>1, <1>2, <1>3, <1>4, <1>5, <1>6, <1>7, <1>8

\* A thread nobody holds is started.
LEMMA ThreadStartStep ==
    ASSUME IInv, NEW t \in Threads, ThreadStart(t)
    PROVE  IInv'
<1> USE DEF IInv, ThreadStart, Unused, Started
<1>1. TypeOK' BY TypeStep DEF Next, WorkerStep
<1>2. PlaceInv' BY DEF PlaceInv
<1>3. KnownInv' BY DEF KnownInv, Known
<1>4. RowInv' BY DEF RowInv, CanAdvance
<1>5. CatalogInv' BY DEF RowInv, CatalogInv, CanAdvance, Has
<1>6. DisturbInv' BY DEF DisturbInv
<1>7. ClearInv' BY DEF PlaceInv, KnownInv, ClearInv, Known, Live
<1>8. LeakInv' BY DEF PlaceInv, KnownInv, LeakInv, Known, Live, Owned
<1> QED BY <1>1, <1>2, <1>3, <1>4, <1>5, <1>6, <1>7, <1>8

\* The upgrade is completed, the pointer is replaced, or the thread is refused.
LEMMA PublishThreadStep ==
    ASSUME IInv, PublishThread
    PROVE  IInv'
<1>1. TypeOK' BY TypeStep DEF Next, WorkerStep, IInv
<1>2. w.pc = "publish" /\ UNCHANGED <<thread, target, new, bounds>> BY DEF PublishThread
<1> USE DEF IInv
<1>3. CASE w.upgrade /\ CanComplete
  <2>1. /\ w' = [w EXCEPT !.thread = w.started, !.pc = "turn"]
        /\ group' = Completed(w.started)
    BY <1>3 DEF PublishThread, CanComplete, Completed, SetThreadIfExpected, WorkerAt
  <2> USE <1>2, <1>3, <2>1 DEF Completed, CanComplete
  <2>2. PlaceInv' BY DEF PlaceInv
  <2>3. KnownInv' BY DEF KnownInv, Known
  <2>4. RowInv' BY DEF RowInv, CanAdvance
  <2>5. CatalogInv' BY DEF CatalogInv, Has
  <2>6. DisturbInv' BY DEF DisturbInv
  <2>7. ClearInv' BY DEF ClearInv, Live
  <2>8. LeakInv' BY DEF LeakInv, Live, Owned
  <2> QED BY <1>1, <2>2, <2>3, <2>4, <2>5, <2>6, <2>7, <2>8
<1>4. CASE ~w.upgrade /\ group.thread = w.thread
  <2>1. /\ w' = [w EXCEPT !.thread = w.started, !.pc = "turn"]
        /\ group' = [group EXCEPT !.thread = w.started]
    BY <1>4 DEF PublishThread, CanComplete, Completed, SetThreadIfExpected, WorkerAt
  <2> USE <1>2, <1>4, <2>1
  <2>2. PlaceInv' BY DEF PlaceInv
  <2>3. KnownInv' BY DEF KnownInv, Known
  <2>4. RowInv' BY DEF RowInv, CanAdvance
  <2>5. CatalogInv' BY DEF RowInv, CatalogInv, CanAdvance, Has
  <2>6. DisturbInv' BY DEF DisturbInv
  <2>7. ClearInv' BY DEF ClearInv, Live
  <2>8. LeakInv' BY DEF LeakInv, Live, Owned
  <2> QED BY <1>1, <2>2, <2>3, <2>4, <2>5, <2>6, <2>7, <2>8
<1>5. CASE IF w.upgrade THEN ~CanComplete ELSE group.thread # w.thread
  <2>1. /\ w' = [w EXCEPT !.pc = "discard"]
        /\ group' = group
    BY <1>5 DEF PublishThread, CanComplete, Completed, SetThreadIfExpected, WorkerAt
  <2> USE <1>2, <1>5, <2>1 DEF CanComplete
  <2>2. PlaceInv' BY DEF PlaceInv
  <2>3. KnownInv' BY DEF KnownInv, Known
  <2>4. RowInv' BY DEF RowInv, CanAdvance
  <2>5. CatalogInv' BY DEF CatalogInv, Has
  <2>6. DisturbInv' BY DEF RowInv, DisturbInv, CanAdvance
  <2>7. ClearInv' BY DEF ClearInv, Live
  <2>8. LeakInv' BY DEF LeakInv, Live, Owned
  <2> QED BY <1>1, <2>2, <2>3, <2>4, <2>5, <2>6, <2>7, <2>8
<1> QED BY <1>2, <1>3, <1>4, <1>5 DEF PublishThread, CanComplete, Completed, SetThreadIfExpected, WorkerAt

\* The refused thread is archived.
LEMMA DiscardThreadStep ==
    ASSUME IInv, DiscardThread
    PROVE  IInv'
<1> USE DEF IInv, DiscardThread, Archived, WorkerAt
<1>1. TypeOK' BY TypeStep DEF Next, WorkerStep
<1>2. PlaceInv' BY DEF PlaceInv
<1>3. KnownInv' BY DEF KnownInv, Known
<1>4. RowInv' BY DEF RowInv, CanAdvance
<1>5. CatalogInv' BY DEF CatalogInv, Has
<1>6. DisturbInv' BY DEF DisturbInv
<1>7. ClearInv' BY DEF ClearInv, Live
<1>8. LeakInv' BY DEF LeakInv, Live, Owned
<1> QED BY <1>1, <1>2, <1>3, <1>4, <1>5, <1>6, <1>7, <1>8

\* The turn ends.
LEMMA ReturnStep ==
    ASSUME IInv, Return
    PROVE  IInv'
<1> USE DEF IInv, Return, Idle
<1>1. TypeOK' BY TypeStep DEF Next, WorkerStep
<1>2. PlaceInv' BY DEF PlaceInv
<1>3. KnownInv' BY DEF KnownInv, Known
<1>4. RowInv' BY DEF RowInv, CanAdvance
<1>5. CatalogInv' BY DEF CatalogInv, Has
<1>6. DisturbInv' BY DEF DisturbInv
<1>7. ClearInv' BY DEF ClearInv, Live
<1>8. LeakInv' BY DEF LeakInv, Live, Owned
<1> QED BY <1>1, <1>2, <1>3, <1>4, <1>5, <1>6, <1>7, <1>8

\* A call of the worker fails, with or without its effect.
LEMMA WorkerCallFailsStep ==
    ASSUME IInv, WorkerCallFails
    PROVE  IInv'
<1> USE DEF IInv, WorkerCallFails, Archived, Started, Unused
<1>1. TypeOK' BY TypeStep DEF Next, WorkerStep
<1>2. PlaceInv' BY DEF PlaceInv
<1>3. KnownInv'
  <2>1. \A u \in Threads : thread[u].life # "none" => thread'[u].life # "none" OBVIOUS
  <2>2. /\ w'.thread = w.thread /\ w'.from = w.from /\ w'.started = w.started
        /\ group' = group /\ new' = new
    OBVIOUS
  <2> QED BY <2>1, <2>2 DEF KnownInv, Known
<1>4. RowInv' BY DEF PlaceInv, RowInv, CanAdvance
<1>5. CatalogInv' BY DEF PlaceInv, KnownInv, CatalogInv, Known, Has
<1>6. DisturbInv' BY DEF DisturbInv
<1>7. ClearInv' BY DEF PlaceInv, KnownInv, ClearInv, Known, Live
<1>8. LeakInv' BY DEF LeakInv, Live, Owned
<1> QED BY <1>1, <1>2, <1>3, <1>4, <1>5, <1>6, <1>7, <1>8

\* /new reads the pointer.
LEMMA NewSessionStep ==
    ASSUME IInv, NewSession
    PROVE  IInv'
<1> USE DEF IInv, NewSession, NewIdle, Disturb
<1>1. TypeOK' BY TypeStep DEF Next, WorkerStep
<1>2. PlaceInv' BY DEF PlaceInv
<1>3. KnownInv' BY DEF KnownInv, Known
<1>4. RowInv' BY DEF RowInv, CanAdvance
<1>5. CatalogInv' BY DEF CatalogInv, Has
<1>6. DisturbInv' BY DEF DisturbInv
<1>7. ClearInv' BY DEF ClearInv, Live
<1>8. LeakInv' BY DEF LeakInv, Live, Owned
<1> QED BY <1>1, <1>2, <1>3, <1>4, <1>5, <1>6, <1>7, <1>8

\* /new archives what it read.
LEMMA ArchiveCurrentStep ==
    ASSUME IInv, ArchiveCurrent
    PROVE  IInv'
<1> USE DEF IInv, ArchiveCurrent, Archived, Disturb
<1>1. TypeOK' BY TypeStep DEF Next, WorkerStep
<1>2. PlaceInv' BY DEF PlaceInv
<1>3. KnownInv' BY DEF KnownInv, Known
<1>4. RowInv' BY DEF RowInv, CanAdvance
<1>5. CatalogInv' BY DEF CatalogInv, Has
<1>6. DisturbInv' BY DEF DisturbInv
<1>7. ClearInv' BY DEF ClearInv, Live
<1>8. LeakInv' BY DEF LeakInv, Live, Owned
<1> QED BY <1>1, <1>2, <1>3, <1>4, <1>5, <1>6, <1>7, <1>8

\* /new clears the pointer if it still names that thread.
LEMMA ClearPointerStep ==
    ASSUME IInv, ClearPointer
    PROVE  IInv'
<1> USE DEF IInv, ClearPointer, SetThreadIfExpected, NewIdle, Disturb
<1>1. TypeOK' BY TypeStep DEF Next, WorkerStep
<1>2. PlaceInv' BY DEF PlaceInv
<1>3. KnownInv' BY DEF KnownInv, Known
<1>4. RowInv' BY DEF RowInv, CanAdvance
<1>5. CatalogInv' BY DEF CatalogInv, Has
<1>6. DisturbInv' BY DEF DisturbInv
<1>7. ClearInv' BY DEF ClearInv, Live
<1>8. LeakInv' BY DEF PlaceInv, KnownInv, RowInv, ClearInv, LeakInv, Known, CanAdvance, Live, Owned
<1> QED BY <1>1, <1>2, <1>3, <1>4, <1>5, <1>6, <1>7, <1>8

\* A call of /new fails, with or without its effect.
LEMMA NewCallFailsStep ==
    ASSUME IInv, NewCallFails
    PROVE  IInv'
<1> USE DEF IInv, NewCallFails, Archived, NewIdle, Disturb
<1>1. TypeOK' BY TypeStep DEF Next, WorkerStep
<1>2. PlaceInv' BY DEF PlaceInv
<1>3. KnownInv' BY DEF KnownInv, Known
<1>4. RowInv' BY DEF RowInv, CanAdvance
<1>5. CatalogInv' BY DEF PlaceInv, CatalogInv, Has
<1>6. DisturbInv' BY DEF DisturbInv
<1>7. ClearInv' BY DEF ClearInv, Live
<1>8. LeakInv' BY DEF LeakInv, Live, Owned
<1> QED BY <1>1, <1>2, <1>3, <1>4, <1>5, <1>6, <1>7, <1>8

\* The process dies.
LEMMA CrashStep ==
    ASSUME IInv, Crash
    PROVE  IInv'
<1> USE DEF IInv, Crash, Quiet, Idle, NewIdle
<1>1. TypeOK' BY TypeStep DEF Next, WorkerStep
<1>2. PlaceInv' BY DEF PlaceInv
<1>3. KnownInv' BY DEF KnownInv, Known
<1>4. RowInv' BY DEF RowInv, CanAdvance
<1>5. CatalogInv' BY DEF CatalogInv, Has
<1>6. DisturbInv' BY DEF DisturbInv
<1>7. ClearInv' BY DEF ClearInv, Live
<1>8. LeakInv' BY DEF LeakInv, Live, Owned
<1> QED BY <1>1, <1>2, <1>3, <1>4, <1>5, <1>6, <1>7, <1>8

\* A newer release takes over an idle group.
LEMMA DeployStep ==
    ASSUME IInv, Deploy
    PROVE  IInv'
<1> USE DEF IInv, Deploy, Quiet
<1>1. TypeOK' BY TypeStep DEF Next, WorkerStep
<1>2. PlaceInv' BY DEF PlaceInv
<1>3. KnownInv' BY DEF KnownInv, Known
<1>4. RowInv' BY DEF RowInv, CanAdvance
<1>5. CatalogInv' BY DEF CatalogInv, Has
<1>6. DisturbInv' BY DEF DisturbInv
<1>7. ClearInv' BY DEF ClearInv, Live
<1>8. LeakInv' BY DEF LeakInv, Live, Owned
<1> QED BY <1>1, <1>2, <1>3, <1>4, <1>5, <1>6, <1>7, <1>8
-----------------------------------------------------------------------------
(* The theorems.                                                           *)

\* Every initial state satisfies the inductive invariant.
LEMMA InitInv == Init => IInv
<1> SUFFICES ASSUME Init PROVE IInv OBVIOUS
<1> USE DEF Init, Idle, NewIdle
<1>1. PICK t \in Pointers :
          /\ group = [thread |-> t, version |-> 0, state |-> "stable", from |-> NoThread, target |-> 0]
          /\ thread = [u \in Threads |-> [life |-> IF u = t THEN "live" ELSE "none",
                                          tools |-> 0, goal |-> FALSE]]
  OBVIOUS
<1>2. TypeOK BY <1>1
<1>3. PlaceInv BY DEF PlaceInv
<1>4. KnownInv BY <1>1 DEF KnownInv, Known
<1>5. RowInv BY DEF RowInv
<1>6. CatalogInv BY <1>1 DEF CatalogInv, Has
<1>7. DisturbInv BY DEF DisturbInv
<1>8. ClearInv BY DEF ClearInv
<1>9. LeakInv BY <1>1 DEF LeakInv, Owned
<1> QED BY <1>2, <1>3, <1>4, <1>5, <1>6, <1>7, <1>8, <1>9 DEF IInv

\* Every step keeps it.
LEMMA NextInv == IInv /\ [Next]_vars => IInv'
<1> SUFFICES ASSUME IInv, [Next]_vars PROVE IInv' OBVIOUS
<1>1. CASE Next
  BY <1>1, SubmitStep, GetChatGroupThreadStep, ensureToolCatalogStep, ArchiveOutdatedStep,
     AdvanceCatalogUpgradeAfterArchiveStep, ThreadResumeStep, ThreadStartStep, PublishThreadStep,
     DiscardThreadStep, ReturnStep, WorkerCallFailsStep, NewSessionStep, ArchiveCurrentStep,
     ClearPointerStep, NewCallFailsStep, CrashStep, DeployStep
     DEF Next, WorkerStep
<1>2. CASE UNCHANGED vars
  BY <1>2 DEF vars, IInv, PlaceInv, KnownInv, Known, RowInv, CanAdvance, CatalogInv, Has, DisturbInv,
              ClearInv, Live, LeakInv, Owned
<1> QED BY <1>1, <1>2

\* The inductive invariant holds in every reachable state.
THEOREM Inductive == Spec => []IInv
BY InitInv, NextInv, PTL DEF Spec

\* The row, the threads and the two goroutines keep their types.
THEOREM TypeCorrect == Spec => []TypeOK
<1>1. IInv => TypeOK BY DEF IInv
<1> QED BY Inductive, <1>1, PTL

\* An ordinary turn never runs on a thread with the tools of an older release,
\* wherever ensureToolCatalog was cut off, unless a goal started that thread.
THEOREM ObsoleteTurns == Spec => []NoObsoleteTurn
<1>1. IInv => NoObsoleteTurn BY DEF IInv, PlaceInv, CatalogInv, Has, NoObsoleteTurn
<1> QED BY Inductive, <1>1, PTL

\* Without a fault, the turns, upgrades and /new commands leave no thread alive
\* but the one the row names, however they cross.
THEOREM ThreadLeak == Spec => []NoThreadLeak
<1>1. IInv => NoThreadLeak BY DEF IInv, LeakInv, Owned, NoThreadLeak, Quiet
<1> QED BY Inductive, <1>1, PTL

\* A turn in which no call fails and that no /new crosses gets its thread, but
\* for a start_pending row that an older release left.
THEOREM UndisturbedTurns == Spec => []UndisturbedTurnsStart
<1>1. IInv => UndisturbedTurnsStart BY DEF IInv, DisturbInv, UndisturbedTurnsStart
<1> QED BY Inductive, <1>1, PTL
=============================================================================
