---------------------------- MODULE ThreadCatalog ----------------------------
(***************************************************************************)
(* The App Server thread of one chat group: which thread its row names,     *)
(* which dynamic tools that thread was started with, and the upgrade of the *)
(* tool catalog, which spans the row and two calls of the App Server.       *)
(*                                                                         *)
(* Two goroutines work on the row: the channel worker (Process with        *)
(* ensureToolCatalog, processGoal) and the control that runs NewSession.   *)
(* They can overlap (see ChannelWorker: NoTurnDuringControl).  One database *)
(* statement or one call of the App Server is one action; any of them may   *)
(* fail, the answer of a call may be lost after its effect, and the process *)
(* may die between any two.  A thread keeps the tools it was started with. *)
(***************************************************************************)
EXTENDS Naturals, FiniteSets

CONSTANTS
    Threads,        \* identities App Server hands out
    NoThread,       \* codex_thread_id IS NULL
    Goals           \* may the conversation contain /goal?

\* Bounds that only keep the instance finite.
CONSTANTS
    MaxTurns,       \* turns submitted
    MaxNews,        \* /new commands
    MaxFaults,      \* crashes, failed calls and lost answers together
    MaxDeploys      \* releases with a newer catalog

ASSUME CatalogAssumption ==
    /\ NoThread \notin Threads /\ Threads # {}
    /\ Goals \in BOOLEAN
    /\ MaxTurns \in Nat /\ MaxNews \in Nat /\ MaxFaults \in Nat /\ MaxDeploys \in Nat

VARIABLES
    group,      \* the row of chat_groups
    thread,     \* what App Server keeps of each thread
    target,     \* targetToolCatalogVersion of the running release
    w,          \* the worker's Process or processGoal
    new,        \* the control's NewSession
    turns, news, faults, deploys

vars == <<group, thread, target, w, new, turns, news, faults, deploys>>
bounds == <<turns, news, faults, deploys>>
-----------------------------------------------------------------------------
\* The catalog of version 0 is FeishuDynamicTools.
Versions == 0 .. MaxDeploys + 1
Pointers == Threads \cup {NoThread}

Idle == [pc |-> "idle", kind |-> "ordinary", thread |-> NoThread, from |-> NoThread,
         upgrade |-> FALSE, started |-> NoThread, disturbed |-> FALSE]
NewIdle == [pc |-> "idle", thread |-> NoThread]

Quiet == w.pc = "idle" /\ new.pc = "idle"
Unused == {t \in Threads : thread[t].life = "none"}

\* A chat group that used the previous release, with or without a thread.
Init ==
    /\ \E t \in Pointers :
          /\ group = [thread |-> t, version |-> 0, state |-> "stable", from |-> NoThread, target |-> 0]
          /\ thread = [u \in Threads |-> [life |-> IF u = t THEN "live" ELSE "none",
                                          tools |-> 0, goal |-> FALSE]]
    /\ target = 1
    /\ w = Idle /\ new = NewIdle
    /\ turns = 0 /\ news = 0 /\ faults = 0 /\ deploys = 0

\* The worker goes on; an error is returned to the channel worker.
WorkerAt(p) == w' = [w EXCEPT !.pc = p]
-----------------------------------------------------------------------------
(* storage: every operator is one statement or transaction.                *)

\* PrepareCatalogUpgrade: an unfinished upgrade is returned as it is stored.
PreparedGroup ==
    IF group.state # "stable" \/ group.version = target THEN group
    ELSE [group EXCEPT !.state = "archive_pending", !.from = group.thread, !.target = target]

\* Mutant of CanAdvance: the pointer is compared, not the recorded source.
CanAdvanceCurrent(from) == group.state = "archive_pending" /\ group.thread = from

CanAdvance(from) == group.state = "archive_pending" /\ group.from = from
CanComplete == group.state = "start_pending" /\ group.target = target

Completed(t) ==
    [group EXCEPT !.thread = t, !.version = target, !.state = "stable", !.from = NoThread, !.target = 0]

\* The update changes one row; the upgrade columns are not looked at.
SetThreadIfExpected(expected, replacement) ==
    /\ group.thread = expected
    /\ group' = [group EXCEPT !.thread = replacement]
-----------------------------------------------------------------------------
(* App Server.                                                             *)

Archived(t) == [thread EXCEPT ![t].life = "archived"]
Started(t, tools, goal) == [thread EXCEPT ![t] = [life |-> "live", tools |-> tools, goal |-> goal]]
-----------------------------------------------------------------------------
(* Processor.Process and processGoal.                                      *)

Submit(kind) ==
    /\ w.pc = "idle" /\ turns < MaxTurns
    /\ kind = "goal" => Goals
    /\ w' = [Idle EXCEPT !.pc = "read", !.kind = kind, !.disturbed = new.pc # "idle"]
    /\ turns' = turns + 1
    /\ UNCHANGED <<group, thread, target, new, news, faults, deploys>>

\* The pointer of an ordinary turn is read again by ensureToolCatalog.
GetChatGroupThread ==
    /\ w.pc = "read"
    /\ w' = [w EXCEPT !.thread = group.thread,
                      !.pc = IF w.kind = "ordinary" THEN "prepare"
                             ELSE IF group.thread # NoThread THEN "resume" ELSE "start"]
    /\ UNCHANGED <<group, thread, target, new, bounds>>

\* Mutant of ensureToolCatalog: a start_pending row is treated like a stable one.
ensureToolCatalogResumes ==
    /\ w.pc = "prepare"
    /\ group' = PreparedGroup
    /\ w' = CASE PreparedGroup.state = "archive_pending" ->
                   [w EXCEPT !.from = PreparedGroup.from,
                             !.pc = IF PreparedGroup.from = NoThread THEN "advance" ELSE "archive"]
              [] OTHER ->
                   [w EXCEPT !.thread = group.thread,
                             !.pc = IF group.thread = NoThread THEN "start" ELSE "resume"]
    /\ UNCHANGED <<thread, target, new, bounds>>

ensureToolCatalog ==
    /\ w.pc = "prepare"
    /\ group' = PreparedGroup
    /\ w' = CASE PreparedGroup.state = "stable" ->
                   [w EXCEPT !.thread = group.thread,
                             !.pc = IF group.thread = NoThread THEN "start" ELSE "resume"]
              [] PreparedGroup.state = "archive_pending" ->
                   [w EXCEPT !.from = PreparedGroup.from,
                             !.pc = IF PreparedGroup.from = NoThread THEN "advance" ELSE "archive"]
              [] OTHER ->
                   [w EXCEPT !.thread = NoThread, !.upgrade = TRUE, !.pc = "start"]
    /\ UNCHANGED <<thread, target, new, bounds>>

\* thread/archive is retryable: an archived thread is archived again.
ArchiveOutdated ==
    /\ w.pc = "archive"
    /\ thread' = Archived(w.from)
    /\ WorkerAt("advance")
    /\ UNCHANGED <<group, target, new, bounds>>

AdvanceCatalogUpgradeAfterArchive ==
    /\ w.pc = "advance"
    /\ \/ /\ CanAdvance(w.from)
          /\ group' = [group EXCEPT !.thread = NoThread, !.state = "start_pending"]
          /\ w' = [w EXCEPT !.thread = NoThread, !.upgrade = TRUE, !.pc = "start"]
       \/ ~CanAdvance(w.from) /\ WorkerAt("error") /\ UNCHANGED group
    /\ UNCHANGED <<thread, target, new, bounds>>

\* App Server resumes what is not archived; otherwise a new thread is started.
ThreadResume ==
    /\ w.pc = "resume"
    /\ WorkerAt(IF thread[w.thread].life = "live" THEN "turn" ELSE "start")
    /\ UNCHANGED <<group, thread, target, new, bounds>>

\* A goal passes FeishuDynamicTools, an ordinary turn dynamicTools().
ThreadStart(t) ==
    /\ w.pc = "start" /\ t \in Unused
    /\ thread' = Started(t, IF w.kind = "goal" THEN 0 ELSE target, w.kind = "goal")
    /\ w' = [w EXCEPT !.started = t, !.pc = "publish"]
    /\ UNCHANGED <<group, target, new, bounds>>

PublishThread ==
    /\ w.pc = "publish"
    /\ \/ /\ IF w.upgrade THEN CanComplete /\ group' = Completed(w.started)
                          ELSE SetThreadIfExpected(w.thread, w.started)
          /\ w' = [w EXCEPT !.thread = w.started, !.pc = "turn"]
       \/ /\ IF w.upgrade THEN ~CanComplete ELSE group.thread # w.thread
          /\ WorkerAt("discard")
          /\ UNCHANGED group
    /\ UNCHANGED <<thread, target, new, bounds>>

\* Mutant of DiscardThread: the thread nobody will use is left alone.
DiscardNothing ==
    /\ w.pc = "discard"
    /\ WorkerAt("error")
    /\ UNCHANGED <<group, thread, target, new, bounds>>

DiscardThread ==
    /\ w.pc = "discard"
    /\ thread' = Archived(w.started)
    /\ WorkerAt("error")
    /\ UNCHANGED <<group, target, new, bounds>>

\* startTurn or startGoal returns; an error is reported by the channel worker.
Return ==
    /\ w.pc \in {"turn", "error"}
    /\ w' = Idle
    /\ UNCHANGED <<group, thread, target, new, bounds>>

\* A statement or a call returns an error.  An archive or a start may have
\* happened all the same; a failed resume is answered by a start, a failed
\* archive of a discarded thread is ignored.
WorkerCallFails ==
    /\ w.pc \in {"read", "prepare", "archive", "advance", "resume", "start", "publish", "discard"}
    /\ faults < MaxFaults /\ faults' = faults + 1
    /\ w' = [w EXCEPT !.pc = IF @ = "resume" THEN "start" ELSE "error", !.disturbed = TRUE]
    /\ \/ UNCHANGED thread
       \/ w.pc = "archive" /\ thread' = Archived(w.from)
       \/ w.pc = "start" /\ \E t \in Unused :
             thread' = Started(t, IF w.kind = "goal" THEN 0 ELSE target, w.kind = "goal")
    /\ UNCHANGED <<group, target, new, turns, news, deploys>>
-----------------------------------------------------------------------------
(* Processor.NewSession.                                                   *)

Disturb == w' = [w EXCEPT !.disturbed = w.pc # "idle"]

NewSession ==
    /\ new.pc = "idle" /\ news < MaxNews
    /\ news' = news + 1
    /\ new' = IF group.thread = NoThread THEN NewIdle ELSE [pc |-> "archive", thread |-> group.thread]
    /\ Disturb
    /\ UNCHANGED <<group, thread, target, turns, faults, deploys>>

ArchiveCurrent ==
    /\ new.pc = "archive"
    /\ thread' = Archived(new.thread)
    /\ new' = [new EXCEPT !.pc = "clear"]
    /\ Disturb
    /\ UNCHANGED <<group, target, bounds>>

ClearPointer ==
    /\ new.pc = "clear"
    /\ \/ SetThreadIfExpected(new.thread, NoThread)
       \/ group.thread # new.thread /\ UNCHANGED group
    /\ new' = NewIdle
    /\ Disturb
    /\ UNCHANGED <<thread, target, bounds>>

NewCallFails ==
    /\ new.pc # "idle"
    /\ faults < MaxFaults /\ faults' = faults + 1
    /\ \/ UNCHANGED thread
       \/ new.pc = "archive" /\ thread' = Archived(new.thread)
    /\ new' = NewIdle
    /\ Disturb
    /\ UNCHANGED <<group, target, turns, news, deploys>>
-----------------------------------------------------------------------------
Crash ==
    /\ ~Quiet /\ faults < MaxFaults
    /\ faults' = faults + 1
    /\ w' = Idle /\ new' = NewIdle
    /\ UNCHANGED <<group, thread, target, turns, news, deploys>>

\* A release with a newer catalog replaces an idle process.
Deploy ==
    /\ Quiet /\ deploys < MaxDeploys
    /\ deploys' = deploys + 1
    /\ target' = target + 1
    /\ UNCHANGED <<group, thread, w, new, turns, news, faults>>

WorkerStep ==
    \/ GetChatGroupThread \/ ensureToolCatalog \/ ArchiveOutdated
    \/ AdvanceCatalogUpgradeAfterArchive \/ ThreadResume
    \/ (\E t \in Threads : ThreadStart(t)) \/ PublishThread \/ DiscardThread \/ Return

Next ==
    \/ \E kind \in {"ordinary", "goal"} : Submit(kind)
    \/ WorkerStep \/ WorkerCallFails
    \/ NewSession \/ ArchiveCurrent \/ ClearPointer \/ NewCallFails
    \/ Crash \/ Deploy

Spec == Init /\ [][Next]_vars
-----------------------------------------------------------------------------
GroupRows ==
    [thread : Pointers, version : Versions, state : {"stable", "archive_pending", "start_pending"},
     from : Pointers, target : Versions]
ThreadStates == [life : {"none", "live", "archived"}, tools : Versions, goal : BOOLEAN]
Workers ==
    [pc : {"idle", "read", "prepare", "archive", "advance", "resume", "start", "publish",
           "turn", "discard", "error"},
     kind : {"ordinary", "goal"}, thread : Pointers, from : Pointers, upgrade : BOOLEAN,
     started : Pointers, disturbed : BOOLEAN]
Controls == [pc : {"idle", "archive", "clear"}, thread : Pointers]

\* Type invariant: the columns of chat_groups and the two goroutines' places.
TypeOK ==
    /\ group \in GroupRows /\ thread \in [Threads -> ThreadStates] /\ target \in Versions
    /\ w \in Workers /\ new \in Controls
    /\ turns \in Nat /\ news \in Nat /\ faults \in Nat /\ deploys \in Nat

\* An ordinary turn never runs on a thread of an obsolete catalog, wherever an
\* earlier upgrade was cut off and whatever release the row was written by.
\* Threads that a goal started are the exception: see TurnsHaveFullCatalog.
NoObsoleteTurn ==
    w.pc = "turn" /\ w.kind = "ordinary"
    => thread[w.thread].tools = target \/ thread[w.thread].goal

\* Without failures no thread is left behind: whenever the conversation rests,
\* every thread but the one the row names has been archived, although /new, the
\* upgrade and a turn that starts a thread may have overlapped.
NoThreadLeak ==
    Quiet /\ faults = 0 => \A t \in Threads : thread[t].life = "live" => t = group.thread

\* A row can always be recovered: a turn in which no call failed and which no
\* /new crossed gets its thread, whatever an earlier crash or error left behind.
\* A start_pending row of an older release is the exception: see UpgradeRecovers.
UndisturbedTurnsStart ==
    w.pc = "error" => w.disturbed \/ (group.state = "start_pending" /\ group.target # target)
-----------------------------------------------------------------------------
(* What documents say and the code does not do.                            *)

\* "thread/resume always retains the full catalog": after /new, a goal starts
\* a thread with FeishuDynamicTools in a row that says stable and target, and the
\* next ordinary message resumes it.
TurnsHaveFullCatalog ==
    w.pc = "turn" /\ w.kind = "ordinary" => thread[w.thread].tools = target

\* "A worker can therefore resume safely after a crash": Prepare returns an
\* unfinished upgrade with the target of the release that began it, while
\* CompleteCatalogUpgrade wants the target of this one, so that every ordinary
\* turn starts a thread, throws it away and fails.
UpgradeRecovers == w.pc = "error" => w.disturbed
=============================================================================
