----------------------------- MODULE Attachments -----------------------------
(***************************************************************************)
(* The files a user sends along with a message: the rows of the attachments *)
(* table and the files on disk.                                             *)
(*                                                                         *)
(* Three parties touch them: Service.Prepare, on the goroutine of the turn  *)
(* that needs the files; Cleaner.Run, at start-up and every hour; and       *)
(* start-up, which gives up what an earlier process left unfinished.  Rows  *)
(* and files change in separate steps, and the process may die in between.  *)
(* The lease of a row is NULL whenever the cleaner could read it, so it is  *)
(* left out; a retention deadline is absent, to come, or past.              *)
(***************************************************************************)
EXTENDS Naturals, Sequences, FiniteSets, SequencesExt

CONSTANT Files          \* attachments, by their identifiers

\* Bounds that only keep the instance finite.
CONSTANTS
    MaxFaults,          \* failing calls of the database, the file system or Feishu
    MaxCrashes

ASSUME AttachmentsAssumption == IsFiniteSet(Files) /\ MaxFaults \in Nat /\ MaxCrashes \in Nat

VARIABLES
    att,            \* rows of attachments
    disk,           \* the file of each attachment
    prep,           \* Service.Prepare of the running turn
    ctxDone,        \* the context of that turn was cancelled
    cleaner,        \* Cleaner.Run
    life,           \* down, starting, or up
    faults, crashes

attVars == <<att, disk, prep, ctxDone, cleaner, life, faults, crashes>>
-----------------------------------------------------------------------------
NoPrep == [pc |-> "idle", left |-> <<>>]
NoRun == [pc |-> "idle", todo |-> {}, was |-> <<>>, f |-> {}]

AttInit ==
    /\ att = [f \in Files |-> [state |-> "none", due |-> "none", path |-> FALSE]]
    /\ disk = [f \in Files |-> "none"]
    /\ prep = NoPrep /\ ctxDone = FALSE
    /\ cleaner = NoRun /\ life = "up"
    /\ faults = 0 /\ crashes = 0

Fault == faults < MaxFaults /\ faults' = faults + 1
NoFault == UNCHANGED faults

\* A statement on the rows: done, done although its answer is lost, or not done,
\* which is certain and costs nothing when its context is over.
Stored(over, done, next, failed) ==
    \/ ~over /\ done /\ next /\ NoFault
    \/ ~over /\ Fault /\ done /\ failed
    \/ (IF over THEN NoFault ELSE Fault) /\ UNCHANGED att /\ failed

Set(f, s, d) == att' = [att EXCEPT ![f].state = s, ![f].due = d]
-----------------------------------------------------------------------------
(* Service.Prepare and Processor.Materialize.                              *)

Current == Head(prep.left)
Step(p) == prep' = [prep EXCEPT !.pc = p]
byPrepare == <<ctxDone, cleaner, life, crashes>>

\* GetAttachmentForWorker and ClaimAttachment.
ClaimAttachment ==
    /\ prep.pc = "load"
    /\ IF att[Current].state = "staged"
       THEN Stored(ctxDone, Set(Current, "processing", att[Current].due), Step("open"), Step("error"))
       ELSE Step("error") /\ UNCHANGED <<att, faults>>
    /\ UNCHANGED <<disk, byPrepare>>

\* ReferenceProtector.Open
OpenReference ==
    /\ prep.pc = "open"
    /\ (Step("download") /\ NoFault) \/ (Step("fail") /\ Fault)
    /\ UNCHANGED <<att, disk, byPrepare>>

\* Download and the creation of the part file.
Download ==
    /\ prep.pc = "download"
    /\ \/ ~ctxDone /\ Step("part") /\ disk' = [disk EXCEPT ![Current] = "part"] /\ NoFault
       \/ (IF ctxDone THEN NoFault ELSE Fault) /\ Step("fail") /\ UNCHANGED disk
    /\ UNCHANGED <<att, byPrepare>>

\* The stream, the size and image checks, and the rename that publishes the file.
\* On every error (a file that is empty, too large or no image is an ordinary one)
\* the part file is removed on the way out.
Materialize ==
    /\ prep.pc = "part"
    /\ \/ Step("payload") /\ disk' = [disk EXCEPT ![Current] = "payload"] /\ NoFault
       \/ Step("fail") /\ disk' = [disk EXCEPT ![Current] = "none"] /\ NoFault
    /\ UNCHANGED <<att, byPrepare>>

Prepared == prep' = [prep EXCEPT !.left = Tail(@), !.pc = IF Len(prep.left) = 1 THEN "ok" ELSE "load"]

\* The file is there; its row says so only when this succeeds.
CompleteAttachment ==
    /\ prep.pc = "payload"
    /\ Stored(ctxDone, att' = [att EXCEPT ![Current] = [state |-> "ready", due |-> "future", path |-> TRUE]],
              Prepared, Step("error"))
    /\ UNCHANGED <<disk, byPrepare>>

\* Its error is ignored: with a cancelled context the row stays processing.
FailAttachment ==
    /\ prep.pc = "fail"
    /\ Stored(ctxDone, Set(Current, "failed", "future"), Step("error"), Step("error"))
    /\ UNCHANGED <<disk, byPrepare>>

Prepare ==
    \/ ClaimAttachment \/ OpenReference \/ Download \/ Materialize \/ CompleteAttachment \/ FailAttachment
-----------------------------------------------------------------------------
(* Cleaner.Run.                                                            *)

byCleaner == <<prep, ctxDone, crashes>>
Clean(p) == cleaner' = [cleaner EXCEPT !.pc = p] /\ UNCHANGED life

\* A run that fails is over; the one of start-up ends the process.
RunFails == cleaner' = NoRun /\ life' = IF life = "starting" THEN "down" ELSE life
RunEnds == cleaner' = NoRun /\ life' = "up"

Expired(f) == att[f].state \in {"ready", "failed"} /\ att[f].due = "past"

\* ListExpiredAttachments
ListExpired ==
    /\ (life = "up" /\ cleaner.pc = "idle") \/ cleaner.pc = "list"
    /\ \E f \in Files : Expired(f)
    /\ \/ /\ cleaner' = [pc |-> "next", todo |-> {f \in Files : Expired(f)}, was |-> att, f |-> {}]
          /\ NoFault /\ UNCHANGED life
       \/ Fault /\ RunFails
    /\ UNCHANGED <<att, disk, byCleaner>>

\* Nothing is left of the list.
EndRun ==
    /\ \/ cleaner.pc = "next" /\ cleaner.todo = {}
       \/ cleaner.pc = "list" /\ ~\E f \in Files : Expired(f)
    /\ RunEnds
    /\ UNCHANGED <<att, disk, byCleaner, faults>>

\* ClaimAttachmentDeletion, again under the conditions of the list.
ClaimDeletion ==
    /\ cleaner.pc = "next"
    /\ \E f \in cleaner.todo :
          LET taken == [cleaner EXCEPT !.todo = @ \ {f}, !.f = {f}]
          IN  IF Expired(f)
              THEN Stored(FALSE, Set(f, "deleting", "past"),
                          cleaner' = [taken EXCEPT !.pc = "remove"] /\ UNCHANGED life, RunFails)
              ELSE cleaner' = taken /\ UNCHANGED <<att, faults, life>>
    /\ UNCHANGED <<disk, byCleaner>>

Taken == CHOOSE f \in cleaner.f : TRUE

\* remove: of a row without a path there is nothing to remove.
RemoveFile ==
    /\ cleaner.pc = "remove"
    /\ \/ ~cleaner.was[Taken].path /\ Clean("complete") /\ UNCHANGED <<disk, faults>>
       \/ cleaner.was[Taken].path /\ Clean("complete") /\ disk' = [disk EXCEPT ![Taken] = "none"] /\ NoFault
       \/ /\ cleaner.was[Taken].path /\ Fault /\ Clean("restore")
          /\ disk' \in {disk, [disk EXCEPT ![Taken] = "none"]}
    /\ UNCHANGED <<att, byCleaner>>

\* Mutant of CompleteDeletion: the row is closed before its file is removed.
CompleteDeletionFirst ==
    /\ cleaner.pc = "remove"
    /\ Stored(FALSE, Set(Taken, "deleted", "past"), Clean("next"), RunFails)
    /\ UNCHANGED <<disk, byCleaner>>

\* CompleteAttachmentDeletion
CompleteDeletion ==
    /\ cleaner.pc = "complete"
    /\ Stored(FALSE, Set(Taken, "deleted", "past"), Clean("next"), RunFails)
    /\ UNCHANGED <<disk, byCleaner>>

\* RestoreAttachmentDeletion, to the state the list showed.
RestoreDeletion ==
    /\ cleaner.pc = "restore"
    /\ Stored(FALSE, Set(Taken, cleaner.was[Taken].state, "past"), Clean("next"), RunFails)
    /\ UNCHANGED <<disk, byCleaner>>

CleanerRun == ListExpired \/ EndRun \/ ClaimDeletion \/ RemoveFile \/ CompleteDeletion \/ RestoreDeletion

\* Days go by.
Expire ==
    /\ \E f \in Files : att[f].due = "future" /\ att' = [att EXCEPT ![f].due = "past"]
    /\ UNCHANGED <<disk, byCleaner, cleaner, life, faults>>
-----------------------------------------------------------------------------
\* The process dies: what it held is gone, rows and files stay.
AttCrash ==
    /\ life # "down" /\ crashes < MaxCrashes
    /\ crashes' = crashes + 1 /\ life' = "down"
    /\ prep' = NoPrep /\ cleaner' = NoRun /\ ctxDone' = FALSE
    /\ UNCHANGED <<att, disk, faults>>

\* ReconcileInterruptedAttachments
Reconcile ==
    att' = [f \in Files |->
        IF att[f].state \in {"staged", "processing"}
        THEN [att[f] EXCEPT !.state = "failed", !.due = IF @ = "none" THEN "future" ELSE @] ELSE att[f]]

\* Start-up: reconcile, then one run of the cleaner before anything else.
AttRestart ==
    /\ life = "down"
    /\ Reconcile
    /\ life' = "starting" /\ cleaner' = [NoRun EXCEPT !.pc = "list"] /\ prep' = NoPrep /\ ctxDone' = FALSE
    /\ UNCHANGED <<disk, faults, crashes>>
-----------------------------------------------------------------------------
AttRows == [state : {"none", "staged", "processing", "ready", "failed", "deleting", "deleted"},
            due : {"none", "future", "past"}, path : BOOLEAN]
Preparations == [pc : {"idle", "load", "open", "download", "part", "payload", "fail", "ok", "error"},
                 left : Seq(Files)]
CleanerRuns == [pc : {"idle", "list", "next", "remove", "complete", "restore"}, todo : SUBSET Files,
                was : [Files -> AttRows] \cup {<<>>}, f : SUBSET Files]

\* Types of the part below; a row that is ready or later has a retention deadline.
AttTypeOK ==
    /\ att \in [Files -> AttRows] /\ disk \in [Files -> {"none", "part", "payload"}]
    /\ \A f \in Files : att[f].state \in {"ready", "deleting", "deleted"} => att[f].due # "none"
    /\ prep \in Preparations /\ cleaner \in CleanerRuns
    /\ life \in {"down", "starting", "up"} /\ ctxDone \in BOOLEAN
    /\ faults \in 0 .. MaxFaults /\ crashes \in 0 .. MaxCrashes

\* Rows and files agree wherever the process dies: a ready file is there until its
\* deadline, and a row that is deleted has no file left.  A file whose path never
\* reached its row (CompleteAttachment failed, its context was cancelled, or the
\* process died after the rename) is not covered: nothing removes it.
FilesMatchRows ==
    \A f \in Files :
        /\ att[f].state = "ready" /\ att[f].due = "future" => disk[f] = "payload"
        /\ att[f].state = "deleted" /\ att[f].path => disk[f] = "none"
=============================================================================
