------------------------------ MODULE RunLedger ------------------------------
(***************************************************************************)
(* What the table scheduled_task_runs promises to everyone who reads it:   *)
(* the life of one row, whoever writes it.                                 *)
(*                                                                         *)
(*     claimed -> queued -> running -> succeeded | failed | cancelled      *)
(*                                                                         *)
(* A row may be finished early from any of the three active states, it may *)
(* be born terminal (a skipped misfire, a revoked route), and a restart    *)
(* turns every active row into "unknown".  A terminal row never changes.   *)
(*                                                                         *)
(* The module is the abstract specification that Scheduler and RunOutbox   *)
(* implement; it has no knowledge of tasks, executors or deliveries.       *)
(***************************************************************************)

CONSTANT RunIds         \* identities of run rows (UUIDs in the code)

VARIABLE state          \* state[r]: state column of row r, "none" = no row

Active   == {"claimed", "queued", "running"}
Terminal == {"succeeded", "failed", "cancelled", "unknown", "skipped"}

Init == state = [r \in RunIds |-> "none"]

Insert(r) ==
    /\ state[r] = "none"
    /\ \E s \in {"claimed", "skipped", "failed"} : state' = [state EXCEPT ![r] = s]

MarkQueued(r) ==
    /\ state[r] = "claimed"
    /\ state' = [state EXCEPT ![r] = "queued"]

MarkRunning(r) ==
    /\ state[r] = "queued"
    /\ state' = [state EXCEPT ![r] = "running"]

Complete(r) ==
    /\ state[r] \in Active
    /\ \E s \in {"succeeded", "failed", "cancelled"} : state' = [state EXCEPT ![r] = s]

Reconcile ==
    state' = [r \in RunIds |-> IF state[r] \in Active THEN "unknown" ELSE state[r]]

Next ==
    \/ \E r \in RunIds : Insert(r) \/ MarkQueued(r) \/ MarkRunning(r) \/ Complete(r)
    \/ Reconcile

Spec == Init /\ [][Next]_state
=============================================================================
