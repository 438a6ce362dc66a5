----------------------------- MODULE CallLedger -----------------------------
(***************************************************************************)
(* What a dynamic tool promises to the model that calls it, whatever        *)
(* database or network lies behind it: a call takes effect at most once, a *)
(* call that was answered with success took effect, and every success      *)
(* answered for it carries the result of that one effect.  Nothing is       *)
(* promised about a call that is answered with a failure.                   *)
(***************************************************************************)
CONSTANTS Keys,         \* identities of calls
          Arguments,
          Results

VARIABLES done,         \* effects that took place
          told          \* successes that were answered

Deeds == [key : Keys, args : Arguments, result : Results]

Init == done = {} /\ told = {}

Do(e) ==
    /\ \A f \in done : f.key # e.key
    /\ done' = done \cup {e}

Tell(e) ==
    /\ e \in done'
    /\ told' = told \cup {e}

Next ==
    \E e \in Deeds :
        \/ Do(e) /\ UNCHANGED told
        \/ Tell(e) /\ UNCHANGED done
        \/ Do(e) /\ Tell(e)

Spec == Init /\ [][Next]_<<done, told>>
=============================================================================
