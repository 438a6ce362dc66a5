--------------------------- MODULE MCCodexRuntime ---------------------------
(* Small instances of CodexRuntime for TLC.                                *)
EXTENDS CodexRuntime
CONSTANT t1

\* All batches belong to one conversation.
MCThreadOf == [a \in Attempts |-> t1]

\* One disturbance; three as long as there is one goal only.
OneDisturbance == [a \in Attempts |-> 1]
ThreeThenOne == <<3, 1>>
=============================================================================
