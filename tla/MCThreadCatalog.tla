-------------------------- MODULE MCThreadCatalog --------------------------
(* Small instances of ThreadCatalog for TLC.                               *)
EXTENDS ThreadCatalog, TLC

\* Thread identities are interchangeable.
ThreadSymmetry == Permutations(Threads)
=============================================================================
