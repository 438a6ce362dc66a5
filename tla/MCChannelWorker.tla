-------------------------- MODULE MCChannelWorker --------------------------
(* Small instances of ChannelWorker for TLC.                               *)
EXTENDS ChannelWorker, TLC

CONSTANTS m1, m2, m3, alice, bob

\* m1 and m2 come from one sender, m3 from another.
MCActor == (m1 :> alice @@ m2 :> alice @@ m3 :> bob)
MCActor2 == (m1 :> alice @@ m2 :> alice)
WorkerSymmetry == Permutations(Workers)
=============================================================================
