---------------------------- MODULE MCRunOutbox ----------------------------
(* The instance of RunOutbox for TLC: the runs and bounds of the cfg are   *)
(* ordinary values, so that nothing has to be defined here.                *)
EXTENDS RunOutbox
=============================================================================
