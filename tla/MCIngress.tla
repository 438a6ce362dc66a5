------------------------------ MODULE MCIngress ------------------------------
(* Small instances of Ingress for TLC.                                     *)
EXTENDS Ingress

CONSTANTS e1, e2, f1, f2

\* The first event is of any kind; the second one is a control that may interfere
\* with it, or another file.  Normalize makes of an event a text or one file.
AnyThenControl ==
    {k \in [Events -> Kinds] : k[e2] = "cancel"} \cup {[e \in Events |-> "normal"]}
OneFileEach == [e \in Events |-> IF e = e1 THEN <<f1>> ELSE <<f2>>]
=============================================================================
