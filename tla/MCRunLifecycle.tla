--------------------------- MODULE MCRunLifecycle ---------------------------
(* Two companies, one of them with two sources; four runs, so that a       *)
(* source can run, end, and run again while its sibling runs.              *)
EXTENDS RunLifecycle, TLC

CONSTANTS acuity, olo

MCOwner == (1 :> acuity) @@ (2 :> acuity) @@ (3 :> olo)
=============================================================================
