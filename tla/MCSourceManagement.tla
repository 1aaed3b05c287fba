------------------------- MODULE MCSourceManagement -------------------------
(* One company; jobs and jobsSlash are two spellings of one careers page,  *)
(* and lever is another.                                                   *)
EXTENDS SourceManagement, TLC

CONSTANTS olo, e1, jobs, jobsSlash, lever

MCOwner == [s \in Sources |-> olo]
MCCanonical == [u \in Urls |-> IF u = jobsSlash THEN jobs ELSE u]
=============================================================================
