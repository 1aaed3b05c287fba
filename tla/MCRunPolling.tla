---------------------------- MODULE MCRunPolling ----------------------------
(* One company with two sources.                                           *)
EXTENDS RunPolling, TLC

CONSTANTS b1
=============================================================================
