-------------------------- MODULE MCUnreadFailures --------------------------
(* Three runs that may end in any order, at equal or different times.      *)
EXTENDS UnreadFailures, TLC

CONSTANTS t1, t2
=============================================================================
