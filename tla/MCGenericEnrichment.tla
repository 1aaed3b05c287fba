-------------------------- MODULE MCGenericEnrichment --------------------------
(* Three postings and a limit of one detail a run.                         *)
EXTENDS GenericEnrichment, TLC

CONSTANTS u1, u2, u3, a3

MCAddresses == Urls \cup {a3}

(* The third link is plain, spells the default port, or spells it beside   *)
(* the plain link to the same page.                                        *)
MCStorings == {[u \in Urls |-> IF u = u3 THEN address ELSE u] : address \in {u3, a3, u2}}

(* One kind of what is needed, or everything; a response that is of no use *)
(* stands for a page with nothing.                                         *)
MCPages == {{"description"}, {"detail", "place"}, Fields}
=============================================================================
