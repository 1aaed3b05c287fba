----------------------------- MODULE MCJobStore -----------------------------
(***************************************************************************)
(* Two scenarios, chosen at the start, keep the state space small: in      *)
(* "identity" the identities of the postings of two sources vary, in       *)
(* "review" the content of one posting, which two viewers read.            *)
(***************************************************************************)
EXTENDS JobStore, TLC

CONSTANTS acuity, olo, i1, i2, u1, c1, c2, p1, p2, v1, v2

VARIABLE scenario

Rows == {r \in {jobs[j] : j \in JobIds} \cup {tx.rows[j] : j \in JobIds} : r # NoRow}

Identity ==
  /\ \A v \in Viewers : viewer[v] = NoView
  /\ Cardinality({r.content : r \in Rows}) <= 1
Review ==
  /\ Cardinality({s \in Sources : pipe[s].run # "none"}) <= 1
  /\ \A r \in Rows : r.url = NoUrl
  /\ lastPk <= 1 /\ tx.lastPk <= 1

Within == (scenario = "identity" /\ Identity) \/ (scenario = "review" /\ Review)

MCInit == Init /\ scenario \in {"identity", "review"}
MCNext == Next /\ UNCHANGED scenario /\ Within'
MCSpec == MCInit /\ [][MCNext]_<<vars, scenario>>

Symmetry ==
  Permutations(Sources) \cup Permutations(Ids) \cup Permutations(Contents)
    \cup Permutations(Viewers)
=============================================================================
