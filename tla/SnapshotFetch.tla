---------------------------- MODULE SnapshotFetch ----------------------------
(***************************************************************************)
(* What the rest of the program takes a fetch to be: reconciliation counts *)
(* a miss for every stored posting that is not in the batch, so a batch    *)
(* has to be a snapshot of the site.  A fetch ends once.  What it returns  *)
(* was published while it ran; it is all of one publication if the answers *)
(* were reliable and the listing either is one answer or did not change.   *)
(*                                                                         *)
(* SourceAdapters implements it for every registered adapter.              *)
(***************************************************************************)
CONSTANT Jobs

VARIABLES
  site,       \* the postings that are published now
  snaps,      \* every set of postings that was published since the start
  reliable,   \* every answer so far was what the site then published
  atomic,     \* the listing of this source is one answer
  skipped,    \* postings that this source cannot name
  outcome,
  batch

snapshotVars == <<site, snaps, reliable, atomic, skipped, outcome, batch>>

Exact == reliable /\ (atomic \/ snaps = {site})

SnapshotInit ==
  /\ site = {} /\ snaps = {{}} /\ skipped = {}
  /\ reliable = TRUE /\ atomic = FALSE
  /\ outcome = "idle" /\ batch = {}

(* Of a source whose address is refused nothing is fetched.                *)
Begins ==
  /\ outcome = "idle" /\ outcome' \in {"pending", "raised"}
  /\ site' \in SUBSET Jobs /\ snaps' = {site'}
  /\ atomic' \in BOOLEAN /\ skipped' \in SUBSET Jobs
  /\ UNCHANGED <<reliable, batch>>

Publish ==
  /\ outcome = "pending"
  /\ site' \in SUBSET Jobs /\ snaps' = snaps \cup {site'}
  /\ UNCHANGED <<reliable, atomic, skipped, outcome, batch>>

Work ==
  /\ outcome = "pending" /\ reliable' = FALSE
  /\ UNCHANGED <<site, snaps, atomic, skipped, outcome, batch>>

Return ==
  /\ outcome = "pending" /\ outcome' = "returned"
  /\ reliable' \in {reliable, FALSE}
  /\ UNCHANGED <<site, snaps, atomic, skipped>>
  /\ batch' \in SUBSET UNION snaps
  /\ Exact' => \E s \in snaps : batch' = s \ skipped

Raise ==
  /\ outcome = "pending" /\ outcome' = "raised" /\ batch' = {}
  /\ reliable' \in {reliable, FALSE}
  /\ UNCHANGED <<site, snaps, atomic, skipped>>

SnapshotNext == Begins \/ Publish \/ Work \/ Return \/ Raise

SnapshotSpec == SnapshotInit /\ [][SnapshotNext]_snapshotVars
=============================================================================
