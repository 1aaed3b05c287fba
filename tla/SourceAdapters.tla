--------------------------- MODULE SourceAdapters ---------------------------
(***************************************************************************)
(* From an address that a user enters to one fetch of the source that it   *)
(* became: the adapter that the registry chooses, against a site that      *)
(* changes while it is read and answers that may be odd.                   *)
(*                                                                         *)
(* It implements SnapshotFetch.                                            *)
(***************************************************************************)
EXTENDS LeverFetch, DarwinboxFetch, DreamJobsFetch, JazzHRFetch, ZohoFetch,
        LinkedInFetch, GenericListing, SourceDetection

(* registry.py has an adapter for every platform that can be selected.     *)
ASSUME RegistryAssumption == Selectable \cup {"generic"} \subseteq Adapters

vars == <<fetchVars, detectionVars>>

Init == FetchInit /\ DetectionInit

Detection == SubmitUrl \/ CrawlUrl \/ BeginFetch

FetchNext ==
  \/ LeverPage \/ DarwinboxNext \/ DreamJobsNext \/ JazzHRNext
  \/ ZohoListing \/ LinkedInBatch \/ GenericNext

Next == Detection \/ ((FetchNext \/ SiteChanges) /\ UNCHANGED detectionVars)

Spec == Init /\ [][Next]_vars

-----------------------------------------------------------------------------
(* Every local variable of a fetch has its type.                           *)
FetchTypeOK ==
  /\ adapter \in Adapters \cup {"none"} /\ site \in SUBSET Jobs /\ snaps \in SUBSET SUBSET Jobs
  /\ site \in snaps
  /\ style \in [pager : Pagers, landing : BOOLEAN]
  /\ odd \in Nat /\ sent \in Nat
  /\ told \in SUBSET Nat /\ fetch \in Fetch
  /\ browser \in [bodies : Seq(Answer), trouble : SUBSET Nat]
  /\ outcome \in {"idle", "pending", "raised", "returned"} /\ reported \in Nat

Steady == snaps = {site}
Listed == {r[1] : r \in fetch.records}
Batch == IF outcome = "returned" THEN Listed ELSE {}

OneListing == {"jazzhr", "zoho_recruit"}
Skipped == IF adapter = "generic" THEN Untitled ELSE {}

(* A fetch is a snapshot fetch (base.py: a batch of records; each adapter: *)
(* "a complete, deduplicated snapshot or fail closed"): what it returns    *)
(* was published, and is one publication of the site unless an answer was  *)
(* odd or a listing of several pages changed meanwhile.                    *)
Snapshot == INSTANCE SnapshotFetch
  WITH reliable <- odd = 0, atomic <- adapter \in OneListing, skipped <- Skipped,
       batch <- Batch
IsSnapshotFetch == Snapshot!SnapshotSpec

(* No odd total, page or answer makes a batch look complete by accident:   *)
(* every total that Darwinbox or DreamJobs told is the number of records.  *)
TotalsAreReached ==
  outcome = "returned" /\ adapter \in {"darwinbox", "dreamjobs"}
    => told = {Cardinality(Listed)}

(* No record is described by another posting than its own: the id, or for  *)
(* JazzHR at least the title, is compared on every detail. The generic     *)
(* adapter compares nothing.                                               *)
RecordsAreDescribed ==
  adapter # "generic" =>
    \A r \in fetch.records :
      r[1] = r[2] \/ (adapter = "jazzhr" /\ Title[r[1]] = Title[r[2]])

(* A fetch does not fail for nothing: a site that does not change, answers *)
(* truly, stays below the limits of its adapter and has the form that the  *)
(* adapter takes is returned. The form is said by each adapter: titles for *)
(* most, for a generic site also a pager that does not name its first page *)
(* by a second address.                                                    *)
Serves ==
  CASE adapter = "lever" -> LeverServes
    [] adapter = "darwinbox" -> DarwinboxServes
    [] adapter = "dreamjobs" -> DreamJobsServes
    [] adapter = "jazzhr" -> JazzHRServes
    [] adapter = "zoho_recruit" -> ZohoServes
    [] adapter = "linkedin" -> LinkedInServes
    [] adapter = "generic" -> GenericServes
FailureHasCause == outcome = "raised" /\ odd = 0 /\ Steady => ~Serves

(* Whatever the site answers, a fetch sends no more than its limits allow. *)
(* The browser of Darwinbox may capture PageLimit listings before it is at *)
(* rest, and clicks for more; a detail may take it two requests.           *)
Budget ==
  CASE adapter = "lever" -> PageLimit
    [] adapter = "darwinbox" -> 2 * PageLimit + Cardinality(Bare)
    [] adapter = "dreamjobs" -> MaxRequests
    [] adapter = "jazzhr" -> 1 + Cardinality(Jobs)
    [] adapter = "zoho_recruit" -> 1
    [] adapter = "linkedin" -> Min({MaxRequests, PageLimit})
    [] adapter = "generic" -> Min({MaxRequests, PageLimit}) + MaxDetails
RequestsAreBounded == outcome # "idle" => sent <= Budget

(* The requests of a batch are those that were sent; an error never has    *)
(* more (the run records them).                                            *)
RequestsAreReported ==
  /\ outcome = "returned" => reported = sent
  /\ outcome = "raised" => reported <= sent
=============================================================================
