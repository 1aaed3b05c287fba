--------------------------- MODULE GenericEnrichment ---------------------------
(***************************************************************************)
(* Progressive detail enrichment of one Generic source: the part of        *)
(* run_source_pipeline (scraping/pipeline.py) that tells the adapter which *)
(* detail pages to skip and merges the stored metadata of those pages into *)
(* the batch, the detail loop of GenericSourceAdapter.fetch                *)
(* (scraping/sources/generic.py), and the rows that persistence leaves.    *)
(*                                                                         *)
(* Of the metadata of a posting three kinds are told apart: the            *)
(* description; the fields that count as enrichment and are carried over   *)
(* (location, published_at, employment_type, seniority_level,              *)
(* compensation_text), "detail"; the fields of a detail page that are      *)
(* neither (title of the page, country, city, workplace_type), "place".    *)
(* The runs of a source never overlap, so nothing else touches its rows    *)
(* between the read at the start of a run and its end.                     *)
(*                                                                         *)
(* A link is identified by the address that canonicalize_url of            *)
(* discovery/network.py makes of it, which keeps an explicit port; its row *)
(* stores what canonicalize_source_job_url of scraping/normalization.py    *)
(* makes of that, which drops the default port.  So https://a:443/job is   *)
(* a posting of its own, stored under the address of https://a/job.        *)
(***************************************************************************)
EXTENDS Naturals, FiniteSets, Sequences

CONSTANTS
  Urls,         \* detail pages of the source, as its listing addresses them
  Addresses,    \* what a row may store as source_job_url
  Storings,     \* ways in which the addresses of a site may be stored
  Pages,        \* what a detail page may publish, as sets of the Fields below
  MaxDetails,   \* max_detail_requests
  Faults        \* whether pages and runs may fail, and postings may be unlisted

Fields == {"description", "detail", "place"}

ASSUME EnrichmentAssumption ==
  /\ IsFiniteSet(Urls) /\ Urls \subseteq Addresses
  /\ Storings \subseteq [Urls -> Addresses] /\ Pages \subseteq SUBSET Fields
  /\ MaxDetails \in Nat /\ Faults \in BOOLEAN

VARIABLES
  stored,     \* canonicalize_source_job_url of each address, as far as it is used
  page,       \* the metadata that each detail page publishes
  row,        \* the metadata stored for each posting; nothing where there is no row
  pc,         \* the phase of the current run
  todo,       \* validated jobs the detail loop has not come to, in order
  skip,       \* _detail_skip_urls: stored addresses
  details,    \* metadata_by_id
  requests,   \* detail_requests_made
  listed,     \* the postings of the batch
  tried       \* history: pages this run has requested or refused to request

enrichmentVars == <<stored, page, row, pc, todo, skip, details, requests, listed, tried>>

Carried == {"description", "detail"}
Columns == Fields \cup {"title"}   \* every row has a title

EnrichmentTypeOK ==
  /\ stored \in Storings
  /\ page \in [Urls -> Pages]
  /\ row \in [Urls -> SUBSET Columns]
  /\ pc \in {"idle", "details"}
  /\ todo \in Seq(Urls)
  /\ skip \subseteq Addresses /\ listed \subseteq Urls /\ tried \subseteq Urls
  /\ details \in [Urls -> SUBSET Fields]
  /\ requests \in 0 .. MaxDetails

EnrichmentInit ==
  /\ stored \in Storings
  /\ page \in [Urls -> Pages]
  /\ row = [u \in Urls |-> {}]
  /\ pc = "idle" /\ todo = <<>> /\ requests = 0
  /\ skip = {} /\ listed = {} /\ tried = {}
  /\ details = [u \in Urls |-> {}]

(* A description and one more field.                                       *)
Sufficient(fields) == Carried \subseteq fields

Enriched == {u \in Urls : Sufficient(row[u])}

(* The order of a listing is the site's, and may change from run to run.   *)
Listings ==
  {list \in UNION {[1 .. n -> Urls] : n \in 1 .. Cardinality(Urls)} :
     /\ \A i, j \in DOMAIN list : list[i] = list[j] => i = j
     /\ Faults \/ Len(list) = Cardinality(Urls)}

-----------------------------------------------------------------------------
NothingToSkip == {}   \* mutant: the adapter is not told what is enriched

(* The addresses that the enriched rows store, which are compared with the *)
(* addresses of the links.                                                 *)
SkipUrls == {stored[u] : u \in Enriched}

(* The stored rows are read; the listing pages are fetched.                *)
BeginRun(list) ==
  /\ pc = "idle"
  /\ pc' = "details" /\ todo' = list /\ listed' = {list[i] : i \in DOMAIN list}
  /\ skip' = SkipUrls
  /\ details' = [u \in Urls |-> {}] /\ requests' = 0 /\ tried' = {}
  /\ UNCHANGED <<stored, page, row>>

UnderLimit == requests < MaxDetails

Current == Head(todo)

LoopAt == pc = "details" /\ todo # <<>> /\ UnderLimit

SkipDetail ==
  /\ LoopAt /\ Current \in skip
  /\ todo' = Tail(todo)
  /\ UNCHANGED <<stored, page, row, pc, skip, details, requests, listed, tried>>

(* Another host or an unsafe URL: no request, not counted.                 *)
RefuseDetail ==
  /\ Faults
  /\ LoopAt /\ Current \notin skip
  /\ todo' = Tail(todo) /\ tried' = tried \cup {Current}
  /\ UNCHANGED <<stored, page, row, pc, skip, details, requests, listed>>

(* A request is counted whether or not its response is of use.             *)
GetDetail ==
  /\ LoopAt /\ Current \notin skip
  /\ todo' = Tail(todo) /\ tried' = tried \cup {Current}
  /\ requests' = requests + 1
  /\ \/ details' = [details EXCEPT ![Current] = page[Current]]
     \/ Faults /\ UNCHANGED details
  /\ UNCHANGED <<stored, page, row, pc, skip, listed>>

(* The rows that store an address.  The metadata of which of them is kept  *)
(* under it depends on the order of the query, which has none: an          *)
(* unenriched one may hide the one for which the address is skipped.       *)
RowsOf(address) == {u \in Urls : row[u] # {} /\ stored[u] = address}

FetchedOnly(u, keeper) == details[u] \cup {"title"}   \* mutant: nothing is merged

(* {**record, **existing_detail_metadata.get(url, {})}                     *)
Merged(u, keeper) ==
  details[u] \cup {"title"} \cup (IF u \in skip THEN row[keeper] \cap Carried ELSE {})

(* Persistence replaces every content field of a row whose hash changed.   *)
CommitRun ==
  /\ pc = "details"
  /\ todo = <<>> \/ ~UnderLimit
  /\ \E keeper \in [Urls -> Urls] :
       /\ \A u \in Urls : IF u \in skip THEN keeper[u] \in RowsOf(u) ELSE keeper[u] = u
       /\ row' = [u \in Urls |-> IF u \in listed THEN Merged(u, keeper[u]) ELSE row[u]]
  /\ pc' = "idle" /\ todo' = <<>>
  /\ UNCHANGED <<stored, page, skip, details, requests, listed, tried>>

(* SourceError, a network error in the detail loop, a database error.      *)
FailRun ==
  /\ Faults /\ pc = "details"
  /\ pc' = "idle" /\ todo' = <<>>
  /\ UNCHANGED <<stored, page, row, skip, details, requests, listed, tried>>

Run == (\E list \in Listings : BeginRun(list)) \/ SkipDetail \/ GetDetail \/ CommitRun

EnrichmentNext == Run \/ RefuseDetail \/ FailRun

EnrichmentSpec == EnrichmentInit /\ [][EnrichmentNext]_enrichmentVars

(* "Across repeated successful Update jobs runs": the user keeps updating. *)
FairEnrichment == EnrichmentSpec /\ WF_enrichmentVars(Run)

-----------------------------------------------------------------------------
(* What holds.                                                             *)

(* Postings whose row stores the address of their link, and that of no     *)
(* other link: neither spells the default port, nor does another for them. *)
Alone == {u \in Urls : \A v \in Urls : stored[v] = u <=> v = u}

(* A posting of the kind that satisfies the enrichment criteria never      *)
(* stops to do so, although its page is not fetched again: the merge       *)
(* replaces the record that the listing alone would give.                  *)
EnrichedStaysEnriched == [][Enriched \cap Alone \subseteq Enriched']_enrichmentVars

(* Of those postings none is tried that is enriched, and when a run leaves *)
(* one neither enriched nor tried, it has tried MaxDetails pages.          *)
LimitIsSpentOnNeed ==
  pc = "details" =>
    /\ tried \cap Enriched \cap Alone = {}
    /\ todo = <<>> \/ ~UnderLimit =>
         listed \cap Alone \subseteq Enriched \cup tried \/ Cardinality(tried) >= MaxDetails

(* A step on which a site or a run does not do its part: the run fails, a  *)
(* page is refused or answers with nothing, a posting is not listed.       *)
Disturbed ==
  \/ FailRun \/ RefuseDetail
  \/ GetDetail /\ details'[Current] # page[Current]
  \/ listed' # listed /\ listed' # Urls

(* docs/MILESTONES.md:197-199: a source of any size whose pages all        *)
(* publish what is needed is "enriched progressively across repeated       *)
(* successful Update jobs runs", in whatever order it lists its postings   *)
(* and whatever the runs before have left, once the runs do succeed, as    *)
(* long as no link of it spells the default port.                          *)
RichSitesAreEnriched ==
  (\A u \in Urls : Sufficient(page[u])) /\ Alone = Urls /\ <>[][~Disturbed]_enrichmentVars => <>[](Enriched = Urls)

-----------------------------------------------------------------------------
(* What the documentation says and the code does not do.                   *)

(* docs/MULTI_SOURCE_ARCHITECTURE.md:255-256, "Later successful Update     *)
(* jobs runs preserve previously stored detail metadata": an enriched      *)
(* posting stays enriched, however its link is spelled.                    *)
EnrichmentIsPreserved == [][Enriched \subseteq Enriched']_enrichmentVars

(* :241-242 counts country and workplace type among that metadata.         *)
EnrichedMetadataIsPreserved ==
  [][\A u \in Enriched : row[u] \subseteq row'[u]]_enrichmentVars

(* docs/MILESTONES.md:199-200, "while already persisted detail metadata is *)
(* preserved": a stored description is not lost to a run that did not get  *)
(* the page.                                                               *)
DescriptionIsPreserved ==
  [][\A u \in Urls : "description" \in row[u] => "description" \in row'[u]]_enrichmentVars

(* docs/MULTI_SOURCE_ARCHITECTURE.md:255-257: later runs "can continue     *)
(* enriching detail URLs that have not yet satisfied the enrichment        *)
(* criteria", also those listed behind pages that never will.              *)
RichPagesAreEnriched == \A u \in Urls : Sufficient(page[u]) ~> u \in Enriched
=============================================================================
