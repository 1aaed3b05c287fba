----------------------------- MODULE JazzHRFetch -----------------------------
(***************************************************************************)
(* JazzHR: scraping/sources/jazzhr.py. One listing without pages, and a    *)
(* detail page for each posting. A detail page is read from its JobPosting *)
(* markup, or else from its HTML, which may name its address or not.       *)
(***************************************************************************)
EXTENDS SourceFetch

(* What a detail page shows: the posting, how, and the address it names.   *)
Details == [job : Ever, form : {"schema", "html"}, url : {"own", "none", "foreign"}]

(* The listing is complete or refused: links to more pages, a link without *)
(* a title, and an id with two titles are errors, a repeated link is not.  *)
JazzHRListing ==
  /\ In("jazzhr", "start")
  /\ UNCHANGED <<adapter, site_vars, style, browser>>
  /\ \/ Broken
     \/ \E page \in SUBSET Ever :
          /\ Sends(page = site)
          /\ IF page \cap Untitled # {} THEN Raises(fetch.requests + 1)
             ELSE Proceeds([Counted EXCEPT !.phase = "details", !.seen = page,
                                           !.queue = page])

(* _canonical_job_url and jazzhr_job_id_from_url compare the id.           *)
Names(detail, j) == detail.url = "own" /\ detail.job = j
AnyTitle(detail, j) == TRUE                          \* mutant: titles may differ
TitleIsListed(detail, j) == Title[detail.job] = Title[j]

(* The markup must name the posting; HTML may leave it to the title.       *)
Describes(detail, j) ==
  /\ TitleIsListed(detail, j) /\ detail.job \notin Untitled
  /\ Names(detail, j) \/ (detail.form = "html" /\ detail.url = "none")

(* The address in the markup is parsed with an error of its own, which     *)
(* does not know the requests.                                             *)
Uncounted(detail, j) ==
  TitleIsListed(detail, j) /\ detail.form = "schema" /\ detail.url = "foreign"

JazzHRDetail ==
  /\ In("jazzhr", "details") /\ fetch.queue # {}
  /\ UNCHANGED <<adapter, site_vars, style, browser>>
  /\ LET j == First(fetch.queue) IN
     \/ Refused(j) /\ Raises(fetch.requests + 1)
     \/ \E detail \in Details :
          /\ Sends(detail.job = j /\ detail.url = "own")
          /\ CASE Describes(detail, j) ->
                    Proceeds([Counted EXCEPT !.queue = @ \ {j},
                                !.records = @ \cup {<<j, detail.job>>}])
               [] Uncounted(detail, j) -> Raises(0)
               [] OTHER -> Raises(fetch.requests + 1)

JazzHRReturns ==
  /\ In("jazzhr", "details") /\ fetch.queue = {} /\ Silent /\ Returns(fetch)
  /\ UNCHANGED <<adapter, site_vars, style, browser>>

JazzHRNext == JazzHRListing \/ JazzHRDetail \/ JazzHRReturns

JazzHRServes == site \cap Untitled = {}
=============================================================================
