--------------------------- MODULE GenericListing ---------------------------
(***************************************************************************)
(* The listing half of the generic adapter: GenericSourceAdapter.fetch of  *)
(* scraping/sources/generic.py, with the pages that it discovers. The      *)
(* pages of the postings are in GenericEnrichment, one of them here.       *)
(*                                                                         *)
(* A site is built as its style says. It may have a page with a search     *)
(* form before the listing (address 0). Page n has address n and links     *)
(* the next page, or all; one that links all may call its first page by a  *)
(* second address. Each page shows PageSize postings.                      *)
(*                                                                         *)
(* The hash of a page is not kept: a page that is repeated brings nothing  *)
(* new and ends in an error all the same.                                  *)
(***************************************************************************)
EXTENDS SourceFetch

Again == Cardinality(Jobs) + 1         \* the second address of page 1

PageOf(address) == IF address = Again THEN 1 ELSE address
Shows(address) ==
  IF address = 0 THEN {} ELSE Window((PageOf(address) - 1) * PageSize, PageSize)

(* _pagination_targets of a page of the site, as it is now.                *)
Links(address) ==
  LET last == PagesFor(Cardinality(site))
      n == PageOf(address)
  IN  IF last <= 1 \/ address = 0 THEN {}
      ELSE CASE style.pager = "next" -> {m \in {n - 1, n + 1} : m \in 1 .. last}
             [] style.pager = "all" -> 1 .. last
             [] style.pager = "alias" -> {Again} \cup 2 .. last

(* A response: postings, and links to other pages. One that leads out of   *)
(* the family of the listing, or a pager without any, is an error.         *)
Responses == [jobs : Pages, links : {{}} \cup {{a} : a \in Addresses}]
TrueResponse(address) == [jobs |-> Shows(address), links |-> Links(address)]

HasForm == style.landing /\ fetch.at = 0

-----------------------------------------------------------------------------
(* An exception of the transport is caught by the pipeline only, where it  *)
(* has no count.                                                           *)
Escapes == Disturbed(1) /\ Raises(0)

BringsNothing(r) == r.jobs \subseteq fetch.seen

(* A posting without a safe title is dropped, in the link and in the slug. *)
Named(S) == S \ Untitled

Extracts(now) ==
  IF Named(now.seen) = {} THEN Raises(now.requests)
  ELSE Proceeds([now EXCEPT !.phase = "details", !.queue = Named(now.seen),
                            !.records = Same(Named(now.seen))])

Fresh(r, now) == r.links \ now.asked

(* What is done with a page that was the first, or the one after others.   *)
(* A page without postings may lead on by its form; a later page has to    *)
(* bring a new posting; the listing ends where no pager is, or where every *)
(* link of it was requested.                                               *)
Follows(r, now) ==
  IF r.jobs = {} /\ fetch.seen = {} /\ HasForm
  THEN IF now.page = PageLimit THEN Raises(now.requests)
                               ELSE Proceeds([now EXCEPT !.at = 1])
  ELSE IF fetch.page > 0 /\ BringsNothing(r) THEN Raises(now.requests)
  ELSE IF Fresh(r, now) = {} THEN Extracts(now)
  ELSE IF now.page = PageLimit THEN Raises(now.requests)
  ELSE \E a \in Fresh(r, now) : Proceeds([now EXCEPT !.at = a])

GenericPage ==
  /\ In("generic", "start")
  /\ UNCHANGED <<adapter, site_vars, style, browser>>
  /\ \/ Disturbed(0) /\ Raises(fetch.requests)                       \* out of time
     \/ fetch.requests >= MaxRequests /\ Raises(fetch.requests) /\ Silent
     \/ fetch.requests < MaxRequests /\ Broken
     \/ fetch.requests < MaxRequests /\ Escapes
     \/ /\ fetch.requests < MaxRequests
        /\ \E r \in Responses \cup {TrueResponse(fetch.at)} :
             /\ Sends(r = TrueResponse(fetch.at))
             /\ Follows(r, [Counted EXCEPT !.page = @ + 1, !.asked = @ \cup {fetch.at},
                                           !.seen = @ \cup r.jobs])

(* The page of a posting: skipped, of no use, or read, whatever posting of *)
(* the host it shows.                                                      *)
GenericDetail ==
  /\ In("generic", "details") /\ fetch.queue # {} /\ fetch.skip < MaxDetails
  /\ UNCHANGED <<adapter, site_vars, style, browser>>
  /\ LET j == First(fetch.queue)
         now == [Counted EXCEPT !.queue = @ \ {j}, !.skip = @ + 1]
     IN
     \/ Proceeds([fetch EXCEPT !.queue = @ \ {j}]) /\ Silent
     \/ Sends(FALSE) /\ Proceeds(now)
     \/ Escapes
     \/ \E k \in Ever :
          Sends(k = j) /\ Proceeds([now EXCEPT !.records = (@ \ {<<j, j>>}) \cup {<<j, k>>}])

GenericReturns ==
  /\ In("generic", "details") /\ (fetch.queue = {} \/ fetch.skip >= MaxDetails)
  /\ Silent /\ Returns(fetch)
  /\ UNCHANGED <<adapter, site_vars, style, browser>>

GenericNext == GenericPage \/ GenericDetail \/ GenericReturns

(* What a site has to be for this adapter: a posting with a title, pages   *)
(* within the limits, and, if it has several, a pager that names each page *)
(* by one address. A pager whose link to page 1 is another address than    *)
(* the one that was entered is read to its end and then refused, as a page *)
(* that repeats the first.                                                 *)
GenericServes ==
  LET pages == PagesFor(Cardinality(site)) + (IF style.landing THEN 1 ELSE 0) IN
  /\ Named(site) # {}
  /\ pages <= PageLimit /\ pages <= MaxRequests
  /\ style.pager = "alias" => PagesFor(Cardinality(site)) <= 1
=============================================================================
