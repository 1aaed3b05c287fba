--------------------------- MODULE DreamJobsFetch ---------------------------
(***************************************************************************)
(* DreamJobs: scraping/sources/dreamjobs.py. The first page is embedded in *)
(* the careers page and tells the total; the others, and a detail for each *)
(* posting, come from a GraphQL API. No request is sent above the limit.   *)
(***************************************************************************)
EXTENDS SourceFetch

MayCallOnce == fetch.requests <= MaxRequests             \* mutant: off by one
MayCall == fetch.requests < MaxRequests

Needed(total) == Max({1, PagesFor(total)})

(* One answer to one call; without a call left, the fetch fails.           *)
NoCallLeft == ~MayCall /\ Raises(fetch.requests) /\ Silent

DreamJobsFirstPage ==
  /\ In("dreamjobs", "start")
  /\ UNCHANGED <<adapter, site_vars, style, browser>>
  /\ \/ NoCallLeft
     \/ MayCall /\ Broken
     \/ /\ MayCall
        /\ \E answer \in Answers :
             /\ Request(answer = TrueAnswer(1), {answer.total})
             /\ IF Needed(answer.total) > PageLimit THEN Raises(fetch.requests + 1)
                ELSE Proceeds([Counted EXCEPT !.phase = "listing", !.page = 1,
                       !.total = answer.total, !.seen = answer.jobs])

(* A further page has the same total and a posting that is new.            *)
DreamJobsPage ==
  /\ In("dreamjobs", "listing") /\ fetch.page < Needed(fetch.total)
  /\ UNCHANGED <<adapter, site_vars, style, browser>>
  /\ \/ NoCallLeft
     \/ MayCall /\ Broken
     \/ /\ MayCall
        /\ \E answer \in Answers :
             /\ Request(answer = TrueAnswer(fetch.page + 1), {answer.total})
             /\ IF answer.total # fetch.total \/ answer.jobs \subseteq fetch.seen
                THEN Raises(fetch.requests + 1)
                ELSE Proceeds([Counted EXCEPT !.page = @ + 1,
                                              !.seen = @ \cup answer.jobs])

EveryJobIsSeen == Cardinality(fetch.seen) = fetch.total

DreamJobsListed ==
  /\ In("dreamjobs", "listing") /\ fetch.page = Needed(fetch.total) /\ Silent
  /\ IF EveryJobIsSeen
     THEN Proceeds([fetch EXCEPT !.phase = "details", !.queue = fetch.seen])
     ELSE Raises(fetch.requests)
  /\ UNCHANGED <<adapter, site_vars, style, browser>>

(* The detail has to have the id that was asked for, and a title.          *)
DreamJobsDetail ==
  /\ In("dreamjobs", "details") /\ fetch.queue # {}
  /\ UNCHANGED <<adapter, site_vars, style, browser>>
  /\ LET j == First(fetch.queue) IN
     \/ NoCallLeft
     \/ MayCall /\ Refused(j) /\ Raises(fetch.requests + 1)
     \/ /\ MayCall
        /\ \E k \in Ever :
             /\ Sends(k = j)
             /\ IF k # j \/ k \in Untitled THEN Raises(fetch.requests + 1)
                ELSE Proceeds([Counted EXCEPT !.queue = @ \ {j},
                                              !.records = @ \cup {<<j, k>>}])

DreamJobsReturns ==
  /\ In("dreamjobs", "details") /\ fetch.queue = {} /\ Silent /\ Returns(fetch)
  /\ UNCHANGED <<adapter, site_vars, style, browser>>

DreamJobsNext ==
  DreamJobsFirstPage \/ DreamJobsPage \/ DreamJobsListed \/ DreamJobsDetail \/ DreamJobsReturns

DreamJobsServes ==
  LET n == Cardinality(site) IN
  Needed(n) <= PageLimit /\ Needed(n) + n <= MaxRequests /\ site \cap Untitled = {}
=============================================================================
