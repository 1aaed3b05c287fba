---------------------------- MODULE BoundedCrawler ----------------------------
(***************************************************************************)
(* One crawl of discovery: BoundedCrawler._crawl and _fetch                *)
(* (discovery/network.py), with the frontier priority and the trusted      *)
(* navigation that run_discovery plugs in (discovery/service.py).          *)
(*                                                                         *)
(* The web is not fixed: every GET may be answered by a page with any      *)
(* links, by a redirect, or by an error, also when the address was asked   *)
(* before. Of a page only the links that look like navigation to jobs are  *)
(* kept, each once; the hosts of the DreamJobs vendor are left out.        *)
(* _crawl_frontier_priority also looks at the text and at the page of a    *)
(* link: here it is a rank of the address.                                 *)
(***************************************************************************)
EXTENDS Naturals, Integers, Sequences, FiniteSets, FiniteSetsExt, Functions

CONSTANTS
  Urls,             \* canonical addresses
  Seeds,            \* the official sites a crawl starts from, in order
  Unsafe,           \* addresses that are refused: host private or unresolved
  Hosts, Host,      \* the host of each address
  Official,         \* hosts of the official sites and of their subdomains
  Portals,          \* hosts whose first label is careers, jobs, recruit, ...
  Ats,              \* addresses that a registered adapter recognizes
  Rank,             \* _crawl_frontier_priority of each address, lower is better
  MaxRequests, MaxDepth, MaxRedirects,
  MaxLinks          \* bound of the model: links on a page

ASSUME CrawlerAssumption ==
  /\ IsFiniteSet(Urls) /\ Seeds \in Seq(Urls)
  /\ Unsafe \subseteq Urls /\ Ats \subseteq Urls
  /\ Official \subseteq Hosts /\ Portals \subseteq Hosts
  /\ Host \in [Urls -> Hosts] /\ Rank \in [Urls -> Nat]
  /\ MaxRequests \in Nat /\ MaxDepth \in Nat /\ MaxRedirects \in Nat

VARIABLES
  queue,      \* frontier: entries not popped yet
  numbered,   \* next_frontier_index
  seen,       \* addresses that were requested as pages
  fetch,      \* <<>>, or the one page that _fetch is getting
  made,       \* _requests_made
  late,       \* total_timeout_seconds are over
  trusted,    \* _trusted_hosts
  pages       \* the pages crawled so far

vars == <<queue, numbered, seen, fetch, made, late, trusted, pages>>

Entry == [rank : Nat \cup {-1}, index : Nat, url : Urls, depth : 0 .. MaxDepth]
Fetch == [requested : Urls, current : Urls, hops : Nat,
          depth : 0 .. MaxDepth]
Page == [requested : Urls, url : Urls, links : SUBSET Urls, depth : 0 .. MaxDepth]

SeedEntry(i) == [rank |-> -1, index |-> i, url |-> Seeds[i], depth |-> 0]

Init ==
  /\ queue = {SeedEntry(i) : i \in DOMAIN Seeds} /\ numbered = Len(Seeds) + 1
  /\ seen = {} /\ fetch = <<>> /\ made = 0 /\ late = FALSE
  /\ trusted = Official
  /\ pages = <<>>

-----------------------------------------------------------------------------
(* The queue is kept sorted by rank and, within a rank, by index.          *)
InOrderFound(e, f) == e.index < f.index   \* mutant: the queue is not sorted
Before(e, f) == e.rank < f.rank \/ (e.rank = f.rank /\ e.index < f.index)

Crawling == fetch = <<>> /\ queue # {} /\ Len(pages) < MaxRequests
First(e) == e \in queue /\ \A f \in queue \ {e} : Before(e, f)

Requested(url) == url \in seen

(* An entry is taken; an address that was requested is skipped.            *)
Pop(e) ==
  /\ Crawling /\ First(e)
  /\ queue' = queue \ {e}
  /\ IF Requested(e.url)
     THEN UNCHANGED <<seen, fetch>>
     ELSE /\ seen' = seen \cup {e.url}
          /\ fetch' = <<[requested |-> e.url, current |-> e.url, hops |-> 0,
                         depth |-> e.depth]>>
  /\ UNCHANGED <<numbered, made, late, trusted, pages>>

-----------------------------------------------------------------------------
(* One turn of the loop of _fetch: another request is allowed.             *)
MayRequestPage(f) ==   \* mutant: the limit is looked at once a page
  f.hops <= MaxRedirects /\ (f.hops > 0 \/ made < MaxRequests)
MayRequest(f) == f.hops <= MaxRedirects /\ made < MaxRequests

GiveUp == fetch' = <<>>   \* the error is recorded and the crawl goes on

(* The request limit, the redirect limit, or an unsafe address.            *)
Refuse ==
  /\ fetch # <<>>
  /\ ~ MayRequest(fetch[1]) \/ fetch[1].current \in Unsafe
  /\ GiveUp
  /\ UNCHANGED <<queue, numbered, seen, made, late, trusted, pages>>

Request ==
  /\ fetch # <<>> /\ MayRequest(fetch[1]) /\ fetch[1].current \notin Unsafe
  /\ made' = made + 1

(* No answer, another address after the request, a status that is neither  *)
(* a page nor a redirect, no HTML, too large; or, without a request, the   *)
(* total time is over.                                                     *)
RequestFails ==
  /\ Request
  /\ GiveUp
  /\ UNCHANGED <<queue, numbered, seen, late, trusted, pages>>

Redirected(to) ==
  /\ Request /\ ~ late
  /\ fetch' = <<[fetch[1] EXCEPT !.current = to, !.hops = @ + 1]>>
  /\ UNCHANGED <<queue, numbered, seen, late, trusted, pages>>

-----------------------------------------------------------------------------
(* Trusted navigation: which links of the page at parent are followed.     *)
AdmitsAnyParent(parent, url) ==   \* mutant: the page itself need not be trusted
  \/ url \in Ats \/ Host[url] = Host[parent] \/ Host[url] \in Official
  \/ Host[parent] \in Official /\ Host[url] \in Portals
Admits(parent, url) ==
  /\ Host[parent] \in trusted
  /\ \/ url \in Ats
     \/ Host[url] = Host[parent]
     \/ Host[url] \in Official
     \/ Host[parent] \in Official /\ Host[url] \in Portals

MayDeepenOnce(depth) == depth <= MaxDepth       \* mutants of the depth limit
MayDeepenBefore(depth) == depth + 1 < MaxDepth
MayDeepen(depth) == depth < MaxDepth

(* The links of the page, numbered in their order on it, join the frontier *)
(* unless they were requested; the page itself counts as requested under   *)
(* the address it was asked for.                                           *)
Fresh(links, depth) ==
  IF MayDeepen(depth) THEN {u \in links : ~ Requested(u)} ELSE {}

Numberings(fresh) ==
  {order \in [fresh -> numbered .. numbered + Cardinality(fresh) - 1] :
     IsInjective(order)}

Answered(listed) ==
  /\ Request /\ ~ late
  /\ LET f == fetch[1]
         links == {u \in listed : Admits(f.current, u)}
         fresh == Fresh(links, f.depth)
     IN /\ pages' = Append(pages, [requested |-> f.requested, url |-> f.current,
                                   links |-> links, depth |-> f.depth])
        /\ \E order \in Numberings(fresh) :
             queue' = queue \cup {[rank |-> Rank[u], index |-> order[u], url |-> u,
                                  depth |-> f.depth + 1] : u \in fresh}
        /\ numbered' = numbered + Cardinality(fresh)
        /\ trusted' = trusted \cup {Host[u] : u \in links}
        /\ fetch' = <<>>
  /\ UNCHANGED <<seen, late>>

Listings == UNION {kSubset(n, Urls) : n \in 0 .. MaxLinks}

TimePasses ==
  /\ ~ late /\ late' = TRUE
  /\ UNCHANGED <<queue, numbered, seen, fetch, made, trusted, pages>>

Ended == fetch = <<>> /\ ~ Crawling

Step ==
  \/ \E e \in queue : Pop(e)
  \/ Refuse \/ RequestFails
  \/ \E to \in Urls : Redirected(to)
  \/ \E listed \in Listings : Answered(listed)

Next == Step \/ TimePasses \/ (Ended /\ UNCHANGED vars)

Spec == Init /\ [][Next]_vars /\ WF_vars(Step)
-----------------------------------------------------------------------------
CrawlTypeOK ==
  /\ queue \subseteq Entry /\ numbered \in Nat
  /\ seen \subseteq Urls
  /\ fetch \in Seq(Fetch) /\ Len(fetch) <= 1
  /\ made \in Nat /\ late \in BOOLEAN
  /\ trusted \subseteq Hosts
  /\ pages \in Seq(Page)

(* A crawl never exceeds its budget: redirects count as requests, a page   *)
(* takes at most MaxRedirects of them, and a private address gets none     *)
(* (_fetch).                                                               *)
WithinBudget ==
  /\ made <= MaxRequests /\ Len(pages) <= made
  /\ fetch # <<>> => fetch[1].hops <= MaxRedirects + 1
  /\ \A i \in DOMAIN pages : pages[i].url \notin Unsafe

(* Cycles of links do not use up the budget: no address is crawled as a    *)
(* page twice, however often and from wherever it is linked (_crawl).      *)
PagesAreDistinct ==
  \A i, j \in DOMAIN pages :
     pages[i].requested = pages[j].requested => i = j

(* Every page that is not a seed was linked by an earlier page one level   *)
(* above it, and that page lies, after its redirects, on a host of the     *)
(* company or on one that such a host has linked: a redirect does not make *)
(* its target a source of links (_TrustedJobNavigation).                   *)
LinkedFrom(p, i) ==
  \E j \in 1 .. i - 1 :
    /\ pages[j].depth + 1 = p.depth
    /\ p.requested \in pages[j].links
    /\ \/ Host[pages[j].url] \in Official
       \/ \E k \in 1 .. j - 1 : \E u \in pages[k].links :
            Host[u] = Host[pages[j].url]

HopsAreTrusted ==
  \A i \in DOMAIN pages :
    pages[i].depth > 0 => LinkedFrom(pages[i], i)

(* Marketing links do not starve job links: when a link is taken from the  *)
(* frontier to be requested, no address of a better rank that the crawl    *)
(* has found within the depth limit is still unrequested (queue.sort in    *)
(* _crawl).                                                                *)
Found == UNION {pages[i].links :
                  i \in {j \in DOMAIN pages : pages[j].depth < MaxDepth}}

BestFirst ==
  [][\A e \in queue \ queue' :
       e.url \in seen' \ seen /\ e.depth > 0 =>
         \A u \in Found \ seen : Rank[e.url] <= Rank[u]]_vars

(* A crawl that ends with requests left has asked for every seed and for   *)
(* every link within the depth limit, whatever failed in between.          *)
NothingIsMissed ==
  Ended /\ made < MaxRequests =>
    Found \cup {Seeds[i] : i \in DOMAIN Seeds} \subseteq seen

(* The crawl ends whatever the web answers, with at most MaxRequests       *)
(* requests.                                                               *)
CrawlEnds == <>[]Ended

(* docs/SOURCE_DISCOVERY.md:181-182: the crawler "prevents repeated URLs". *)
(* Only requested addresses are remembered, not those that a redirect led  *)
(* to.                                                                     *)
DocumentsAreDistinct ==
  \A i, j \in DOMAIN pages : pages[i].url = pages[j].url => i = j
=============================================================================
