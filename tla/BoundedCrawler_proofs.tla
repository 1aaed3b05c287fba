------------------------ MODULE BoundedCrawler_proofs ------------------------
(***************************************************************************)
(* Proofs about BoundedCrawler for any web, seeds, ranks and limits. CInv  *)
(* adds to the properties where trust and the entries of the frontier come *)
(* from: without that, a page could be crawled that nobody has linked.     *)
(* FInv says what the frontier owes to the crawl: every address found is   *)
(* requested or waiting under its own rank, and no request is made twice.  *)
(***************************************************************************)
EXTENDS BoundedCrawler, FiniteSetTheorems, SequenceTheorems, TLAPS

(* A host that is trusted is of the company or was linked by a page.       *)
TrustIsLinked ==
  \A h \in trusted :
    h \in Official \/ \E k \in 1 .. Len(pages) : \E u \in pages[k].links : Host[u] = h

Linked(url, depth) ==
  LinkedFrom([requested |-> url, depth |-> depth], Len(pages) + 1)

QueueIsLinked == \A e \in queue : e.depth > 0 => Linked(e.url, e.depth)

FetchIsLinked ==
  fetch # <<>> /\ fetch[1].depth > 0 => Linked(fetch[1].requested, fetch[1].depth)

CInv ==
  /\ CrawlTypeOK
  /\ WithinBudget
  /\ TrustIsLinked
  /\ QueueIsLinked
  /\ FetchIsLinked
  /\ HopsAreTrusted

-----------------------------------------------------------------------------
(* The one page that is being fetched.                                     *)
LEMMA FetchType ==
  ASSUME CrawlTypeOK, fetch # <<>>
  PROVE  fetch[1] \in Fetch /\ Len(fetch) = 1
<1>1. fetch \in Seq(Fetch) /\ Len(fetch) <= 1
  BY DEF CrawlTypeOK
<1>2. Len(fetch) \in Nat \ {0}
  BY <1>1, EmptySeq
<1>3. Len(fetch) = 1
  <2>1. \A k \in Nat \ {0} : k <= 1 => k = 1
    OBVIOUS
  <2> QED
    BY <1>1, <1>2, <2>1, Zenon
<1>4. 1 \in 1 .. Len(fetch)
  BY <1>3
<1>5. fetch[1] \in Fetch
  BY <1>1, <1>4, ElementOfSeq
<1> QED
  BY <1>3, <1>5

LEMMA FetchSeq ==
  ASSUME NEW f \in Fetch
  PROVE  /\ <<f>> \in Seq(Fetch) /\ Len(<<f>>) = 1 /\ <<f>>[1] = f
         /\ <<f>> # <<>>
OBVIOUS

(* A redirect moves the page that is being fetched.                        *)
LEMMA MovedFetch ==
  ASSUME NEW f \in Fetch, NEW to \in Urls
  PROVE  /\ [f EXCEPT !.current = to, !.hops = @ + 1] \in Fetch
         /\ [f EXCEPT !.current = to, !.hops = @ + 1].requested = f.requested
         /\ [f EXCEPT !.current = to, !.hops = @ + 1].depth = f.depth
         /\ [f EXCEPT !.current = to, !.hops = @ + 1].hops = f.hops + 1
<1> DEFINE g == [f EXCEPT !.current = to, !.hops = f.hops + 1]
<1>1. f.hops + 1 \in Nat
  BY DEF Fetch
<1>2. g.requested = f.requested
  BY DEF Fetch
<1>3. g.depth = f.depth
  BY DEF Fetch
<1>4. g.hops = f.hops + 1
  BY DEF Fetch
<1>5. g \in Fetch
  BY <1>1 DEF Fetch
<1> QED
  BY <1>2, <1>3, <1>4, <1>5

(* The first state.                                                        *)
LEMMA CrawlInit == Init => CInv
<1> SUFFICES ASSUME Init PROVE CInv
  OBVIOUS
<1>1. CrawlTypeOK
  <2>1. \A i \in DOMAIN Seeds : SeedEntry(i) \in Entry
    BY CrawlerAssumption DEF SeedEntry, Entry
  <2>2. Len(Seeds) + 1 \in Nat
    BY CrawlerAssumption, LenProperties
  <2>3. <<>> \in Seq(Fetch) /\ <<>> \in Seq(Page) /\ Len(<<>>) <= 1
    OBVIOUS
  <2> QED
    BY <2>1, <2>2, <2>3, CrawlerAssumption DEF Init, CrawlTypeOK
<1>2. WithinBudget /\ HopsAreTrusted
  BY CrawlerAssumption DEF Init, WithinBudget, HopsAreTrusted
<1>3. TrustIsLinked /\ FetchIsLinked
  BY DEF Init, TrustIsLinked, FetchIsLinked
<1>4. QueueIsLinked
  BY DEF Init, QueueIsLinked, SeedEntry
<1> QED
  BY <1>1, <1>2, <1>3, <1>4 DEF CInv

(* Taking an entry moves its origin to the page that is fetched.           *)
LEMMA PopCInv ==
  ASSUME CInv, NEW e \in queue, Pop(e)
  PROVE  CInv'
<1>1. /\ queue' \subseteq queue /\ pages' = pages /\ trusted' = trusted
      /\ made' = made /\ numbered' = numbered /\ late' = late
      /\ e \in Entry /\ fetch = <<>>
  BY DEF CInv, CrawlTypeOK, Pop, Crawling
<1> DEFINE f == [requested |-> e.url, current |-> e.url, hops |-> 0, depth |-> e.depth]
<1>2. f \in Fetch
  BY <1>1 DEF Entry, Fetch
<1>3. \/ fetch' = fetch /\ seen' = seen
      \/ fetch' = <<f>> /\ seen' = seen \cup {e.url}
  BY DEF Pop
<1>4. CrawlTypeOK'
  <2>1. fetch' \in Seq(Fetch) /\ Len(fetch') <= 1
    <3>1. CASE fetch' = fetch
      BY <3>1 DEF CInv, CrawlTypeOK
    <3>2. CASE fetch' = <<f>>
      <4>1. <<f>> \in Seq(Fetch) /\ Len(<<f>>) = 1
        BY <1>2, FetchSeq
      <4> HIDE DEF f
      <4> QED
        BY <3>2, <4>1
    <3> QED
      BY <1>3, <3>1, <3>2
  <2>2. seen' \subseteq Urls
    BY <1>1, <1>3 DEF CInv, CrawlTypeOK, Entry
  <2> QED
    BY <1>1, <2>1, <2>2 DEF CInv, CrawlTypeOK
<1>5. WithinBudget'
  <2>1. fetch' # <<>> => fetch'[1].hops <= MaxRedirects + 1
    BY <1>1, <1>2, <1>3, FetchSeq, CrawlerAssumption
  <2> QED
    BY <1>1, <2>1 DEF CInv, WithinBudget
<1>6. TrustIsLinked' /\ QueueIsLinked' /\ HopsAreTrusted'
  BY <1>1 DEF CInv, TrustIsLinked, QueueIsLinked, HopsAreTrusted, Linked, LinkedFrom
<1>7. FetchIsLinked'
  <2>1. fetch' # <<>> => fetch'[1].requested = e.url /\ fetch'[1].depth = e.depth
    BY <1>1, <1>2, <1>3, FetchSeq
  <2>2. Linked(e.url, e.depth) => Linked(e.url, e.depth)'
    BY <1>1 DEF Linked, LinkedFrom
  <2>3. e.depth > 0 => Linked(e.url, e.depth)
    BY DEF CInv, QueueIsLinked
  <2> QED
    BY <2>1, <2>2, <2>3 DEF FetchIsLinked, Linked
<1> QED
  BY <1>4, <1>5, <1>6, <1>7 DEF CInv

(* Giving a page up, or following a redirect, changes no page.             *)
LEMMA FetchCInv ==
  ASSUME CInv, fetch # <<>>,
         UNCHANGED <<queue, numbered, seen, late, trusted, pages>>,
         \/ made' = made
         \/ made' = made + 1 /\ made < MaxRequests,
         \/ fetch' = <<>>
         \/ \E g \in Fetch : /\ fetch' = <<g>> /\ g.hops <= MaxRedirects + 1
                             /\ g.requested = fetch[1].requested
                             /\ g.depth = fetch[1].depth
  PROVE  CInv'
<1>1. /\ queue' = queue /\ numbered' = numbered /\ seen' = seen
      /\ late' = late /\ trusted' = trusted /\ pages' = pages
  OBVIOUS
<1>2. made \in Nat /\ made' \in Nat /\ made <= made' /\ made' <= MaxRequests
  BY CrawlerAssumption DEF CInv, CrawlTypeOK, WithinBudget
<1>3. \/ fetch' = <<>>
      \/ /\ fetch' \in Seq(Fetch) /\ Len(fetch') = 1
         /\ fetch'[1].requested = fetch[1].requested
         /\ fetch'[1].depth = fetch[1].depth
         /\ fetch'[1].hops <= MaxRedirects + 1
  BY FetchSeq
<1>4. CrawlTypeOK'
  <2>1. fetch' \in Seq(Fetch) /\ Len(fetch') <= 1
    <3>1. CASE fetch' = <<>>
      BY <3>1
    <3>2. CASE fetch' \in Seq(Fetch) /\ Len(fetch') = 1
      <4>1. 1 <= 1
        OBVIOUS
      <4> QED
        BY <3>2, <4>1, Zenon
    <3> QED
      BY <1>3, <3>1, <3>2
  <2> QED
    BY <1>1, <1>2, <2>1 DEF CInv, CrawlTypeOK
<1>5. WithinBudget'
  <2>1. Len(pages') <= made'
    BY <1>1, <1>2, LenProperties DEF CInv, CrawlTypeOK, WithinBudget
  <2>2. fetch' # <<>> => fetch'[1].hops <= MaxRedirects + 1
    BY <1>3
  <2> QED
    BY <1>1, <1>2, <2>1, <2>2 DEF CInv, WithinBudget
<1>6. TrustIsLinked' /\ QueueIsLinked' /\ HopsAreTrusted'
  BY <1>1 DEF CInv, TrustIsLinked, QueueIsLinked, HopsAreTrusted, Linked, LinkedFrom
<1>7. FetchIsLinked'
  BY <1>1, <1>3 DEF CInv, FetchIsLinked, Linked, LinkedFrom
<1> QED
  BY <1>4, <1>5, <1>6, <1>7 DEF CInv

(* Of a page the links whose host the code trusts join the frontier.       *)
LEMMA FreshNumbers ==
  ASSUME NEW fresh \in SUBSET Urls, numbered \in Nat
  PROVE  /\ Cardinality(fresh) \in Nat
         /\ \A order \in Numberings(fresh), u \in fresh : order[u] \in Nat
<1>1. Cardinality(fresh) \in Nat
  BY FS_Subset, FS_CardinalityType, CrawlerAssumption
<1>2. \A order \in Numberings(fresh) :
        order \in [fresh -> numbered .. numbered + Cardinality(fresh) - 1]
  BY DEF Numberings
<1> QED
  BY <1>1, <1>2

LEMMA AnsweredCInv ==
  ASSUME CInv, NEW listed \in Listings, Answered(listed)
  PROVE  CInv'
<1> DEFINE f == fetch[1]
           links == {u \in listed : Admits(f.current, u)}
           fresh == Fresh(links, f.depth)
           q == [requested |-> f.requested, url |-> f.current, links |-> links,
                 depth |-> f.depth]
           n == Len(pages)
<1>1. /\ fetch # <<>> /\ made < MaxRequests /\ f.current \notin Unsafe
      /\ made' = made + 1 /\ f.hops <= MaxRedirects
      /\ seen' = seen /\ late' = late
  BY DEF Answered, Request, MayRequest
<1>2. /\ pages' = Append(pages, q) /\ fetch' = <<>>
      /\ numbered' = numbered + Cardinality(fresh)
      /\ trusted' = trusted \cup {Host[u] : u \in links}
  BY DEF Answered
<1>3. PICK order \in Numberings(fresh) :
        queue' = queue \cup {[rank |-> Rank[u], index |-> order[u], url |-> u,
                              depth |-> f.depth + 1] : u \in fresh}
  BY DEF Answered
<1>4. f \in Fetch
  BY <1>1, FetchType DEF CInv
<1>5. links \subseteq Urls
  BY DEF Listings, kSubset
<1>6. fresh \subseteq links /\ (fresh # {} => f.depth < MaxDepth)
  BY DEF Fresh, MayDeepen
<1>7. q \in Page
  BY <1>4, <1>5 DEF Fetch, Page
<1>8. /\ pages \in Seq(Page) /\ n \in Nat /\ pages' \in Seq(Page) /\ Len(pages') = n + 1
      /\ \A i \in 1 .. n : pages'[i] = pages[i]
      /\ pages'[n + 1] = q
  BY <1>2, <1>7, AppendProperties DEF CInv, CrawlTypeOK
<1>9. CrawlTypeOK'
  <2>1. Cardinality(fresh) \in Nat /\ \A u \in fresh : order[u] \in Nat
    BY <1>5, <1>6, FreshNumbers DEF CInv, CrawlTypeOK
  <2>2. queue' \subseteq Entry
    <3>1. ASSUME NEW u \in fresh
          PROVE  [rank |-> Rank[u], index |-> order[u], url |-> u, depth |-> f.depth + 1]
                   \in Entry
      <4>1. Rank[u] \in Nat /\ u \in Urls /\ f.depth + 1 \in 0 .. MaxDepth
        <5>1. Rank[u] \in Nat /\ u \in Urls
          BY <1>5, <1>6, CrawlerAssumption
        <5>2. f.depth \in 0 .. MaxDepth /\ f.depth < MaxDepth
          BY <1>4, <1>6 DEF Fetch
        <5> QED
          BY <5>1, <5>2, CrawlerAssumption
      <4> QED
        BY <2>1, <4>1 DEF Entry
    <3> QED
      BY <1>3, <3>1 DEF CInv, CrawlTypeOK
  <2>3. trusted' \subseteq Hosts
    BY <1>2, <1>5, CrawlerAssumption DEF CInv, CrawlTypeOK
  <2>4. numbered' \in Nat /\ made' \in Nat
    BY <1>1, <1>2, <2>1 DEF CInv, CrawlTypeOK
  <2>5. fetch' \in Seq(Fetch) /\ Len(fetch') <= 1
    BY <1>2
  <2> QED
    BY <1>1, <1>8, <2>2, <2>3, <2>4, <2>5 DEF CInv, CrawlTypeOK
<1>10. WithinBudget'
  <2>1. made' <= MaxRequests /\ Len(pages') <= made'
    BY <1>1, <1>8, CrawlerAssumption DEF CInv, CrawlTypeOK, WithinBudget
  <2>2. \A i \in 1 .. n + 1 : pages'[i].url \notin Unsafe
    BY <1>1, <1>8 DEF CInv, WithinBudget
  <2> QED
    BY <1>2, <1>8, <2>1, <2>2 DEF WithinBudget
<1>11. TrustIsLinked'
  <2> SUFFICES ASSUME NEW h \in trusted', h \notin Official
               PROVE  \E k \in 1 .. n + 1 : \E u \in pages'[k].links : Host[u] = h
    BY <1>8 DEF TrustIsLinked
  <2>1. CASE h \in trusted
    BY <1>8, <2>1 DEF CInv, TrustIsLinked
  <2>2. CASE \E u \in links : Host[u] = h
    <3>1. n + 1 \in 1 .. n + 1 /\ pages'[n + 1].links = links
      BY <1>8
    <3> QED
      BY <2>2, <3>1
  <2> QED
    BY <1>2, <2>1, <2>2
<1>12. ASSUME NEW u \in links
       PROVE  \/ Host[f.current] \in Official
              \/ \E k \in 1 .. n : \E v \in pages[k].links : Host[v] = Host[f.current]
  BY <1>12 DEF Admits, CInv, TrustIsLinked
<1>13. ASSUME NEW url, NEW depth, Linked(url, depth)
       PROVE  Linked(url, depth)'
  <2>1. PICK j \in 1 .. n : /\ pages[j].depth + 1 = depth /\ url \in pages[j].links
                           /\ \/ Host[pages[j].url] \in Official
                              \/ \E k \in 1 .. j - 1 : \E u \in pages[k].links :
                                   Host[u] = Host[pages[j].url]
    BY <1>8, <1>13 DEF Linked, LinkedFrom
  <2>2. \A k \in 1 .. j : pages'[k] = pages[k]
    BY <1>8
  <2>3. j \in 1 .. Len(pages') + 1 - 1
    BY <1>8
  <2>4. \/ Host[pages'[j].url] \in Official
        \/ \E k \in 1 .. j - 1 : \E u \in pages'[k].links :
             Host[u] = Host[pages'[j].url]
    BY <2>1, <2>2
  <2>5. pages'[j].depth + 1 = depth /\ url \in pages'[j].links
    BY <2>1, <2>2
  <2> QED
    BY <2>3, <2>4, <2>5 DEF Linked, LinkedFrom
<1>14. QueueIsLinked'
  <2> SUFFICES ASSUME NEW e \in queue', e.depth > 0
               PROVE  Linked(e.url, e.depth)'
    BY DEF QueueIsLinked
  <2>1. CASE e \in queue
    BY <1>13, <2>1 DEF CInv, QueueIsLinked
  <2>2. ASSUME NEW u \in fresh,
               e = [rank |-> Rank[u], index |-> order[u], url |-> u, depth |-> f.depth + 1]
        PROVE  Linked(e.url, e.depth)'
    <3>1. /\ n + 1 \in 1 .. Len(pages') + 1 - 1
          /\ pages'[n + 1].depth + 1 = e.depth /\ e.url \in pages'[n + 1].links
      BY <1>6, <1>8, <2>2
    <3>2. \/ Host[pages'[n + 1].url] \in Official
          \/ \E k \in 1 .. n + 1 - 1 : \E v \in pages'[k].links :
               Host[v] = Host[pages'[n + 1].url]
      BY <1>6, <1>8, <1>12
    <3> QED
      BY <3>1, <3>2 DEF Linked, LinkedFrom
  <2> QED
    BY <1>3, <2>1, <2>2
<1>15. FetchIsLinked'
  BY <1>2 DEF FetchIsLinked
<1>16. HopsAreTrusted'
  <2> SUFFICES ASSUME NEW i \in 1 .. n + 1, pages'[i].depth > 0
               PROVE  LinkedFrom(pages[i], i)'
    BY <1>8 DEF HopsAreTrusted
  <2>1. CASE i \in 1 .. n
    <3>1. LinkedFrom(pages[i], i) /\ pages'[i] = pages[i]
      BY <1>8, <2>1 DEF CInv, HopsAreTrusted
    <3>2. \A j \in 1 .. i - 1 : pages'[j] = pages[j]
      BY <1>8, <2>1
    <3> QED
      BY <3>1, <3>2 DEF LinkedFrom
  <2>2. CASE i = n + 1
    <3>1. LinkedFrom([requested |-> f.requested, depth |-> f.depth], n + 1)
      BY <1>1, <1>8, <2>2 DEF CInv, FetchIsLinked, Linked
    <3>2. pages'[i] = q /\ \A j \in 1 .. i - 1 : pages'[j] = pages[j]
      BY <1>8, <2>2
    <3> QED
      BY <3>1, <3>2, <2>2 DEF LinkedFrom
  <2> QED
    BY <1>8, <2>1, <2>2
<1> QED
  BY <1>9, <1>10, <1>11, <1>14, <1>15, <1>16 DEF CInv

(* Every step keeps the invariant.                                         *)
LEMMA CrawlStep == CInv /\ [Next]_vars => CInv'
<1> SUFFICES ASSUME CInv, [Next]_vars PROVE CInv'
  OBVIOUS
<1>1. ASSUME NEW e \in queue, Pop(e) PROVE CInv'
  BY <1>1, PopCInv
<1>2. CASE Refuse
  BY <1>2, FetchCInv DEF Refuse, GiveUp
<1>3. CASE RequestFails
  BY <1>3, FetchCInv DEF RequestFails, Request, MayRequest, GiveUp
<1>4. ASSUME NEW to \in Urls, Redirected(to) PROVE CInv'
  <2>1. /\ fetch # <<>> /\ made' = made + 1 /\ made < MaxRequests
        /\ fetch[1].hops <= MaxRedirects
        /\ fetch' = <<[fetch[1] EXCEPT !.current = to, !.hops = @ + 1]>>
        /\ UNCHANGED <<queue, numbered, seen, late, trusted, pages>>
    BY <1>4 DEF Redirected, Request, MayRequest
  <2> DEFINE g == [fetch[1] EXCEPT !.current = to, !.hops = @ + 1]
  <2>2. fetch[1] \in Fetch
    BY <2>1, FetchType DEF CInv
  <2>3. /\ g \in Fetch /\ g.requested = fetch[1].requested
        /\ g.depth = fetch[1].depth /\ g.hops = fetch[1].hops + 1
    BY <2>2, MovedFetch
  <2>4. g.hops <= MaxRedirects + 1
    BY <2>1, <2>2, <2>3, CrawlerAssumption DEF Fetch
  <2>5. fetch' = <<g>>
    BY <2>1
  <2> HIDE DEF g
  <2> QED
    BY <2>1, <2>3, <2>4, <2>5, FetchCInv
<1>5. ASSUME NEW listed \in Listings, Answered(listed) PROVE CInv'
  BY <1>5, AnsweredCInv
<1>6. CASE TimePasses
  BY <1>6 DEF TimePasses, CInv, CrawlTypeOK, WithinBudget, TrustIsLinked, QueueIsLinked,
              FetchIsLinked, HopsAreTrusted, Linked, LinkedFrom
<1>7. CASE UNCHANGED vars
  BY <1>7 DEF vars, CInv, CrawlTypeOK, WithinBudget, TrustIsLinked, QueueIsLinked,
              FetchIsLinked, HopsAreTrusted, Linked, LinkedFrom
<1> QED
  BY <1>1, <1>2, <1>3, <1>4, <1>5, <1>6, <1>7 DEF Next, Step

(* The invariant of every crawl.                                           *)
LEMMA CrawlInvariant == Spec => []CInv
BY CrawlInit, CrawlStep, PTL DEF Spec

(* The variables of a crawl keep their types, for any web (_crawl).        *)
THEOREM CrawlerType == Spec => []CrawlTypeOK
<1>1. CInv => CrawlTypeOK
  BY DEF CInv
<1> QED
  BY <1>1, CrawlInvariant, PTL

(* No crawl makes more requests than max_requests, follows more redirects  *)
(* than max_redirects for a page, or keeps a page of a refused address     *)
(* (_fetch).                                                               *)
THEOREM CrawlerWithinBudget == Spec => []WithinBudget
<1>1. CInv => WithinBudget
  BY DEF CInv
<1> QED
  BY <1>1, CrawlInvariant, PTL

(* Every page below the seeds was linked by a page of a host that the      *)
(* company has, or has linked (_TrustedJobNavigation.admit).               *)
THEOREM CrawlerHopsAreTrusted == Spec => []HopsAreTrusted
<1>1. CInv => HopsAreTrusted
  BY DEF CInv
<1> QED
  BY <1>1, CrawlInvariant, PTL
-----------------------------------------------------------------------------
(* What the crawl owes: the seeds, and the links within the depth limit.   *)
Owed == Found \cup {Seeds[i] : i \in DOMAIN Seeds}

(* An address that is owed is requested or waits in the frontier.          *)
OwedIsKept == \A u \in Owed : u \in seen \/ \E e \in queue : e.url = u

(* An entry has the rank of its address, or goes before all as a seed.     *)
RanksAreTrue ==
  \A e \in queue : e.rank <= Rank[e.url] /\ (e.depth > 0 => e.rank = Rank[e.url])

(* Pages, and the page that is being fetched, are requested once each.     *)
RequestsAreOnce ==
  /\ \A i \in DOMAIN pages : pages[i].requested \in seen
  /\ fetch # <<>> => /\ fetch[1].requested \in seen
                     /\ \A i \in DOMAIN pages :
                          pages[i].requested # fetch[1].requested

FInv == CInv /\ OwedIsKept /\ RanksAreTrue /\ RequestsAreOnce /\ PagesAreDistinct

(* A better entry is behind nothing worse: the one that is taken has the   *)
(* least rank.                                                             *)
LEMMA FirstIsBest ==
  ASSUME CrawlTypeOK, NEW e \in queue, First(e), NEW f \in queue
  PROVE  e.rank <= f.rank
<1>1. e.rank \in Nat \cup {-1} /\ f.rank \in Nat \cup {-1}
  BY DEF CrawlTypeOK, Entry
<1>2. CASE f = e
  BY <1>1, <1>2
<1>3. CASE f # e
  <2>1. Before(e, f)
    BY <1>3 DEF First
  <2> QED
    BY <1>1, <2>1 DEF Before
<1> QED
  BY <1>2, <1>3

LEMMA FrontierInit == Init => FInv
<1> SUFFICES ASSUME Init PROVE FInv
  OBVIOUS
<1>1. pages = <<>> /\ fetch = <<>> /\ Found = {}
  BY DEF Init, Found
<1>2. OwedIsKept
  <2> SUFFICES ASSUME NEW i \in DOMAIN Seeds PROVE \E e \in queue : e.url = Seeds[i]
    BY <1>1 DEF OwedIsKept, Owed
  <2>1. SeedEntry(i) \in queue
    BY DEF Init
  <2>2. SeedEntry(i).url = Seeds[i]
    BY DEF SeedEntry
  <2> QED
    BY <2>1, <2>2
<1>3. RanksAreTrue
  <2> SUFFICES ASSUME NEW i \in DOMAIN Seeds
               PROVE  -1 <= Rank[Seeds[i]]
    BY DEF Init, RanksAreTrue, SeedEntry
  <2>1. Seeds[i] \in Urls
    BY CrawlerAssumption
  <2>2. Rank[Seeds[i]] \in Nat
    BY <2>1, CrawlerAssumption
  <2> QED
    BY <2>2
<1>4. RequestsAreOnce /\ PagesAreDistinct
  BY <1>1 DEF RequestsAreOnce, PagesAreDistinct
<1> QED
  BY <1>2, <1>3, <1>4, CrawlInit DEF FInv

(* An entry leaves the frontier for the requested addresses.               *)
LEMMA PopFInv ==
  ASSUME FInv, NEW e \in queue, Pop(e)
  PROVE  FInv'
<1> DEFINE f == [requested |-> e.url, current |-> e.url, hops |-> 0, depth |-> e.depth]
<1>1. queue' = queue \ {e} /\ pages' = pages /\ fetch = <<>>
  BY DEF Pop, Crawling
<1>2. \/ e.url \in seen /\ seen' = seen /\ fetch' = fetch
      \/ e.url \notin seen /\ seen' = seen \cup {e.url} /\ fetch' = <<f>>
  BY DEF Pop, Requested
<1>3. OwedIsKept'
  <2>1. Owed' = Owed
    BY <1>1 DEF Owed, Found
  <2> SUFFICES ASSUME NEW u \in Owed PROVE u \in seen' \/ \E g \in queue' : g.url = u
    BY <2>1 DEF OwedIsKept
  <2> QED
    BY <1>1, <1>2 DEF FInv, OwedIsKept
<1>4. RanksAreTrue' /\ PagesAreDistinct'
  BY <1>1 DEF FInv, RanksAreTrue, PagesAreDistinct
<1>5. RequestsAreOnce'
  <2>1. CASE fetch' = fetch
    BY <1>1, <1>2, <2>1 DEF FInv, RequestsAreOnce
  <2>2. CASE e.url \notin seen /\ seen' = seen \cup {e.url} /\ fetch' = <<f>>
    <3>1. fetch'[1].requested = e.url
      BY <2>2
    <3> HIDE DEF f
    <3> QED
      BY <1>1, <2>2, <3>1 DEF FInv, RequestsAreOnce
  <2> QED
    BY <1>2, <2>1, <2>2
<1> QED
  BY <1>3, <1>4, <1>5, PopCInv DEF FInv

(* A page given up, or redirected, stays requested under its address.      *)
LEMMA FetchFInv ==
  ASSUME FInv, CInv', UNCHANGED <<queue, seen, pages>>,
         \/ fetch' = <<>>
         \/ fetch # <<>> /\ fetch'[1].requested = fetch[1].requested
  PROVE  FInv'
<1>1. OwedIsKept' /\ RanksAreTrue' /\ PagesAreDistinct'
  BY DEF FInv, OwedIsKept, Owed, Found, RanksAreTrue, PagesAreDistinct
<1>2. RequestsAreOnce'
  BY DEF FInv, RequestsAreOnce
<1> QED
  BY <1>1, <1>2 DEF FInv

(* The links of a page within the depth limit join the frontier.           *)
LEMMA AnsweredFInv ==
  ASSUME FInv, NEW listed \in Listings, Answered(listed)
  PROVE  FInv'
<1> DEFINE f == fetch[1]
           links == {u \in listed : Admits(f.current, u)}
           fresh == Fresh(links, f.depth)
           q == [requested |-> f.requested, url |-> f.current, links |-> links,
                 depth |-> f.depth]
           n == Len(pages)
<1>1. fetch # <<>> /\ seen' = seen /\ pages' = Append(pages, q) /\ fetch' = <<>>
  BY DEF Answered, Request
<1>2. PICK order \in Numberings(fresh) :
        queue' = queue \cup {[rank |-> Rank[u], index |-> order[u], url |-> u,
                              depth |-> f.depth + 1] : u \in fresh}
  BY DEF Answered
<1>3. f \in Fetch
  BY <1>1, FetchType DEF FInv, CInv
<1>4. links \subseteq Urls
  BY DEF Listings, kSubset
<1>5. q \in Page
  BY <1>3, <1>4 DEF Fetch, Page
<1>6. /\ pages \in Seq(Page) /\ n \in Nat /\ Len(pages') = n + 1
      /\ DOMAIN pages = 1 .. n /\ DOMAIN pages' = 1 .. n + 1
      /\ \A i \in 1 .. n : pages'[i] = pages[i]
      /\ pages'[n + 1] = q
  BY <1>1, <1>5, AppendProperties DEF FInv, CInv, CrawlTypeOK
<1>7. fresh = IF f.depth < MaxDepth THEN {u \in links : u \notin seen} ELSE {}
  BY DEF Fresh, MayDeepen, Requested
<1>8. Found' \subseteq Found \cup (IF f.depth < MaxDepth THEN links ELSE {})
  <2> SUFFICES ASSUME NEW i \in 1 .. n + 1, pages'[i].depth < MaxDepth, NEW u \in pages'[i].links
               PROVE  u \in Found \/ (f.depth < MaxDepth /\ u \in links)
    BY <1>6 DEF Found
  <2>1. CASE i \in 1 .. n
    BY <1>6, <2>1 DEF Found
  <2>2. CASE i = n + 1
    BY <1>6, <2>2
  <2> QED
    BY <1>6, <2>1, <2>2
<1>9. OwedIsKept'
  <2> SUFFICES ASSUME NEW u \in Owed' PROVE u \in seen \/ \E e \in queue' : e.url = u
    BY <1>1 DEF OwedIsKept
  <2>1. CASE u \in Owed
    BY <1>2, <2>1 DEF FInv, OwedIsKept
  <2>2. CASE u \in fresh
    <3> DEFINE e == [rank |-> Rank[u], index |-> order[u], url |-> u, depth |-> f.depth + 1]
    <3>1. e \in queue'
      BY <1>2, <2>2
    <3>2. e.url = u
      OBVIOUS
    <3> HIDE DEF e
    <3> QED
      BY <3>1, <3>2
  <2>3. u \in Owed \/ u \in seen \/ u \in fresh
    BY <1>7, <1>8 DEF Owed
  <2> QED
    BY <2>1, <2>2, <2>3
<1>10. RanksAreTrue'
  <2>1. ASSUME NEW u \in fresh PROVE Rank[u] <= Rank[u]
    <3>1. u \in Urls
      BY <1>4, <1>7
    <3>2. Rank[u] \in Nat
      BY <3>1, CrawlerAssumption
    <3> QED
      BY <3>2
  <2> HIDE DEF fresh
  <2> QED
    BY <1>2, <2>1 DEF FInv, RanksAreTrue
<1>11. RequestsAreOnce'
  <2> SUFFICES ASSUME NEW i \in 1 .. n + 1 PROVE pages'[i].requested \in seen
    BY <1>1, <1>6 DEF RequestsAreOnce
  <2> QED
    BY <1>1, <1>6 DEF FInv, RequestsAreOnce
<1>12. PagesAreDistinct'
  <2> SUFFICES ASSUME NEW i \in 1 .. n + 1, NEW j \in 1 .. n + 1,
                      pages'[i].requested = pages'[j].requested
               PROVE  i = j
    BY <1>6 DEF PagesAreDistinct
  <2>1. \A k \in 1 .. n : pages'[k].requested # pages'[n + 1].requested
    BY <1>1, <1>6 DEF FInv, RequestsAreOnce
  <2>2. CASE i \in 1 .. n /\ j \in 1 .. n
    BY <1>6, <2>2 DEF FInv, PagesAreDistinct
  <2> QED
    BY <1>6, <2>1, <2>2
<1> QED
  BY <1>9, <1>10, <1>11, <1>12, AnsweredCInv DEF FInv

LEMMA FrontierStep == FInv /\ [Next]_vars => FInv'
<1> SUFFICES ASSUME FInv, [Next]_vars PROVE FInv'
  OBVIOUS
<1>0. CInv'
  BY CrawlStep DEF FInv
<1>1. ASSUME NEW e \in queue, Pop(e) PROVE FInv'
  BY <1>1, PopFInv
<1>2. CASE Refuse \/ RequestFails
  BY <1>0, <1>2, FetchFInv DEF Refuse, RequestFails, GiveUp
<1>3. ASSUME NEW to \in Urls, Redirected(to) PROVE FInv'
  <2>1. /\ fetch # <<>> /\ UNCHANGED <<queue, seen, pages>>
        /\ fetch' = <<[fetch[1] EXCEPT !.current = to, !.hops = @ + 1]>>
    BY <1>3 DEF Redirected, Request
  <2>2. fetch[1] \in Fetch
    BY <2>1, FetchType DEF FInv, CInv
  <2>3. fetch'[1].requested = fetch[1].requested
    BY <2>1, <2>2, MovedFetch
  <2> QED
    BY <1>0, <2>1, <2>3, FetchFInv
<1>4. ASSUME NEW listed \in Listings, Answered(listed) PROVE FInv'
  BY <1>4, AnsweredFInv
<1>5. CASE TimePasses \/ UNCHANGED vars
  <2>1. UNCHANGED <<queue, seen, pages, fetch>>
    BY <1>5 DEF TimePasses, vars
  <2>2. fetch' = <<>> \/ (fetch # <<>> /\ fetch'[1].requested = fetch[1].requested)
    BY <2>1
  <2> QED
    BY <1>0, <2>1, <2>2, FetchFInv
<1> QED
  BY <1>1, <1>2, <1>3, <1>4, <1>5 DEF Next, Step

LEMMA FrontierInvariant == Spec => []FInv
BY FrontierInit, FrontierStep, PTL DEF Spec

(* A crawl that ends with requests left has asked for every seed and for   *)
(* every link within the depth limit, whatever failed in between (_crawl). *)
THEOREM CrawlerMissesNothing == Spec => []NothingIsMissed
<1>1. FInv => NothingIsMissed
  <2> SUFFICES ASSUME FInv, Ended, made < MaxRequests PROVE Owed \subseteq seen
    BY DEF NothingIsMissed, Owed
  <2>1. Len(pages) \in Nat /\ made \in Nat /\ Len(pages) <= made
    BY LenProperties DEF FInv, CInv, CrawlTypeOK, WithinBudget
  <2>2. queue = {}
    BY <2>1, CrawlerAssumption DEF Ended, Crawling
  <2> QED
    BY <2>2 DEF FInv, OwedIsKept
<1> QED
  BY <1>1, FrontierInvariant, PTL

(* No address is crawled as a page twice, however often it is linked and   *)
(* whatever its earlier requests have answered (seen_urls in _crawl).      *)
THEOREM CrawlerPagesAreDistinct == Spec => []PagesAreDistinct
<1>1. FInv => PagesAreDistinct
  BY DEF FInv
<1> QED
  BY <1>1, FrontierInvariant, PTL

(* A link is requested only when no address of a better rank is known and  *)
(* unrequested: the frontier is sorted by rank whenever an entry is taken  *)
(* (queue.sort in _crawl).                                                 *)
THEOREM CrawlerIsBestFirst == Spec => BestFirst
<1> DEFINE Best == \A e \in queue \ queue' :
                     e.url \in seen' \ seen /\ e.depth > 0 =>
                       \A u \in Found \ seen : Rank[e.url] <= Rank[u]
<1>1. FInv /\ [Next]_vars => [Best]_vars
  <2> SUFFICES ASSUME FInv, Next, NEW e \in queue, e \notin queue',
                      e.url \in seen' \ seen, e.depth > 0, NEW u \in Found \ seen
               PROVE  Rank[e.url] <= Rank[u]
    OBVIOUS
  <2>1. seen' # seen
    OBVIOUS
  <2>2. PICK g \in queue : Pop(g)
    BY <2>1 DEF Next, Step, Refuse, RequestFails, Redirected, Answered, TimePasses, vars
  <2>3. g = e /\ First(e)
    BY <2>2 DEF Pop
  <2>4. PICK w \in queue : w.url = u
    BY DEF FInv, OwedIsKept, Owed
  <2>5. e.rank <= w.rank
    BY <2>3, FirstIsBest DEF FInv, CInv
  <2>6. e.rank = Rank[e.url] /\ w.rank <= Rank[u]
    BY <2>4 DEF FInv, RanksAreTrue
  <2>7. /\ e.rank \in Nat \cup {-1} /\ w.rank \in Nat \cup {-1} /\ w.url \in Urls
    BY DEF FInv, CInv, CrawlTypeOK, Entry
  <2>8. Rank[u] \in Nat
    BY <2>4, <2>7, CrawlerAssumption
  <2> QED
    BY <2>5, <2>6, <2>7, <2>8
<1> QED
  BY <1>1, FrontierInvariant, PTL DEF Spec, BestFirst
=============================================================================
