----------------------- MODULE SourceAdapters_proofs -----------------------
(***************************************************************************)
(* Proofs about the fetches of all adapters for any site, page size and    *)
(* limits, whatever the site answers.                                      *)
(*                                                                         *)
(* While a fetch runs, the requests it counts are those it sent. Only the  *)
(* browser of Darwinbox counts otherwise: by the bodies it captured, or by *)
(* the count that was noted with the trouble.                              *)
(*                                                                         *)
(* The second part is about the sources of a Company, for any hosts, paths,*)
(* links and spellings; the third about what the fetches collect; the      *)
(* fourth about why they fail.                                             *)
(***************************************************************************)
EXTENDS SourceAdapters, FiniteSetTheorems, SequenceTheorems, WellFoundedInduction, TLAPS

Browsing == {"opening", "clicking", "closed"}

BodiesAreSent ==
  /\ Len(browser.bodies) <= sent
  /\ browser.trouble = {} => sent = Len(browser.bodies)
  /\ browser.trouble # {} =>
       \E n \in Nat : browser.trouble = {n} /\ n <= sent

RequestsAreSent ==
  /\ adapter = "darwinbox" /\ fetch.phase \in Browsing \cup {"start"} => BodiesAreSent
  /\ ~(adapter = "darwinbox" /\ fetch.phase \in Browsing) => fetch.requests = sent

Fields == {"phase", "requests", "records"}

Described(f) ==
  adapter # "generic" =>
    \A r \in f.records :
      r[1] = r[2] \/ (adapter = "jazzhr" /\ Title[r[1]] = Title[r[2]])

Nothing ==
  /\ fetch.phase = "start" /\ fetch.requests = 0 /\ fetch.records = {} /\ sent = 0
  /\ browser.bodies = <<>> /\ browser.trouble = {} /\ reported = 0

FetchInv ==
  /\ snaps \subseteq SUBSET Jobs /\ sent \in Nat
  /\ browser.bodies \in Seq(Answer) /\ {"bodies", "trouble"} \subseteq DOMAIN browser
  /\ Fields \subseteq DOMAIN fetch /\ Described(fetch)
  /\ outcome = "idle" => Nothing
  /\ outcome = "pending" => RequestsAreSent
  /\ RequestsAreReported

-----------------------------------------------------------------------------
LEMMA SmallestIsIn ==
  ASSUME NEW S \in SUBSET Nat, S # {}
  PROVE  First(S) \in S
<1> DEFINE R == {p \in Nat \X Nat : p[1] < p[2]}
<1>1. IsWellFoundedOn(R, Nat)
  BY NatLessThanWellFounded, Zenon DEF OpToRel
<1> HIDE DEF R
<1>2. PICK x \in S : \A y \in S : <<y, x>> \notin R
  BY <1>1, WFMin
<1>3. \A y \in S : x <= y
  <2>1. ASSUME NEW y \in S, y < x PROVE <<y, x>> \in R
    <3>1. <<y, x>> \in Nat \X Nat /\ <<y, x>>[1] = y /\ <<y, x>>[2] = x
      OBVIOUS
    <3> QED BY <2>1, <3>1, Zenon DEF R
  <2>2. ASSUME NEW y \in S PROVE x <= y
    <3>1. ~(y < x)
      BY <1>2, <2>1
    <3> QED BY <3>1
  <2> QED BY <2>2
<1> QED BY <1>3 DEF First, Min

LEMMA CountedIs ==
  ASSUME Fields \subseteq DOMAIN fetch
  PROVE  /\ DOMAIN Counted = DOMAIN fetch
         /\ Counted.requests = fetch.requests + 1
         /\ Counted.records = fetch.records /\ Counted.phase = fetch.phase
BY DEF Counted, Fields

(* A step of a fetch, but for the browser, goes on with all requests       *)
(* counted, returns so, or fails with no more than were sent.              *)
Goes(n) ==
  /\ outcome' = outcome /\ reported' = reported /\ fetch'.requests = n
  /\ Fields \subseteq DOMAIN fetch' /\ Described(fetch')
Ends(n) ==
  /\ outcome' = "returned" /\ reported' = n
  /\ Fields \subseteq DOMAIN fetch' /\ Described(fetch')
Fails(n) == outcome' = "raised" /\ reported' <= n /\ fetch' = fetch

LEMMA StepOfFetch ==
  ASSUME FetchInv, outcome = "pending",
         UNCHANGED <<adapter, site_vars, style, browser>>,
         sent' \in Nat,
         adapter = "darwinbox" => fetch'.phase \notin Browsing \cup {"start"} \/ outcome' # "pending",
         Goes(sent') \/ Ends(sent') \/ Fails(sent')
  PROVE  FetchInv'
<1>1. adapter' = adapter /\ snaps' = snaps /\ browser' = browser
  BY DEF site_vars
<1>2. Fields \subseteq DOMAIN fetch' /\ Described(fetch)'
  BY <1>1, Zenon DEF Goes, Ends, Fails, FetchInv, Described
<1>3. outcome' = "pending" => RequestsAreSent'
  BY <1>1 DEF Goes, Ends, Fails, RequestsAreSent
<1>4. RequestsAreReported'
  BY DEF Goes, Ends, Fails, RequestsAreReported
<1>5. outcome' # "idle"
  BY DEF Goes, Ends, Fails
<1> QED BY <1>1, <1>2, <1>3, <1>4, <1>5 DEF FetchInv

-----------------------------------------------------------------------------
(* What the steps of the adapters have in common: a step that sends no     *)
(* request or one goes on, returns or fails with what it has counted.      *)
Quiet == sent' = sent
Asks == sent' = sent + 1

LEMMA SentIs ==
  ASSUME sent \in Nat
  PROVE  /\ Silent => Quiet
         /\ \A true \in BOOLEAN : \A t : Request(true, t) => Asks
         /\ \A true \in BOOLEAN : Sends(true) => Asks
         /\ \A j : Refused(j) => Asks
         /\ Disturbed(0) => Quiet
         /\ Disturbed(1) => Asks
BY DEF Silent, Quiet, Asks, Request, Sends, Refused, Disturbed

(* The local variables after a step that took the records of S.            *)
Takes(f, S) ==
  /\ DOMAIN f = DOMAIN fetch /\ f.records \subseteq fetch.records \cup S
  /\ \A r \in S : r[1] = r[2] \/ (adapter = "jazzhr" /\ Title[r[1]] = Title[r[2]])

LEMMA OrdinaryStep ==
  ASSUME FetchInv, outcome = "pending",
         ~(adapter = "darwinbox" /\ fetch.phase \in Browsing),
         UNCHANGED <<adapter, site_vars, style, browser>>,
         Quiet \/ Asks, NEW f, NEW S, NEW n,
         Takes(f, S) \/ (adapter = "generic" /\ DOMAIN f = DOMAIN fetch),
         Quiet => f.requests = fetch.requests,
         Asks => f.requests = fetch.requests + 1,
         adapter = "darwinbox" => f.phase \notin Browsing \cup {"start"},
         \/ Proceeds(f)
         \/ Returns(f)
         \/ Raises(n) /\ n \in {0, fetch.requests}
         \/ Raises(n) /\ n = fetch.requests + 1 /\ Asks
  PROVE  FetchInv'
<1>1. sent \in Nat /\ fetch.requests = sent /\ sent' \in Nat /\ f.requests = sent'
      /\ sent <= sent'
  BY DEF FetchInv, RequestsAreSent, Quiet, Asks
<1>2. Fields \subseteq DOMAIN f /\ Described(f)
  BY Zenon DEF Takes, Described, FetchInv
<1>3. CASE Proceeds(f)
  BY <1>1, <1>2, <1>3, StepOfFetch DEF Proceeds, Goes
<1>4. CASE Returns(f)
  BY <1>1, <1>2, <1>4, StepOfFetch DEF Returns, Ends
<1>5. CASE Raises(n)
  <2>1. n <= sent'
    BY <1>1, <1>3, <1>4, <1>5 DEF Asks, Proceeds, Returns, Raises
  <2> QED BY <1>1, <1>5, <2>1, StepOfFetch DEF Raises, Fails
<1> QED BY <1>3, <1>4, <1>5

(* A request that is broken, and one that is refused.                      *)
LEMMA FailedStep ==
  ASSUME FetchInv, outcome = "pending",
         ~(adapter = "darwinbox" /\ fetch.phase \in Browsing),
         UNCHANGED <<adapter, site_vars, style, browser>>,
         \/ Broken
         \/ Asks /\ Raises(fetch.requests + 1)
         \/ Quiet /\ Raises(fetch.requests)
         \/ (Quiet \/ Asks) /\ Raises(0)
  PROVE  FetchInv'
<1>1. sent \in Nat /\ fetch.requests = sent
  BY DEF FetchInv, RequestsAreSent
<1>2. sent' \in Nat /\ Fails(sent')
  BY <1>1, SentIs DEF Broken, Raises, Fails, Quiet, Asks
<1>3. outcome' = "raised"
  BY <1>2 DEF Fails
<1> QED BY <1>2, <1>3, StepOfFetch

(* A phase that ends with what it has.                                     *)
LEMMA ReturnStep ==
  ASSUME FetchInv, outcome = "pending",
         ~(adapter = "darwinbox" /\ fetch.phase \in Browsing),
         UNCHANGED <<adapter, site_vars, style, browser>>,
         Silent, Returns(fetch)
  PROVE  FetchInv'
<1>1. sent \in Nat /\ fetch.requests = sent /\ sent' = sent
  BY DEF FetchInv, RequestsAreSent, Silent
<1>2. Ends(sent') /\ outcome' = "returned"
  BY <1>1 DEF Returns, Ends, FetchInv, Described
<1> QED BY <1>1, <1>2, StepOfFetch

-----------------------------------------------------------------------------
(* Lever, Zoho Recruit, LinkedIn: one kind of request.                     *)
LEMMA SameIsOwn == ASSUME NEW S PROVE \A r \in Same(S) : r[1] = r[2]
BY DEF Same

LEMMA LeverKeeps ==
  ASSUME FetchInv, LeverPage
  PROVE  FetchInv'
<1>0. outcome = "pending" /\ adapter = "lever" /\ sent \in Nat
      /\ UNCHANGED <<adapter, site_vars, style, browser>>
      /\ Fields \subseteq DOMAIN fetch
  BY DEF LeverPage, Running, FetchInv
<1>1. CASE Broken
  BY <1>0, <1>1, FailedStep
<1>2. ASSUME NEW page \in Pages,
         LET new == page \ fetch.seen
             now == [Counted EXCEPT !.page = @ + 1, !.skip = @ + LeverSkips(page),
                       !.seen = @ \cup page, !.records = @ \cup LeverRecords(new)]
         IN  /\ Sends(page = Window(fetch.skip, PageSize))
             /\ Proceeds(now) \/ Returns(now) \/ Raises(now.requests)
      PROVE FetchInv'
  <2> DEFINE new == page \ fetch.seen
             now == [Counted EXCEPT !.page = @ + 1, !.skip = @ + LeverSkips(page),
                       !.seen = @ \cup page, !.records = @ \cup LeverRecords(new)]
  <2>1. Asks
    BY <1>0, <1>2, SentIs
  <2>2. DOMAIN now = DOMAIN fetch /\ now.requests = fetch.requests + 1
        /\ now.records = fetch.records \cup Same(new)
    BY <1>0, CountedIs DEF LeverRecords, Fields
  <2>3. Proceeds(now) \/ Returns(now) \/ Raises(now.requests)
    BY <1>2
  <2> HIDE DEF now, new
  <2>4. Takes(now, Same(new)) /\ ~Quiet
    BY <1>0, <2>1, <2>2, SameIsOwn DEF Takes, Quiet, Asks
  <2> QED BY <1>0, <2>1, <2>2, <2>3, <2>4, OrdinaryStep
<1> QED BY <1>1, <1>2, Zenon DEF LeverPage

LEMMA ZohoKeeps ==
  ASSUME FetchInv, ZohoListing
  PROVE  FetchInv'
<1>0. outcome = "pending" /\ adapter = "zoho_recruit" /\ sent \in Nat
      /\ UNCHANGED <<adapter, site_vars, style, browser>>
      /\ Fields \subseteq DOMAIN fetch /\ fetch.records = fetch.records
  BY DEF ZohoListing, Running, FetchInv
<1>1. CASE Broken
  BY <1>0, <1>1, FailedStep
<1>2. ASSUME NEW page \in SUBSET Ever, Sends(page = Shown),
             \/ Returns([Counted EXCEPT !.seen = page, !.records = Same(page)])
             \/ Raises(fetch.requests + 1)
      PROVE FetchInv'
  <2> DEFINE now == [Counted EXCEPT !.seen = page, !.records = Same(page)]
  <2>1. Asks
    BY <1>0, <1>2, SentIs
  <2>2. DOMAIN now = DOMAIN fetch /\ now.requests = fetch.requests + 1
        /\ now.records = Same(page)
    BY <1>0, CountedIs DEF Fields
  <2>3. Returns(now) \/ Raises(fetch.requests + 1)
    BY <1>2
  <2> HIDE DEF now
  <2>4. Takes(now, Same(page)) /\ ~Quiet
    BY <1>0, <2>1, <2>2, SameIsOwn DEF Takes, Quiet, Asks
  <2>5. CASE Raises(fetch.requests + 1)
    BY <1>0, <2>1, <2>5, FailedStep
  <2> QED BY <1>0, <2>1, <2>2, <2>3, <2>4, <2>5, OrdinaryStep
<1> QED BY <1>1, <1>2, Zenon DEF ZohoListing

LEMMA LinkedInKeeps ==
  ASSUME FetchInv, LinkedInBatch
  PROVE  FetchInv'
<1>0. outcome = "pending" /\ adapter = "linkedin" /\ sent \in Nat
      /\ UNCHANGED <<adapter, site_vars, style, browser>>
      /\ Fields \subseteq DOMAIN fetch
  BY DEF LinkedInBatch, Running, FetchInv
<1>1. CASE Broken
  BY <1>0, <1>1, FailedStep
<1>2. CASE Raises(fetch.requests) /\ Silent
  BY <1>0, <1>2, SentIs, FailedStep
<1>3. ASSUME NEW page \in Pages,
         LET overlap == IF page \subseteq fetch.seen THEN fetch.overlap + 1 ELSE 0
             now == [Counted EXCEPT !.seen = @ \cup page, !.overlap = overlap,
                       !.records = @ \cup Same(page), !.shown = @ \cup {page}]
         IN  /\ Sends(page = Window(Offset(fetch.requests), PageSize))
             /\ Proceeds(now) \/ Returns(now) \/ Raises(now.requests)
      PROVE FetchInv'
  <2> DEFINE overlap == IF page \subseteq fetch.seen THEN fetch.overlap + 1 ELSE 0
             now == [Counted EXCEPT !.seen = @ \cup page, !.overlap = overlap,
                       !.records = @ \cup Same(page), !.shown = @ \cup {page}]
  <2>1. Asks
    BY <1>0, <1>3, SentIs
  <2> HIDE DEF overlap
  <2>2. DOMAIN now = DOMAIN fetch /\ now.requests = fetch.requests + 1
        /\ now.records = fetch.records \cup Same(page)
    BY <1>0, CountedIs DEF Fields
  <2>3. Proceeds(now) \/ Returns(now) \/ Raises(now.requests)
    BY <1>3 DEF overlap
  <2> HIDE DEF now
  <2>4. Takes(now, Same(page)) /\ ~Quiet
    BY <1>0, <2>1, <2>2, SameIsOwn DEF Takes, Quiet, Asks
  <2> QED BY <1>0, <2>1, <2>2, <2>3, <2>4, OrdinaryStep
<1> QED BY <1>1, <1>2, <1>3, Zenon DEF LinkedInBatch

-----------------------------------------------------------------------------
(* DreamJobs and JazzHR: a listing, then one detail after the other.       *)
LEMMA DreamJobsPageKeeps ==
  ASSUME FetchInv, DreamJobsFirstPage \/ DreamJobsPage
  PROVE  FetchInv'
<1>0. outcome = "pending" /\ adapter = "dreamjobs" /\ sent \in Nat
      /\ UNCHANGED <<adapter, site_vars, style, browser>>
      /\ Fields \subseteq DOMAIN fetch
  BY DEF DreamJobsFirstPage, DreamJobsPage, In, Running, FetchInv
<1>1. CASE Broken
  BY <1>0, <1>1, FailedStep
<1>2. CASE NoCallLeft
  BY <1>0, <1>2, SentIs, FailedStep DEF NoCallLeft
<1>3. ASSUME NEW answer \in Answers, NEW n, Request(answer = TrueAnswer(n), {answer.total}),
             \/ Raises(fetch.requests + 1)
             \/ Proceeds([Counted EXCEPT !.phase = "listing", !.page = 1,
                            !.total = answer.total, !.seen = answer.jobs])
      PROVE FetchInv'
  <2> DEFINE now == [Counted EXCEPT !.phase = "listing", !.page = 1,
                            !.total = answer.total, !.seen = answer.jobs]
  <2>1. Asks
    BY <1>0, <1>3, SentIs
  <2>2. DOMAIN now = DOMAIN fetch /\ now.requests = fetch.requests + 1
        /\ now.records = fetch.records
    BY <1>0, CountedIs DEF Fields
  <2>3. Proceeds(now) \/ Raises(fetch.requests + 1)
    BY <1>3
  <2> HIDE DEF now
  <2>4. Takes(now, {}) /\ ~Quiet
    BY <1>0, <2>1, <2>2 DEF Takes, Quiet, Asks
  <2>5. CASE Raises(fetch.requests + 1)
    BY <1>0, <2>1, <2>5, FailedStep
  <2> QED BY <1>0, <2>1, <2>2, <2>3, <2>4, <2>5, OrdinaryStep
<1>4. ASSUME NEW answer \in Answers, NEW n, Request(answer = TrueAnswer(n), {answer.total}),
             \/ Raises(fetch.requests + 1)
             \/ Proceeds([Counted EXCEPT !.page = @ + 1, !.seen = @ \cup answer.jobs])
      PROVE FetchInv'
  <2> DEFINE now == [Counted EXCEPT !.page = @ + 1, !.seen = @ \cup answer.jobs]
  <2>1. Asks
    BY <1>0, <1>4, SentIs
  <2>2. DOMAIN now = DOMAIN fetch /\ now.requests = fetch.requests + 1
        /\ now.records = fetch.records
    BY <1>0, CountedIs DEF Fields
  <2>3. Proceeds(now) \/ Raises(fetch.requests + 1)
    BY <1>4
  <2> HIDE DEF now
  <2>4. Takes(now, {}) /\ ~Quiet
    BY <1>0, <2>1, <2>2 DEF Takes, Quiet, Asks
  <2>5. CASE Raises(fetch.requests + 1)
    BY <1>0, <2>1, <2>5, FailedStep
  <2> QED BY <1>0, <2>1, <2>2, <2>3, <2>4, <2>5, OrdinaryStep
<1>5. CASE DreamJobsFirstPage
  BY <1>1, <1>2, <1>3, <1>5, Zenon DEF DreamJobsFirstPage
<1>6. CASE DreamJobsPage
  BY <1>1, <1>2, <1>4, <1>6, Zenon DEF DreamJobsPage
<1> QED BY <1>5, <1>6

LEMMA DreamJobsDetailKeeps ==
  ASSUME FetchInv, DreamJobsDetail
  PROVE  FetchInv'
<1>0. outcome = "pending" /\ adapter = "dreamjobs" /\ sent \in Nat
      /\ UNCHANGED <<adapter, site_vars, style, browser>>
      /\ Fields \subseteq DOMAIN fetch
  BY DEF DreamJobsDetail, In, Running, FetchInv
<1>1. CASE Refused(First(fetch.queue)) /\ Raises(fetch.requests + 1)
  BY <1>0, <1>1, SentIs, FailedStep
<1>2. CASE NoCallLeft
  BY <1>0, <1>2, SentIs, FailedStep DEF NoCallLeft
<1>3. ASSUME NEW j, NEW k \in Ever, Sends(k = j),
             \/ Raises(fetch.requests + 1)
             \/ k = j /\ Proceeds([Counted EXCEPT !.queue = @ \ {j},
                                     !.records = @ \cup {<<j, k>>}])
      PROVE FetchInv'
  <2> DEFINE now == [Counted EXCEPT !.queue = @ \ {j}, !.records = @ \cup {<<j, k>>}]
  <2>1. Asks
    BY <1>0, <1>3, SentIs
  <2>2. DOMAIN now = DOMAIN fetch /\ now.requests = fetch.requests + 1
        /\ now.records = fetch.records \cup {<<j, k>>}
    BY <1>0, CountedIs DEF Fields
  <2>3. Proceeds(now) \/ Raises(fetch.requests + 1)
    BY <1>3
  <2> HIDE DEF now
  <2>4. k = j => Takes(now, {<<j, j>>}) /\ ~Quiet
    BY <1>0, <2>1, <2>2 DEF Takes, Quiet, Asks
  <2>5. CASE Raises(fetch.requests + 1)
    BY <1>0, <2>1, <2>5, FailedStep
  <2>6. CASE k = j /\ Proceeds(now)
    BY <1>0, <2>1, <2>2, <2>4, <2>6, OrdinaryStep
  <2> QED BY <1>3, <2>5, <2>6 DEF now
<1> QED BY <1>1, <1>2, <1>3, Zenon DEF DreamJobsDetail

LEMMA DreamJobsKeeps ==
  ASSUME FetchInv, DreamJobsNext
  PROVE  FetchInv'
<1>1. CASE DreamJobsListed
  <2>0. outcome = "pending" /\ adapter = "dreamjobs" /\ sent \in Nat
      /\ UNCHANGED <<adapter, site_vars, style, browser>> /\ Quiet
      /\ Fields \subseteq DOMAIN fetch
    BY <1>1, SentIs DEF DreamJobsListed, In, Running, FetchInv
  <2> DEFINE now == [fetch EXCEPT !.phase = "details", !.queue = fetch.seen]
  <2>1. DOMAIN now = DOMAIN fetch /\ now.requests = fetch.requests
        /\ now.records = fetch.records
    BY <2>0 DEF Fields
  <2>2. Proceeds(now) \/ Raises(fetch.requests)
    BY <1>1 DEF DreamJobsListed
  <2> HIDE DEF now
  <2>3. Takes(now, {}) /\ ~Asks
    BY <2>0, <2>1 DEF Takes, Quiet, Asks
  <2> QED BY <2>0, <2>1, <2>2, <2>3, OrdinaryStep
<1>2. CASE DreamJobsReturns
  BY <1>2, ReturnStep DEF DreamJobsReturns, In, Running
<1> QED BY <1>1, <1>2, DreamJobsPageKeeps, DreamJobsDetailKeeps DEF DreamJobsNext

LEMMA JazzHRKeeps ==
  ASSUME FetchInv, JazzHRNext
  PROVE  FetchInv'
<1>0. outcome = "pending" /\ adapter = "jazzhr" /\ sent \in Nat
      /\ UNCHANGED <<adapter, site_vars, style, browser>>
      /\ Fields \subseteq DOMAIN fetch
  BY DEF JazzHRNext, JazzHRListing, JazzHRDetail, JazzHRReturns, In, Running, FetchInv
<1>1. CASE Broken
  BY <1>0, <1>1, FailedStep
<1>2. CASE Refused(First(fetch.queue)) /\ Raises(fetch.requests + 1)
  BY <1>0, <1>2, SentIs, FailedStep
<1>3. ASSUME NEW page \in SUBSET Ever, Sends(page = site),
             \/ Raises(fetch.requests + 1)
             \/ Proceeds([Counted EXCEPT !.phase = "details", !.seen = page,
                                         !.queue = page])
      PROVE FetchInv'
  <2> DEFINE now == [Counted EXCEPT !.phase = "details", !.seen = page, !.queue = page]
  <2>1. Asks
    BY <1>0, <1>3, SentIs
  <2>2. DOMAIN now = DOMAIN fetch /\ now.requests = fetch.requests + 1
        /\ now.records = fetch.records
    BY <1>0, CountedIs DEF Fields
  <2>3. Proceeds(now) \/ Raises(fetch.requests + 1)
    BY <1>3
  <2> HIDE DEF now
  <2>4. Takes(now, {}) /\ ~Quiet
    BY <1>0, <2>1, <2>2 DEF Takes, Quiet, Asks
  <2>5. CASE Raises(fetch.requests + 1)
    BY <1>0, <2>1, <2>5, FailedStep
  <2> QED BY <1>0, <2>1, <2>2, <2>3, <2>4, <2>5, OrdinaryStep
<1>4. ASSUME NEW j, NEW detail \in Details,
             Sends(detail.job = j /\ detail.url = "own"),
             \/ Raises(fetch.requests + 1) \/ Raises(0)
             \/ /\ Describes(detail, j)
                /\ Proceeds([Counted EXCEPT !.queue = @ \ {j},
                               !.records = @ \cup {<<j, detail.job>>}])
      PROVE FetchInv'
  <2> DEFINE now == [Counted EXCEPT !.queue = @ \ {j},
                       !.records = @ \cup {<<j, detail.job>>}]
  <2>1. Asks
    BY <1>0, <1>4, SentIs
  <2>2. DOMAIN now = DOMAIN fetch /\ now.requests = fetch.requests + 1
        /\ now.records = fetch.records \cup {<<j, detail.job>>}
    BY <1>0, CountedIs DEF Fields
  <2>3. CASE Raises(fetch.requests + 1) \/ Raises(0)
    BY <1>0, <2>1, <2>3, FailedStep
  <2>4. CASE Describes(detail, j) /\ Proceeds(now)
    <3> HIDE DEF now
    <3>1. Title[detail.job] = Title[j]
      BY <2>4 DEF Describes, TitleIsListed
    <3>2. Takes(now, {<<j, detail.job>>}) /\ ~Quiet
      BY <1>0, <2>1, <2>2, <3>1 DEF Takes, Quiet, Asks
    <3> QED BY <1>0, <2>1, <2>2, <2>4, <3>2, OrdinaryStep
  <2> QED BY <1>4, <2>3, <2>4
<1>5. CASE JazzHRListing
  BY <1>1, <1>3, <1>5, Zenon DEF JazzHRListing
<1>6. CASE JazzHRDetail
  BY <1>2, <1>4, <1>6, Zenon DEF JazzHRDetail
<1>7. CASE JazzHRReturns
  BY <1>7, ReturnStep DEF JazzHRReturns, In, Running
<1> QED BY <1>5, <1>6, <1>7 DEF JazzHRNext

-----------------------------------------------------------------------------
(* The generic adapter: what it goes on with has the count of now.         *)
LEMMA FollowsGoesOn ==
  ASSUME NEW r, NEW now, Follows(r, now), Fields \subseteq DOMAIN now
  PROVE  \/ Raises(now.requests)
         \/ \E f : /\ Proceeds(f) /\ DOMAIN f = DOMAIN now
                   /\ f.requests = now.requests
<1>1. ASSUME NEW a, Proceeds([now EXCEPT !.at = a])
      PROVE  \E f : Proceeds(f) /\ DOMAIN f = DOMAIN now /\ f.requests = now.requests
  BY <1>1 DEF Fields
<1>2. CASE Extracts(now)
  <2> DEFINE e == [now EXCEPT !.phase = "details", !.queue = Named(now.seen),
                     !.records = Same(Named(now.seen))]
  <2>1. DOMAIN e = DOMAIN now /\ e.requests = now.requests
    BY DEF Fields
  <2>2. Raises(now.requests) \/ Proceeds(e)
    BY <1>2 DEF Extracts
  <2> QED BY <2>1, <2>2
<1> QED BY <1>1, <1>2 DEF Follows

LEMMA GenericKeeps ==
  ASSUME FetchInv, GenericNext
  PROVE  FetchInv'
<1>0. outcome = "pending" /\ adapter = "generic" /\ sent \in Nat
      /\ UNCHANGED <<adapter, site_vars, style, browser>>
      /\ Fields \subseteq DOMAIN fetch
  BY DEF GenericNext, GenericPage, GenericDetail, GenericReturns, In, Running, FetchInv
<1>1. CASE Broken \/ Escapes
  BY <1>0, <1>1, SentIs, FailedStep DEF Escapes
<1>2. CASE (Disturbed(0) \/ Silent) /\ Raises(fetch.requests)
  BY <1>0, <1>2, SentIs, FailedStep
<1>3. ASSUME NEW r, Sends(r = TrueResponse(fetch.at)),
             Follows(r, [Counted EXCEPT !.page = @ + 1, !.asked = @ \cup {fetch.at},
                                        !.seen = @ \cup r.jobs])
      PROVE  FetchInv'
  <2> DEFINE now == [Counted EXCEPT !.page = @ + 1, !.asked = @ \cup {fetch.at},
                                    !.seen = @ \cup r.jobs]
  <2>0. Asks
    BY <1>0, <1>3, SentIs
  <2>1. Asks /\ ~Quiet
    BY <1>0, <2>0 DEF Asks, Quiet
  <2>2. DOMAIN now = DOMAIN fetch /\ now.requests = fetch.requests + 1
    BY <1>0, CountedIs DEF Fields
  <2>3. Follows(r, now)
    BY <1>3
  <2> HIDE DEF now
  <2>4. CASE Raises(now.requests)
    BY <1>0, <2>1, <2>2, <2>4, FailedStep
  <2>5. ASSUME NEW f, Proceeds(f), DOMAIN f = DOMAIN now, f.requests = now.requests
        PROVE  FetchInv'
    BY <1>0, <2>1, <2>2, <2>5, OrdinaryStep
  <2> QED BY <1>0, <2>2, <2>3, <2>4, <2>5, FollowsGoesOn
<1>4. CASE GenericPage
  BY <1>1, <1>2, <1>3, <1>4, Zenon DEF GenericPage
<1>5. CASE GenericDetail
  <2> DEFINE j == First(fetch.queue)
             now == [Counted EXCEPT !.queue = @ \ {j}, !.skip = @ + 1]
             next == [fetch EXCEPT !.queue = @ \ {j}]
             read(k) == [now EXCEPT !.records = (@ \ {<<j, j>>}) \cup {<<j, k>>}]
  <2> HIDE DEF j
  <2>1. DOMAIN now = DOMAIN fetch /\ now.requests = fetch.requests + 1
        /\ DOMAIN next = DOMAIN fetch /\ next.requests = fetch.requests
    BY <1>0, CountedIs DEF Fields
  <2>2. \/ Proceeds(next) /\ Silent
        \/ Sends(FALSE) /\ Proceeds(now)
        \/ Escapes
        \/ \E k \in Ever : Sends(k = j) /\ Proceeds(read(k))
    BY <1>5 DEF GenericDetail, j
  <2>3. ASSUME NEW k
        PROVE  DOMAIN read(k) = DOMAIN fetch /\ read(k).requests = fetch.requests + 1
    <3> HIDE DEF now
    <3> QED BY <1>0, <2>1 DEF Fields
  <2> HIDE DEF now, next, read
  <2>4. CASE Proceeds(next) /\ Silent
    <3>1. Quiet /\ ~Asks
      BY <1>0, <2>4, SentIs DEF Quiet, Asks
    <3> QED BY <1>0, <2>1, <2>4, <3>1, OrdinaryStep
  <2>5. ASSUME NEW f, DOMAIN f = DOMAIN fetch, f.requests = fetch.requests + 1,
               NEW true \in BOOLEAN, Sends(true), Proceeds(f)
        PROVE  FetchInv'
    <3>1. Asks /\ ~Quiet
      BY <1>0, <2>5, SentIs DEF Quiet, Asks
    <3> QED BY <1>0, <2>5, <3>1, OrdinaryStep
  <2>6. CASE Sends(FALSE) /\ Proceeds(now)
    BY <2>1, <2>5, <2>6
  <2>7. ASSUME NEW k \in Ever, Sends(k = j), Proceeds(read(k))
        PROVE  FetchInv'
    BY <2>3, <2>5, <2>7
  <2> QED BY <1>1, <2>2, <2>4, <2>6, <2>7
<1>6. CASE GenericReturns
  BY <1>6, <1>0, ReturnStep DEF GenericReturns, In, Running
<1> QED BY <1>4, <1>5, <1>6 DEF GenericNext

-----------------------------------------------------------------------------
(* Darwinbox without its browser, and the pages out of the browser.        *)
LEMMA TakePageIs ==
  ASSUME NEW answer, NEW now, TakePage(answer, now), Fields \subseteq DOMAIN now
  PROVE  \/ Raises(now.requests)
         \/ \E f : /\ Proceeds(f) /\ DOMAIN f = DOMAIN now
                   /\ f.requests = now.requests /\ f.records = now.records
                   /\ f.phase = "postings"
<1> DEFINE new == answer.jobs \ now.seen
           e == [now EXCEPT !.phase = "postings", !.queue = new, !.total = answer.total]
<1>1. /\ DOMAIN e = DOMAIN now /\ e.requests = now.requests
      /\ e.records = now.records /\ e.phase = "postings"
  BY DEF Fields
<1>2. Raises(now.requests) \/ Proceeds(e)
  BY DEF TakePage
<1> QED BY <1>1, <1>2

LEMMA DarwinboxPageKeeps ==
  ASSUME FetchInv, DarwinboxPage \/ DarwinboxRead
  PROVE  FetchInv'
<1>0. outcome = "pending" /\ adapter = "darwinbox" /\ sent \in Nat
      /\ UNCHANGED <<adapter, site_vars, style, browser>>
      /\ Fields \subseteq DOMAIN fetch /\ fetch.phase \in {"listing", "reading"}
  BY DEF DarwinboxPage, DarwinboxRead, In, Running, FetchInv
<1>1. fetch.phase \notin Browsing /\ "postings" \notin Browsing \cup {"start"}
  BY <1>0 DEF Browsing
<1>2. CASE Broken
  BY <1>0, <1>1, <1>2, FailedStep
<1>3. CASE Silent /\ Raises(fetch.requests)
  BY <1>0, <1>1, <1>3, SentIs, FailedStep
<1>4. ASSUME NEW answer \in Answers, NEW true \in BOOLEAN,
             Request(true, {answer.total}), TakePage(answer, Counted)
      PROVE  FetchInv'
  <2>1. Asks
    BY <1>0, <1>4, SentIs
  <2>2. ~Quiet
    BY <1>0, <2>1 DEF Asks, Quiet
  <2>3. CASE Raises(Counted.requests)
    BY <1>0, <1>1, <2>1, <2>3, CountedIs, FailedStep
  <2>4. ASSUME NEW f, Proceeds(f), DOMAIN f = DOMAIN Counted, f.phase = "postings",
               f.requests = Counted.requests, f.records = Counted.records
        PROVE  FetchInv'
    <3>1. Takes(f, {}) /\ f.requests = fetch.requests + 1
      BY <1>0, <2>4, CountedIs DEF Takes
    <3> QED BY <1>0, <1>1, <2>1, <2>2, <2>4, <3>1, OrdinaryStep
  <2> QED BY <1>0, <1>4, <2>3, <2>4, CountedIs, TakePageIs
<1>5. ASSUME NEW answer, Silent, TakePage(answer, fetch)
      PROVE  FetchInv'
  <2>1. Quiet /\ ~Asks
    BY <1>0, <1>5, SentIs DEF Asks, Quiet
  <2>2. ASSUME NEW f, Proceeds(f), DOMAIN f = DOMAIN fetch, f.phase = "postings",
               f.requests = fetch.requests, f.records = fetch.records
        PROVE  FetchInv'
    <3>1. Takes(f, {})
      BY <2>2 DEF Takes
    <3> QED BY <1>0, <1>1, <2>1, <2>2, <3>1, OrdinaryStep
  <2> QED BY <1>0, <1>3, <1>5, <2>2, TakePageIs
<1>6. CASE DarwinboxPage
  BY <1>2, <1>4, <1>6, Zenon DEF DarwinboxPage
<1>7. CASE DarwinboxRead
  BY <1>3, <1>5, <1>7, Zenon DEF DarwinboxRead
<1> QED BY <1>6, <1>7

(* The postings of a page, and its end.                                    *)
LEMMA DarwinboxPostingKeeps ==
  ASSUME FetchInv, DarwinboxPosting
  PROVE  FetchInv'
<1> DEFINE j == First(fetch.queue)
<1> HIDE DEF j
<1>0. outcome = "pending" /\ adapter = "darwinbox" /\ sent \in Nat
      /\ UNCHANGED <<adapter, site_vars, style, browser>>
      /\ Fields \subseteq DOMAIN fetch /\ fetch.phase = "postings"
      /\ fetch.requests = sent
  BY DEF DarwinboxPosting, In, Running, FetchInv, RequestsAreSent, Browsing
<1>1. fetch.phase \notin Browsing \cup {"start"}
  BY <1>0 DEF Browsing
<1>2. CASE Silent /\ Keeps(j, fetch)
  <2> DEFINE f == [fetch EXCEPT !.seen = @ \cup {j}, !.queue = @ \ {j},
                     !.records = @ \cup {<<j, j>>}]
  <2>1. Quiet /\ ~Asks
    BY <1>0, <1>2, SentIs DEF Asks, Quiet
  <2>2. DOMAIN f = DOMAIN fetch /\ f.requests = fetch.requests
        /\ f.phase = fetch.phase /\ f.records = fetch.records \cup {<<j, j>>}
    BY <1>0 DEF Fields
  <2>3. Raises(fetch.requests) \/ Proceeds(f)
    BY <1>2 DEF Keeps
  <2> HIDE DEF f
  <2>4. Takes(f, {<<j, j>>})
    BY <2>2 DEF Takes
  <2> QED BY <1>0, <1>1, <2>1, <2>2, <2>3, <2>4, OrdinaryStep
<1>3. CASE Refused(j) /\ Raises(fetch.requests + 1)
  BY <1>0, <1>1, <1>3, SentIs, FailedStep
<1>4. ASSUME NEW n \in {0, 2}, Disturbed(n), Raises(fetch.requests + n)
      PROVE  FetchInv'
  <2>1. sent' = sent + n /\ sent' \in Nat
    BY <1>0, <1>4 DEF Disturbed
  <2>2. Fails(sent') /\ outcome' = "raised"
    BY <1>0, <1>4, <2>1 DEF Raises, Fails
  <2> QED BY <1>0, <2>1, <2>2, StepOfFetch
<1>5. ASSUME NEW k \in Ever, Sends(k = j),
             \/ Raises(fetch.requests + 1)
             \/ /\ k = j
                /\ Proceeds([Counted EXCEPT !.seen = @ \cup {j}, !.queue = @ \ {j},
                                            !.records = @ \cup {<<j, k>>}])
      PROVE  FetchInv'
  <2> DEFINE f == [Counted EXCEPT !.seen = @ \cup {j}, !.queue = @ \ {j},
                                  !.records = @ \cup {<<j, k>>}]
  <2>1. Asks
    BY <1>0, <1>5, SentIs
  <2>2. DOMAIN f = DOMAIN fetch /\ f.requests = fetch.requests + 1
        /\ f.phase = fetch.phase /\ f.records = fetch.records \cup {<<j, k>>}
    BY <1>0, CountedIs DEF Fields
  <2>3. CASE Raises(fetch.requests + 1)
    BY <1>0, <1>1, <2>1, <2>3, FailedStep
  <2>4. CASE k = j /\ Proceeds(f)
    <3> HIDE DEF f
    <3>1. Takes(f, {<<j, k>>}) /\ ~Quiet
      BY <1>0, <2>1, <2>2, <2>4 DEF Takes, Asks, Quiet
    <3> QED BY <1>0, <1>1, <2>1, <2>2, <2>4, <3>1, OrdinaryStep
  <2> QED BY <1>5, <2>3, <2>4
<1> QED BY <1>2, <1>3, <1>4, <1>5, Zenon DEF DarwinboxPosting, DetailIsOf, j

LEMMA DarwinboxPageEndsKeeps ==
  ASSUME FetchInv, DarwinboxPageEnds
  PROVE  FetchInv'
<1>0. outcome = "pending" /\ adapter = "darwinbox" /\ sent \in Nat
      /\ UNCHANGED <<adapter, site_vars, style, browser>>
      /\ Fields \subseteq DOMAIN fetch /\ fetch.phase = "postings" /\ Silent
  BY DEF DarwinboxPageEnds, In, Running, FetchInv
<1>1. fetch.phase \notin Browsing
  BY <1>0 DEF Browsing
<1>2. CASE Returns(fetch)
  BY <1>0, <1>1, <1>2, ReturnStep
<1>3. CASE Raises(fetch.requests)
  BY <1>0, <1>1, <1>3, SentIs, FailedStep
<1>4. ASSUME NEW p \in {"listing", "reading"},
             Proceeds([fetch EXCEPT !.page = @ + 1, !.phase = p])
      PROVE  FetchInv'
  <2> DEFINE f == [fetch EXCEPT !.page = @ + 1, !.phase = p]
  <2>1. Quiet /\ ~Asks
    BY <1>0, SentIs DEF Asks, Quiet
  <2>2. DOMAIN f = DOMAIN fetch /\ f.requests = fetch.requests
        /\ f.phase = p /\ f.records = fetch.records
    BY <1>0 DEF Fields
  <2>3. Proceeds(f)
    BY <1>4
  <2> HIDE DEF f
  <2>4. Takes(f, {}) /\ f.phase \notin Browsing \cup {"start"}
    BY <2>2 DEF Takes, Browsing
  <2> QED BY <1>0, <1>1, <2>1, <2>2, <2>3, <2>4, OrdinaryStep
<1> QED BY <1>2, <1>3, <1>4 DEF DarwinboxPageEnds

-----------------------------------------------------------------------------
(* The browser of Darwinbox.                                               *)
Captures ==
  /\ sent' \in Nat /\ browser'.bodies \in Seq(Answer)
  /\ {"bodies", "trouble"} \subseteq DOMAIN browser' /\ BodiesAreSent'

LEMMA BrowserStep ==
  ASSUME FetchInv, outcome = "pending", adapter = "darwinbox",
         UNCHANGED <<adapter, site_vars, style>>, Captures,
         NEW f, Proceeds(f), DOMAIN f = DOMAIN fetch, f.records = fetch.records,
         f.phase \in Browsing
  PROVE  FetchInv'
<1>1. /\ adapter' = adapter /\ snaps' = snaps /\ fetch' = f
      /\ outcome' = outcome /\ reported' = reported
  BY DEF site_vars, Proceeds
<1>2. Fields \subseteq DOMAIN fetch' /\ Described(fetch)'
  BY <1>1, Zenon DEF FetchInv, Described
<1>3. RequestsAreSent'
  BY <1>1 DEF RequestsAreSent, Captures
<1>4. RequestsAreReported' /\ outcome' # "idle"
  BY <1>1 DEF RequestsAreReported
<1> QED BY <1>1, <1>2, <1>3, <1>4 DEF FetchInv, Captures

(* While the browser is open, trouble and bodies are never above sent.     *)
LEMMA OpenBrowser ==
  ASSUME FetchInv, outcome = "pending", adapter = "darwinbox",
         fetch.phase \in Browsing \cup {"start"}
  PROVE  /\ BodiesAreSent /\ sent \in Nat /\ Len(browser.bodies) \in Nat
         /\ browser.bodies \in Seq(Answer)
         /\ {"bodies", "trouble"} \subseteq DOMAIN browser
BY DEF FetchInv, RequestsAreSent

LEMMA AnswersAreTyped == ASSUME FetchInv PROVE Answers \subseteq Answer
<1>1. Ever \subseteq Jobs
  BY DEF FetchInv, Ever
<1>2. Pages \subseteq SUBSET Jobs
  BY <1>1 DEF Pages
<1>3. 0 .. Cardinality(Jobs) \subseteq Nat
  BY FetchAssumption, FS_CardinalityType DEF FetchAssumption
<1> QED BY <1>2, <1>3 DEF Answers, Answer

LEMMA RestCaptures ==
  ASSUME FetchInv, outcome = "pending", adapter = "darwinbox",
         fetch.phase \in Browsing \cup {"start"}, Quiet, UNCHANGED browser
  PROVE  Captures
BY OpenBrowser DEF Captures, Quiet, BodiesAreSent

(* Trouble is noted with no more requests than the bodies there are, or    *)
(* with the response that is the trouble.                                  *)
LEMMA TroubleCaptures ==
  ASSUME FetchInv, outcome = "pending", adapter = "darwinbox",
         fetch.phase \in Browsing,
         NEW n \in Nat, browser' = Trouble(n),
         \/ (Quiet \/ Asks) /\ n <= Len(browser.bodies)
         \/ Asks /\ n <= Len(browser.bodies) + 1
  PROVE  Captures
<1>1. /\ BodiesAreSent /\ sent \in Nat /\ Len(browser.bodies) \in Nat
      /\ browser.bodies \in Seq(Answer) /\ {"bodies", "trouble"} \subseteq DOMAIN browser
  BY OpenBrowser
<1>2. /\ DOMAIN browser' = DOMAIN browser /\ browser'.bodies = browser.bodies
      /\ browser'.trouble = {n}
  BY <1>1 DEF Trouble
<1>3. sent' \in Nat /\ n <= sent' /\ Len(browser.bodies) <= sent'
  BY <1>1 DEF Quiet, Asks, BodiesAreSent
<1> QED BY <1>1, <1>2, <1>3 DEF Captures, BodiesAreSent

LEMMA RespondsCaptures ==
  ASSUME FetchInv, outcome = "pending", adapter = "darwinbox",
         fetch.phase \in Browsing, Responds \/ RespondsBadly
  PROVE  Captures
<1>1. /\ BodiesAreSent /\ sent \in Nat /\ Len(browser.bodies) \in Nat
      /\ browser.bodies \in Seq(Answer) /\ {"bodies", "trouble"} \subseteq DOMAIN browser
  BY OpenBrowser
<1>2. CASE Responds
  <2>1. PICK body \in Answers :
          /\ Request(body = TrueAnswer(Len(browser.bodies) + 1), {body.total})
          /\ browser' = Capture(body)
    BY <1>2 DEF Responds
  <2>2. body \in Answer
    BY AnswersAreTyped
  <2>3. sent' = sent + 1
    BY <1>1, <2>1, SentIs DEF Asks
  <2>4. /\ DOMAIN browser' = DOMAIN browser /\ browser'.trouble = browser.trouble
        /\ browser'.bodies = Append(browser.bodies, body)
    BY <1>1, <2>1 DEF Capture
  <2>5. Len(browser'.bodies) = Len(browser.bodies) + 1 /\ browser'.bodies \in Seq(Answer)
    BY <1>1, <2>2, <2>4
  <2> QED BY <1>1, <2>3, <2>4, <2>5 DEF Captures, BodiesAreSent
<1>3. CASE RespondsBadly
  <2>1. Asks /\ browser' = Trouble(Len(browser.bodies) + 1)
    BY <1>1, <1>3, SentIs DEF RespondsBadly
  <2> QED BY <1>1, <2>1, TroubleCaptures
<1> QED BY <1>2, <1>3

(* The count that is noted with an odd listing.                            *)
LEMMA OddCountIs ==
  ASSUME FetchInv, OddBodies # {}
  PROVE  OddCount \in Nat /\ OddCount <= Len(browser.bodies)
<1>1. Len(browser.bodies) \in Nat
  BY DEF FetchInv
<1>2. OddBodies \subseteq 1 .. Len(browser.bodies)
  BY DEF OddBodies
<1>3. First(OddBodies) \in OddBodies
  BY <1>1, <1>2, SmallestIsIn
<1>4. \A k \in OddBodies : k \in Nat /\ k <= Len(browser.bodies)
  BY <1>1, <1>2
<1>5. OddCount = Len(browser.bodies) \/ OddCount = First(OddBodies)
  BY Zenon DEF OddCount
<1>6. First(OddBodies) \in Nat /\ First(OddBodies) <= Len(browser.bodies)
  BY <1>3, <1>4, Zenon
<1> QED BY <1>1, <1>5, <1>6

LEMMA BrowserKeeps ==
  ASSUME FetchInv, DarwinboxStart \/ BrowserEmits \/ BrowserLooks \/ BrowserClicks
  PROVE  FetchInv'
<1>0. /\ outcome = "pending" /\ adapter = "darwinbox" /\ sent \in Nat
      /\ UNCHANGED <<adapter, site_vars, style>> /\ Fields \subseteq DOMAIN fetch
      /\ Len(browser.bodies) \in Nat /\ fetch.phase \in {"start", "opening", "clicking"}
  BY DEF DarwinboxStart, BrowserEmits, BrowserLooks, BrowserClicks, In, Running, FetchInv
<1>1. fetch.phase \in Browsing \cup {"start"} /\ {"opening", "clicking", "closed"} = Browsing
      /\ {"start", "listing", "postings"} \cap Browsing = {}
  BY <1>0 DEF Browsing
<1> DEFINE Move(p) == [fetch EXCEPT !.phase = p]
<1>2. ASSUME NEW p
      PROVE  DOMAIN Move(p) = DOMAIN fetch /\ Move(p).records = fetch.records
             /\ Move(p).phase = p /\ Move(p).requests = fetch.requests
  BY <1>0 DEF Fields
<1>3. ASSUME NEW p \in Browsing, Proceeds(Move(p)), Captures
      PROVE  FetchInv'
  <2> HIDE DEF Move
  <2> QED BY <1>0, <1>2, <1>3, BrowserStep
<1>4. CASE DarwinboxStart
  <2>1. PICK p \in {"listing", "opening"} :
          Proceeds([fetch EXCEPT !.phase = p, !.page = 1])
    BY <1>4 DEF DarwinboxStart
  <2> DEFINE f == [fetch EXCEPT !.phase = p, !.page = 1]
  <2>2. DOMAIN f = DOMAIN fetch /\ f.records = fetch.records /\ f.phase = p
        /\ f.requests = fetch.requests
    BY <1>0 DEF Fields
  <2>3. Proceeds(f) /\ Quiet /\ UNCHANGED browser /\ fetch.phase = "start"
    BY <1>0, <1>4, <2>1, SentIs DEF DarwinboxStart, In
  <2>4. ~Asks
    BY <1>0, <2>3 DEF Quiet, Asks
  <2> HIDE DEF f
  <2>5. CASE p = "opening"
    <3>1. Captures
      BY <1>0, <1>1, <2>3, RestCaptures
    <3> QED BY <1>0, <1>1, <2>2, <2>3, <2>5, <3>1, BrowserStep
  <2>6. CASE p = "listing"
    <3>1. Takes(f, {}) /\ f.phase \notin Browsing \cup {"start"}
      BY <2>2, <2>6 DEF Takes, Browsing
    <3> QED BY <1>0, <1>1, <2>2, <2>3, <2>4, <3>1, OrdinaryStep
  <2> QED BY <2>5, <2>6
<1>5. CASE BrowserEmits
  <2>1. Captures /\ UNCHANGED <<fetch, outcome, reported>> /\ fetch.phase \in Browsing
    BY <1>0, <1>1, <1>5, RespondsCaptures DEF BrowserEmits, In
  <2>2. Proceeds(fetch)
    BY <2>1 DEF Proceeds
  <2> QED BY <1>0, <2>1, <2>2, BrowserStep
<1>6. CASE BrowserLooks
  <2>0. fetch.phase \in Browsing
    BY <1>1, <1>6 DEF BrowserLooks, In
  <2>1. CASE Proceeds(Move("clicking")) /\ Silent /\ UNCHANGED browser
    BY <1>0, <1>1, <1>3, <2>1, SentIs, RestCaptures
  <2>2. CASE Proceeds(Move("closed")) /\ Silent /\ UNCHANGED browser
    BY <1>0, <1>1, <1>3, <2>2, SentIs, RestCaptures
  <2>3. CASE /\ Proceeds(Move("closed")) /\ Disturbed(0)
             /\ browser' = Trouble(Len(browser.bodies))
    <3>1. Quiet
      BY <1>0, <2>3, SentIs
    <3>2. Captures
      BY <1>0, <2>0, <2>3, <3>1, TroubleCaptures
    <3> QED BY <1>1, <1>3, <2>3, <3>2
  <2> QED BY <1>6, <2>1, <2>2, <2>3 DEF BrowserLooks
<1>7. CASE BrowserClicks
  <2>0. fetch.phase \in Browsing
    BY <1>1, <1>7 DEF BrowserClicks, In
  <2>1. CASE Stops /\ Silent /\ UNCHANGED browser
    BY <1>0, <1>1, <1>3, <2>1, SentIs, RestCaptures DEF Stops
  <2>2. CASE OddBodies # {} /\ Stops /\ Silent /\ browser' = Trouble(OddCount)
    <3>1. Quiet
      BY <1>0, <2>2, SentIs
    <3>2. Captures
      BY <1>0, <2>0, <2>2, <3>1, OddCountIs, TroubleCaptures
    <3> QED BY <1>1, <1>3, <2>2, <3>2 DEF Stops
  <2>3. CASE Proceeds([fetch EXCEPT !.page = @ + 1]) /\ (Responds \/ RespondsBadly)
    <3> DEFINE f == [fetch EXCEPT !.page = @ + 1]
    <3>1. DOMAIN f = DOMAIN fetch /\ f.records = fetch.records /\ f.phase = fetch.phase
      BY <1>0 DEF Fields
    <3>2. Captures
      BY <1>0, <2>0, <2>3, RespondsCaptures
    <3>3. Proceeds(f)
      BY <2>3
    <3> HIDE DEF f
    <3> QED BY <1>0, <2>0, <3>1, <3>2, <3>3, BrowserStep
  <2>4. ASSUME Stops, browser' = Trouble(Len(browser.bodies)),
               Disturbed(0) \/ Disturbed(1)
        PROVE  FetchInv'
    <3>1. Quiet \/ Asks
      BY <1>0, <2>4, SentIs
    <3>2. Captures
      BY <1>0, <2>0, <2>4, <3>1, TroubleCaptures
    <3> QED BY <1>1, <1>3, <2>4, <3>2 DEF Stops
  <2> QED BY <1>7, <2>1, <2>2, <2>3, <2>4 DEF BrowserClicks
<1> QED BY <1>4, <1>5, <1>6, <1>7

(* The browser is closed: its bodies are read, or the fetch is refused.    *)
LEMMA BrowserClosesKeeps ==
  ASSUME FetchInv, BrowserCloses
  PROVE  FetchInv'
<1>0. /\ outcome = "pending" /\ adapter = "darwinbox" /\ sent \in Nat
      /\ UNCHANGED <<adapter, site_vars, style, browser>> /\ Fields \subseteq DOMAIN fetch
      /\ Len(browser.bodies) \in Nat /\ BodiesAreSent
  BY DEF BrowserCloses, Running, FetchInv, RequestsAreSent, Browsing
<1>1. ASSUME browser.trouble # {}
      PROVE  First(browser.trouble) <= sent
  <2>1. PICK n \in Nat : browser.trouble = {n} /\ n <= sent
    BY <1>0, <1>1 DEF BodiesAreSent
  <2>2. First(browser.trouble) = n
    BY <2>1, SmallestIsIn
  <2> QED BY <2>1, <2>2
<1>2. CASE /\ browser.trouble = {} /\ Silent
           /\ Proceeds([fetch EXCEPT !.phase = "reading", !.page = 1,
                                     !.requests = Len(browser.bodies)])
  <2> DEFINE f == [fetch EXCEPT !.phase = "reading", !.page = 1,
                                !.requests = Len(browser.bodies)]
  <2>1. DOMAIN f = DOMAIN fetch /\ f.records = fetch.records /\ f.phase = "reading"
        /\ f.requests = Len(browser.bodies)
    BY <1>0 DEF Fields
  <2>2. sent' = sent /\ sent = Len(browser.bodies) /\ Proceeds(f)
    BY <1>0, <1>2 DEF Silent, BodiesAreSent
  <2> HIDE DEF f
  <2>3. fetch' = f /\ Fields \subseteq DOMAIN f /\ Described(f)
    BY <2>1, <2>2, Zenon DEF Proceeds, FetchInv, Described
  <2>4. Goes(sent') /\ f.phase \notin Browsing \cup {"start"}
    BY <2>1, <2>2, <2>3 DEF Proceeds, Goes, Browsing
  <2> QED BY <1>0, <2>2, <2>3, <2>4, StepOfFetch
<1>3. ASSUME Silent \/ Disturbed(0), NEW n, Raises(n), n <= sent
      PROVE  FetchInv'
  <2>1. sent' = sent
    BY <1>0, <1>3, SentIs DEF Quiet
  <2>2. Fails(sent') /\ outcome' = "raised"
    BY <1>3, <2>1 DEF Raises, Fails
  <2> QED BY <1>0, <2>1, <2>2, StepOfFetch
<1>4. Len(browser.bodies) <= sent
  BY <1>0 DEF BodiesAreSent
<1>5. CASE browser.trouble # {} /\ Raises(First(browser.trouble)) /\ Silent
  BY <1>1, <1>3, <1>5
<1>6. CASE Disturbed(0) /\ Raises(IF browser.trouble # {} THEN First(browser.trouble)
                                                         ELSE Len(browser.bodies))
  BY <1>1, <1>3, <1>4, <1>6
<1> QED BY <1>2, <1>5, <1>6 DEF BrowserCloses

LEMMA DarwinboxKeeps ==
  ASSUME FetchInv, DarwinboxNext
  PROVE  FetchInv'
BY BrowserKeeps, BrowserClosesKeeps, DarwinboxPageKeeps, DarwinboxPostingKeeps,
   DarwinboxPageEndsKeeps DEF DarwinboxNext

-----------------------------------------------------------------------------
(* A fetch begins with nothing sent, counted or read.                      *)
LEMMA BeginKeeps ==
  ASSUME FetchInv, NEW a, NEW accepted, Begin(a, accepted)
  PROVE  FetchInv'
<1>1. Nothing /\ fetch.requests = sent /\ sent' = sent /\ browser' = browser
      /\ reported' = reported /\ sent \in Nat /\ Fields \subseteq DOMAIN fetch
      /\ outcome' \in {"pending", "raised"}
  BY DEF Begin, FetchInv, Nothing
<1>2. snaps' \subseteq SUBSET Jobs
  BY DEF Begin
<1>3. PICK at : fetch' = [fetch EXCEPT !.at = at]
  BY DEF Begin
<1>4. DOMAIN fetch' = DOMAIN fetch /\ fetch'.records = {} /\ fetch'.phase = "start"
      /\ fetch'.requests = 0
  BY <1>1, <1>3 DEF Fields, Nothing
<1>5. Len(browser.bodies) = 0 /\ sent = 0
  BY <1>1 DEF Nothing
<1>6. RequestsAreSent' /\ Described(fetch)'
  BY <1>1, <1>4, <1>5 DEF RequestsAreSent, BodiesAreSent, Nothing, Described, Browsing
<1>7. reported' <= sent'
  BY <1>1, <1>5 DEF Nothing
<1> QED BY <1>1, <1>2, <1>4, <1>6, <1>7 DEF FetchInv, RequestsAreReported

LEMMA FetchStep ==
  ASSUME FetchInv, [Next]_vars
  PROVE  FetchInv'
<1>1. CASE UNCHANGED fetchVars
  <2>1. /\ adapter' = adapter /\ snaps' = snaps /\ sent' = sent /\ fetch' = fetch
        /\ browser' = browser /\ outcome' = outcome /\ reported' = reported
    BY <1>1 DEF fetchVars
  <2> QED BY <2>1 DEF FetchInv, Described, Nothing, RequestsAreSent, BodiesAreSent,
                      RequestsAreReported
<1>2. CASE SiteChanges
  <2>1. /\ adapter' = adapter /\ sent' = sent /\ fetch' = fetch
        /\ browser' = browser /\ outcome' = outcome /\ reported' = reported
    BY <1>2 DEF SiteChanges
  <2>2. snaps' \subseteq SUBSET Jobs
    BY <1>2 DEF SiteChanges, FetchInv
  <2> QED BY <2>1, <2>2 DEF FetchInv, Described, Nothing, RequestsAreSent, BodiesAreSent,
                            RequestsAreReported
<1>3. CASE BeginFetch
  BY <1>3, BeginKeeps DEF BeginFetch
<1>4. CASE FetchNext
  BY <1>4, LeverKeeps, DarwinboxKeeps, DreamJobsKeeps, JazzHRKeeps, ZohoKeeps,
     LinkedInKeeps, GenericKeeps DEF FetchNext
<1>5. SubmitUrl \/ CrawlUrl => UNCHANGED fetchVars
  BY DEF SubmitUrl, CrawlUrl
<1> QED BY <1>1, <1>2, <1>3, <1>4, <1>5 DEF Next, Detection, vars

LEMMA FetchAlways == Spec => []FetchInv
<1>1. Init => FetchInv
  <2> SUFFICES ASSUME Init PROVE FetchInv
    OBVIOUS
  <2>1. FetchInit
    BY DEF Init
  <2> QED BY <2>1 DEF FetchInit, FetchInv, Fields, Described, Nothing, RequestsAreReported
<1> QED BY <1>1, FetchStep, PTL DEF Spec

-----------------------------------------------------------------------------
(* What a run records as its requests (requests_made of SourceFetchBatch   *)
(* and SourceFetchError) are the requests that were sent, for every        *)
(* adapter, any site and any answers; after a failure, never more.         *)
THEOREM AdaptersReportRequests == Spec => []RequestsAreReported
<1>1. FetchInv => RequestsAreReported
  BY DEF FetchInv
<1> QED BY <1>1, FetchAlways, PTL

(* No adapter but the generic one describes a posting by another, JazzHR   *)
(* only by one of the same title (_parse_job of each adapter).             *)
THEOREM AdaptersDescribeTheirOwn == Spec => []RecordsAreDescribed
<1>1. FetchInv => RecordsAreDescribed
  BY DEF FetchInv, Described, RecordsAreDescribed
<1> QED BY <1>1, FetchAlways, PTL

-----------------------------------------------------------------------------
(* The sources of a Company.  DetectionInv says where a source comes from: *)
(* an address that its adapter accepts, unlike the others in identity, and *)
(* evidence; and which addresses it does not have, since another platform  *)
(* would have been detected as well.                                       *)

(* A canonical address may have a path that no user has entered.           *)
Canonical ==
  [scheme : {"http", "https"}, host : Hosts, path : Seq(DOMAIN Fold), extra : Extras]

Keys == Selectable \cup {"generic"}

SourceOK(s) == s.source \in Keys /\ s.url \in Canonical /\ Accepts(s.source, s.url)

EvidenceOf(s) ==
  IF s.source = "generic" THEN s.seen.host = s.url.host
  ELSE OfVendor(s) \/ (s.seen.host = s.url.host /\ s.source \in s.seen.signals)

(* A generic source is no address of a platform that has an adapter, and a *)
(* DreamJobs site is none of Lever.                                        *)
NoOther(p, u) ==
  /\ p = "generic" => u.extra # "user" /\ \A q \in Selectable : ~Matches(q, u, {})
  /\ p = "dreamjobs" => ~LeverMatches(u)

AllDiffer == \A s, t \in sources : s # t => ~Equivalent(s, t)

DetectionInv ==
  /\ \A s \in sources : SourceOK(s) /\ EvidenceOf(s) /\ NoOther(s.source, s.url)
  /\ AllDiffer

-----------------------------------------------------------------------------
(* Segments of a path, and what is left of it.                             *)
LEMMA UrlsAreCanonical == Urls \subseteq Canonical
BY UrlAssumption DEF Urls, Canonical, UrlAssumption, Extras

LEMMA RootType ==
  ASSUME NEW u \in Canonical, NEW parts \in Seq(DOMAIN Fold)
  PROVE  /\ Root(u, parts) \in Canonical
         /\ Root(u, parts).host = u.host /\ Root(u, parts).path = parts
BY DEF Root, Canonical, Extras

(* Careers and the words of other routes are segments.                     *)
LEMMA WordsAreSegments ==
  /\ Careers \in Seq(DOMAIN Fold) /\ <<"jobs">> \in Seq(DOMAIN Fold)
  /\ <<"apply">> \in Seq(DOMAIN Fold) /\ <<"ms", "candidatev2">> \in Seq(DOMAIN Fold)
  /\ Fold["main"] = "main" /\ Fold["jobs"] = "jobs" /\ "jobs" \in DOMAIN Fold
BY UrlAssumption DEF UrlAssumption, Words, Careers

LEMMA StartsAt ==
  ASSUME NEW u \in Canonical, NEW parts \in Seq(DOMAIN Fold),
         parts # <<>>
  PROVE  Starts(u, parts) <=>
           Len(parts) <= Len(u.path) /\ \A i \in 1 .. Len(parts) : u.path[i] = parts[i]
<1>1. u.path \in Seq(DOMAIN Fold) /\ Len(u.path) \in Nat /\ Len(parts) \in Nat
  BY LenProperties DEF Canonical
<1>2. SubSeq(parts, 1, Len(parts)) = parts
  BY SubSeqFull
<1>3. ASSUME Len(parts) <= Len(u.path)
      PROVE  /\ SubSeq(u.path, 1, Len(parts)) \in Seq(DOMAIN Fold)
             /\ Len(SubSeq(u.path, 1, Len(parts))) = Len(parts)
             /\ \A i \in 1 .. Len(parts) : SubSeq(u.path, 1, Len(parts))[i] = u.path[i]
  BY <1>1, <1>3, SubSeqProperties
<1>4. CASE Len(parts) <= Len(u.path)
  <2>1. (SubSeq(u.path, 1, Len(parts)) = parts)
          <=> \A i \in 1 .. Len(parts) : u.path[i] = parts[i]
    BY <1>1, <1>3, <1>4, SeqEqual
  <2> QED BY <1>2, <1>4, <2>1 DEF Starts, IsPrefix
<1>5. CASE ~(Len(parts) <= Len(u.path))
  BY <1>5 DEF Starts, IsPrefix
<1> QED BY <1>4, <1>5

(* A posting route of the second kind, segment by segment.                 *)
LEMMA CareersV2At ==
  ASSUME NEW u \in Canonical
  PROVE  CareersV2(u) <=> /\ Len(u.path) >= 4 /\ u.path[1] = "ms"
                          /\ u.path[2] = "candidatev2" /\ u.path[4] = "careers"
<1> DEFINE p == <<"ms", "candidatev2">>
<1>0. p \in Seq(DOMAIN Fold) /\ p # <<>> /\ Len(p) = 2
  BY WordsAreSegments
<1>1. Starts(u, p) <=>
        2 <= Len(u.path) /\ \A i \in 1 .. 2 : u.path[i] = p[i]
  <2> HIDE DEF p
  <2> QED BY <1>0, StartsAt
<1>2. Len(u.path) \in Nat
  BY LenProperties DEF Canonical
<1> QED BY <1>1, <1>2 DEF CareersV2

LEMMA CareersAt ==
  ASSUME NEW u \in Canonical
  PROVE  Starts(u, Careers) <=> /\ Len(u.path) >= 3 /\ u.path[1] = "ms"
                                /\ u.path[2] = "candidate" /\ u.path[3] = "careers"
<1>0. Careers \in Seq(DOMAIN Fold) /\ Careers # <<>> /\ Len(Careers) = 3
  BY WordsAreSegments DEF Careers
<1>1. Starts(u, Careers) <=>
        3 <= Len(u.path) /\ \A i \in 1 .. 3 : u.path[i] = Careers[i]
  BY <1>0, StartsAt
<1>2. Len(u.path) \in Nat
  BY LenProperties DEF Canonical
<1> QED BY <1>1, <1>2 DEF Careers

LEMMA JobsAt ==
  ASSUME NEW u \in Canonical
  PROVE  Starts(u, <<"jobs">>) <=> Len(u.path) >= 1 /\ u.path[1] = "jobs"
<1> DEFINE p == <<"jobs">>
<1>0. p \in Seq(DOMAIN Fold) /\ p # <<>> /\ Len(p) = 1
  BY WordsAreSegments
<1>1. Starts(u, p) <=>
        1 <= Len(u.path) /\ \A i \in 1 .. 1 : u.path[i] = p[i]
  <2> HIDE DEF p
  <2> QED BY <1>0, StartsAt
<1>2. Len(u.path) \in Nat
  BY LenProperties DEF Canonical
<1> QED BY <1>1, <1>2

(* The canonical address of Darwinbox has the route of the one entered.    *)
LEMMA DarwinboxRootOf ==
  ASSUME NEW u \in Canonical
  PROVE  /\ DarwinboxRoot(u) \in Canonical /\ DarwinboxRoot(u).host = u.host
         /\ CareersV2(DarwinboxRoot(u)) <=> CareersV2(u)
         /\ CareersV2(u) => DarwinboxRoot(u).path[3] = u.path[3]
         /\ ~CareersV2(u) => DarwinboxRoot(u).path = Careers
<1>1. CASE CareersV2(u)
  <2> DEFINE p == SubSeq(u.path, 1, 4)
  <2>1. u.path \in Seq(DOMAIN Fold) /\ Len(u.path) \in Nat /\ Len(u.path) >= 4
    BY <1>1, LenProperties DEF Canonical, CareersV2
  <2>2. p \in Seq(DOMAIN Fold) /\ Len(p) = 4 /\ \A i \in 1 .. 4 : p[i] = u.path[i]
    BY <2>1, SubSeqProperties
  <2>3. DarwinboxRoot(u) = Root(u, p)
    BY <1>1 DEF DarwinboxRoot
  <2>4. Root(u, p) \in Canonical /\ Root(u, p).host = u.host /\ Root(u, p).path = p
    BY <2>2, RootType
  <2>5. CareersV2(Root(u, p))
    BY <1>1, <2>2, <2>4, CareersV2At
  <2> QED BY <1>1, <2>2, <2>3, <2>4, <2>5
<1>2. CASE ~CareersV2(u)
  <2>1. DarwinboxRoot(u) = Root(u, Careers)
    BY <1>2 DEF DarwinboxRoot
  <2>2. /\ Root(u, Careers) \in Canonical /\ Root(u, Careers).host = u.host
        /\ Root(u, Careers).path = Careers
    BY WordsAreSegments, RootType
  <2>3. ~CareersV2(Root(u, Careers))
    BY <2>2 DEF CareersV2, Careers
  <2> QED BY <1>2, <2>1, <2>2, <2>3
<1> QED BY <1>1, <1>2

-----------------------------------------------------------------------------
(* A canonical address is still one of its platform, on the same host.     *)
LEMMA CanonicalIsOfPlatform ==
  ASSUME NEW p \in Catalog, NEW u \in Canonical, NEW body, Matches(p, u, body)
  PROVE  /\ CanonicalUrl(p, u) \in Canonical /\ CanonicalUrl(p, u).host = u.host
         /\ Matches(p, CanonicalUrl(p, u), body)
<1>0. u.path \in Seq(DOMAIN Fold)
  BY DEF Canonical
<1>1. CASE p = "lever"
  <2>1. <<u.path[1]>> \in Seq(DOMAIN Fold)
    BY <1>0, <1>1 DEF Matches, LeverMatches
  <2>2. /\ LeverRoot(u) \in Canonical /\ LeverRoot(u).host = u.host
        /\ LeverRoot(u).path = <<u.path[1]>>
    BY <2>1, RootType DEF LeverRoot
  <2>3. LeverMatches(LeverRoot(u))
    BY <1>1, <2>2 DEF Matches, LeverMatches
  <2> QED BY <1>1, <2>2, <2>3 DEF Matches, CanonicalUrl
<1>2. CASE p = "darwinbox"
  <2>1. /\ DarwinboxRoot(u) \in Canonical /\ DarwinboxRoot(u).host = u.host
        /\ CareersV2(DarwinboxRoot(u)) <=> CareersV2(u)
        /\ ~CareersV2(u) => DarwinboxRoot(u).path = Careers
    BY DarwinboxRootOf
  <2>2. ASSUME ~CareersV2(u) PROVE Starts(DarwinboxRoot(u), Careers)
    <3>1. DarwinboxRoot(u).path = Careers /\ Len(Careers) <= Len(Careers)
      BY <2>1, <2>2 DEF Careers
    <3> QED BY <3>1, Zenon DEF Starts, IsPrefix
  <2>3. DarwinboxMatches(DarwinboxRoot(u))
    BY <1>2, <2>1, <2>2 DEF Matches, DarwinboxMatches
  <2> QED BY <1>2, <2>1, <2>3 DEF Matches, CanonicalUrl
<1>3. CASE p = "jazzhr"
  <2>1. /\ JazzHRRoot(u) \in Canonical /\ JazzHRRoot(u).host = u.host
    BY WordsAreSegments, RootType DEF JazzHRRoot
  <2> QED BY <1>3, <2>1 DEF Matches, CanonicalUrl, JazzHRMatches, Under
<1>4. CASE p = "dreamjobs"
  <2>1. /\ DreamJobsRoot(u) \in Canonical /\ DreamJobsRoot(u).host = u.host
        /\ DreamJobsRoot(u).path = <<"jobs">>
    BY WordsAreSegments, RootType DEF DreamJobsRoot
  <2>2. Starts(DreamJobsRoot(u), <<"jobs">>)
    BY <2>1, JobsAt
  <2>3. DreamJobsMatches(DreamJobsRoot(u), body)
    BY <1>4, <2>1, <2>2 DEF Matches, DreamJobsMatches, Under
  <2> QED BY <1>4, <2>1, <2>3 DEF Matches, CanonicalUrl
<1>5. CASE p = "zoho_recruit"
  <2>1. <<"jobs", u.path[2]>> \in Seq(DOMAIN Fold)
    BY <1>0, <1>5, WordsAreSegments DEF Matches, ZohoMatches
  <2>2. /\ ZohoRoot(u) \in Canonical /\ ZohoRoot(u).host = u.host
        /\ ZohoRoot(u).path = <<"jobs", u.path[2]>>
    BY <2>1, RootType DEF ZohoRoot
  <2>3. ZohoMatches(ZohoRoot(u), body)
    BY <1>5, <2>2, WordsAreSegments DEF Matches, ZohoMatches, Under
  <2> QED BY <1>5, <2>2, <2>3 DEF Matches, CanonicalUrl
<1>6. CASE p = "greenhouse"
  <2>1. <<u.path[1]>> \in Seq(DOMAIN Fold)
    BY <1>0, <1>6 DEF Matches, GreenhouseMatches
  <2>2. /\ FirstPathRoot(u) \in Canonical /\ FirstPathRoot(u).host = u.host
        /\ FirstPathRoot(u).path = <<u.path[1]>>
    BY <2>1, RootType DEF FirstPathRoot
  <2>3. GreenhouseMatches(FirstPathRoot(u))
    BY <1>6, <2>2 DEF Matches, GreenhouseMatches
  <2> QED BY <1>6, <2>2, <2>3 DEF Matches, CanonicalUrl
<1> QED BY <1>1, <1>2, <1>3, <1>4, <1>5, <1>6 DEF Catalog, Selectable

(* A platform is told by the address, or by its own signals in the body.   *)
LEMMA SignalOrVendor ==
  ASSUME NEW p \in Catalog, NEW u, NEW body, Matches(p, u, body)
  PROVE  Matches(p, u, {}) \/ p \in body
BY DEF Matches, Catalog, Selectable, DreamJobsMatches, ZohoMatches

-----------------------------------------------------------------------------
(* An address that escapes nothing reads as it is written.                 *)
LEMMA LiteralIsDecoded ==
  ASSUME NEW u \in Canonical, Literal(u)
  PROVE  Decoded(u) = u
<1>1. u.path \in Seq(DOMAIN Fold)
  BY DEF Canonical
<1>2. [i \in DOMAIN u.path |-> Decode[u.path[i]]] = u.path
  BY <1>1 DEF Literal
<1>3. [u EXCEPT !.path = u.path] = u
  BY DEF Canonical
<1> QED BY <1>2, <1>3 DEF Decoded

(* Two sources of one platform that are read alike have one identity.      *)
LEMMA ListingTellsIdentity ==
  ASSUME NEW s, NEW t, SourceOK(s), SourceOK(t), NoOther(s.source, s.url),
         NoOther(t.source, t.url), Literal(s.url), Literal(t.url),
         s.source = t.source, ReadAlike(s, t)
  PROVE  Equivalent(s, t)
<1> DEFINE u == s.url
           v == t.url
<1>0. /\ s.source \in Keys /\ u \in Canonical /\ v \in Canonical
      /\ Decoded(u) = u /\ Decoded(v) = v
  BY LiteralIsDecoded DEF SourceOK
<1>1. Listing(s.source, u) = Listing(s.source, v)
  BY DEF ReadAlike
<1>2. CASE s.source = "lever"
  <2>1. u.host = LeverHost /\ v.host = LeverHost
        /\ Len(u.path) = 1 /\ Len(v.path) = 1
        /\ u.path \in Seq(DOMAIN Fold) /\ v.path \in Seq(DOMAIN Fold)
    BY <1>0, <1>2 DEF SourceOK, Accepts, LeverAccepts, Canonical
  <2>2. Decode[u.path[1]] = u.path[1] /\ Decode[v.path[1]] = v.path[1]
    BY <2>1 DEF Literal
  <2>3. <<Decode[u.path[1]]>> = <<Decode[v.path[1]]>>
    BY <1>1, <1>2 DEF Listing
  <2>4. <<u.path[1]>> \in Seq(DOMAIN Fold) /\ <<v.path[1]>> \in Seq(DOMAIN Fold)
    BY <2>1
  <2>5. LeverRoot(u).path = <<u.path[1]>> /\ LeverRoot(v).path = <<v.path[1]>>
        /\ LeverRoot(u).host = u.host /\ LeverRoot(v).host = v.host
    BY <1>0, <2>4, RootType DEF LeverRoot
  <2>6. PathTenant(LeverRoot(u)) = PathTenant(LeverRoot(v))
    BY <2>1, <2>2, <2>3, <2>5 DEF PathTenant
  <2> QED BY <1>2, <2>6 DEF Equivalent, TenantIdentity
<1>3. CASE s.source = "darwinbox"
  <2>1. u.host = v.host /\ <<"ms", "candidatev2", Company(u), "careers">>
                             = <<"ms", "candidatev2", Company(v), "careers">>
    BY <1>0, <1>1, <1>3 DEF Listing
  <2>2. Company(u) = Company(v)
    BY <2>1
  <2>3. /\ DarwinboxTenant(DarwinboxRoot(u)) =
             <<u.host, IF CareersV2(u) THEN Fold[u.path[3]] ELSE "main">>
        /\ DarwinboxTenant(DarwinboxRoot(v)) =
             <<v.host, IF CareersV2(v) THEN Fold[v.path[3]] ELSE "main">>
    BY <1>0, DarwinboxRootOf DEF DarwinboxTenant
  <2>4. DarwinboxTenant(DarwinboxRoot(u)) = DarwinboxTenant(DarwinboxRoot(v))
    BY <2>1, <2>2, <2>3, WordsAreSegments DEF Company
  <2> QED BY <1>3, <2>4 DEF Equivalent, TenantIdentity
<1>4. CASE s.source \in {"jazzhr", "dreamjobs", "zoho_recruit"}
  <2>1. u.host = v.host
    BY <1>1, <1>4 DEF Listing
  <2> QED BY <1>4, <2>1 DEF Equivalent, TenantIdentity
<1>5. CASE s.source = "generic"
  <2>1. <<u.scheme, u.host, u.path, u.extra = "port">>
          = <<v.scheme, v.host, v.path, v.extra = "port">>
    BY <1>0, <1>1, <1>5 DEF Listing
  <2>2. u.extra \in {"none", "port"} /\ v.extra \in {"none", "port"}
    BY <1>0, <1>5 DEF NoOther, Literal, Canonical, Extras
  <2>3. /\ u.scheme = v.scheme /\ u.host = v.host /\ u.path = v.path
        /\ (u.extra = "port") = (v.extra = "port")
    BY <2>1, Zenon
  <2>4. u = v
    BY <1>0, <2>2, <2>3 DEF Canonical
  <2> QED BY <1>5, <2>4 DEF Equivalent, TenantIdentity
<1> QED BY <1>0, <1>2, <1>3, <1>4, <1>5 DEF Keys, Selectable

(* Adapters of two platforms read no listing in common.                    *)
LEMMA ListingTellsPlatform ==
  ASSUME NEW s, NEW t, SourceOK(s), SourceOK(t), NoOther(s.source, s.url),
         NoOther(t.source, t.url), s.source \in Selectable, t.source \in Selectable,
         ReadAlike(s, t)
  PROVE  s.source = t.source
<1> DEFINE u == s.url
           v == t.url
           p == Listing(s.source, u)[3]
           q == Listing(t.source, v)[3]
<1>1. p = q /\ u.host = v.host
  <2>1. /\ Listing(s.source, u)[2] = u.host
        /\ Listing(t.source, v)[2] = v.host
    BY DEF Listing, Selectable
  <2> QED BY <2>1 DEF ReadAlike
<1>2. ASSUME NEW x, SourceOK(x), x.source \in Selectable
      PROVE  LET r == Listing(x.source, x.url)[3] IN
               /\ x.source = "lever" => Len(r) = 1 /\ x.url.host = LeverHost
               /\ x.source = "darwinbox" => Len(r) = 4
               /\ x.source = "jazzhr" =>
                    Len(r) = 1 /\ r[1] = "apply" /\ x.url.host.domain = "applytojob.com"
               /\ x.source = "dreamjobs" => Len(r) = 1 /\ r[1] = "jobs" /\ x.url.path # <<>>
               /\ x.source = "zoho_recruit" => Len(r) = 2
  <2>1. CASE x.source = "lever"
    <3>1. x.url.host = LeverHost
      BY <1>2, <2>1 DEF SourceOK, Accepts, LeverAccepts
    <3> QED BY <2>1, <3>1 DEF Listing
  <2>2. CASE x.source = "darwinbox"
    BY <2>2 DEF Listing
  <2>3. CASE x.source = "jazzhr"
    <3>1. x.url.host.domain = "applytojob.com"
      BY <1>2, <2>3 DEF SourceOK, Accepts, JazzHRAccepts, Under
    <3> QED BY <2>3, <3>1 DEF Listing
  <2>4. CASE x.source = "dreamjobs"
    <3>1. x.url.path = <<"jobs">>
      BY <1>2, <2>4 DEF SourceOK, Accepts, DreamJobsAccepts
    <3>2. <<"jobs">> # <<>>
      OBVIOUS
    <3>3. x.url.path # <<>>
      BY <3>1, <3>2
    <3> QED BY <2>4, <3>3 DEF Listing
  <2>5. CASE x.source = "zoho_recruit"
    BY <2>5 DEF Listing
  <2> QED BY <1>2, <2>1, <2>2, <2>3, <2>4, <2>5 DEF Selectable
<1>3. LeverHost.domain # "applytojob.com"
  BY DEF LeverHost, Host
<1>4. /\ s.source = "dreamjobs" => u.host # LeverHost \/ u.path = <<>>
      /\ t.source = "dreamjobs" => v.host # LeverHost \/ v.path = <<>>
  BY DEF NoOther, LeverMatches
<1>5. /\ s.source = "lever" => Len(p) = 1 /\ u.host = LeverHost
      /\ s.source = "darwinbox" => Len(p) = 4
      /\ s.source = "jazzhr" =>
           Len(p) = 1 /\ p[1] = "apply" /\ u.host.domain = "applytojob.com"
      /\ s.source = "dreamjobs" => Len(p) = 1 /\ p[1] = "jobs" /\ u.host # LeverHost
      /\ s.source = "zoho_recruit" => Len(p) = 2
  BY <1>2, <1>4
<1>6. /\ t.source = "lever" => Len(q) = 1 /\ v.host = LeverHost
      /\ t.source = "darwinbox" => Len(q) = 4
      /\ t.source = "jazzhr" =>
           Len(q) = 1 /\ q[1] = "apply" /\ v.host.domain = "applytojob.com"
      /\ t.source = "dreamjobs" => Len(q) = 1 /\ q[1] = "jobs" /\ v.host # LeverHost
      /\ t.source = "zoho_recruit" => Len(q) = 2
  BY <1>2, <1>4
<1> DEFINE ps == s.source
           pt == t.source
           hu == u.host
           hv == v.host
<1>7. ps \in Selectable /\ pt \in Selectable
  OBVIOUS
<1> HIDE DEF p, q, hu, hv, ps, pt
<1>8. ps = pt
  BY <1>1, <1>3, <1>5, <1>6, <1>7 DEF Selectable, hu, hv, ps, pt
<1> QED BY <1>8 DEF ps, pt

(* What only the host and the path tell, another address of the same host  *)
(* and listing tells as well: no generic source is read like it.           *)
LEMMA VendorIsNotGeneric ==
  ASSUME NEW s, NEW t, SourceOK(s), SourceOK(t), NoOther(s.source, s.url),
         Literal(s.url), Literal(t.url), s.source = "generic", t.source \in Selectable,
         ReadAlike(s, t)
  PROVE  ~OfVendor(t)
<1> DEFINE u == s.url
           v == t.url
<1>0. u \in Canonical /\ v \in Canonical /\ Decoded(u) = u /\ Decoded(v) = v
  BY LiteralIsDecoded DEF SourceOK
<1>1. ~Matches(t.source, u, {})
  BY DEF NoOther
<1>2. u.host = v.host /\ u.path = Listing(t.source, v)[3]
  <2>1. Listing(s.source, u)[2] = u.host /\ Listing(s.source, u)[3] = u.path
    BY <1>0 DEF Listing
  <2>2. Listing(t.source, v)[2] = v.host
    BY DEF Listing, Selectable
  <2> QED BY <2>1, <2>2 DEF ReadAlike
<1>3. SUFFICES ASSUME Matches(t.source, v, {}) PROVE FALSE
  BY DEF OfVendor
<1>4. CASE t.source = "lever"
  <2>1. u.host = LeverHost /\ u.path # <<>>
    BY <1>2, <1>3, <1>4 DEF Listing, Matches, LeverMatches
  <2> QED BY <1>1, <1>4, <2>1 DEF Matches, LeverMatches
<1>5. CASE t.source = "darwinbox"
  <2>1. u.host.domain \in {"darwinbox.com", "xdarwinbox.com"}
    BY <1>2, <1>3, <1>5 DEF Matches, DarwinboxMatches
  <2>2. u.path = <<"ms", "candidatev2", Company(v), "careers">>
    BY <1>0, <1>2, <1>5 DEF Listing
  <2>3. CareersV2(u)
    BY <1>0, <2>2, CareersV2At
  <2> QED BY <1>1, <1>5, <2>1, <2>3 DEF Matches, DarwinboxMatches
<1>6. CASE t.source = "jazzhr"
  BY <1>1, <1>2, <1>3, <1>6 DEF Matches, JazzHRMatches, Under
<1>7. CASE t.source = "dreamjobs"
  <2>1. u.path = <<"jobs">>
    BY <1>2, <1>7 DEF Listing
  <2>2. Starts(u, <<"jobs">>)
    BY <1>0, <2>1, JobsAt
  <2> QED BY <1>1, <1>2, <1>3, <1>7, <2>2 DEF Matches, DreamJobsMatches, Under
<1>8. CASE t.source = "zoho_recruit"
  <2>1. u.path = <<"jobs", v.path[2]>>
    BY <1>2, <1>8 DEF Listing
  <2>2. Len(u.path) >= 2 /\ Fold[u.path[1]] = "jobs"
    BY <2>1, WordsAreSegments
  <2>3. Under(u, "zohorecruit.com")
    BY <1>2, <1>3, <1>8 DEF Matches, ZohoMatches, Under
  <2> QED BY <1>1, <1>8, <2>2, <2>3 DEF Matches, ZohoMatches
<1> QED BY <1>4, <1>5, <1>6, <1>7, <1>8 DEF Selectable

-----------------------------------------------------------------------------
(* The host of a platform's address says the platform as its canonical     *)
(* address does.                                                           *)
LEMMA Selected ==
  ASSUME NEW page, page.url \in Urls, page.links \subseteq Urls,
         NEW d \in DetectPage(page)
  PROVE  /\ d.source \in Catalog /\ d.url \in Canonical
         /\ \E u \in {page.url} \cup page.links :
              /\ d.url.host = u.host /\ Matches(d.source, u, page.body)
              /\ Matches(d.source, d.url, page.body) /\ d.url = CanonicalUrl(d.source, u)
              /\ Matches(d.source, d.url, {}) \/ d.source \in page.body
<1>1. PICK p \in Catalog, u \in {page.url} \cup page.links :
        Matches(p, u, page.body) /\ d = Source(p, CanonicalUrl(p, u))
  BY DEF DetectPage
<1>2. u \in Canonical
  BY UrlsAreCanonical
<1>3. d.source = p /\ d.url = CanonicalUrl(p, u)
  BY <1>1 DEF Source
<1>4. /\ d.url \in Canonical /\ d.url.host = u.host
      /\ Matches(p, d.url, page.body)
  BY <1>1, <1>2, <1>3, CanonicalIsOfPlatform
<1> QED BY <1>1, <1>3, <1>4, SignalOrVendor

(* What the address of a page or its body tells is detected.               *)
LEMMA DetectedHere ==
  ASSUME NEW page, Public(page.url), NEW p \in Selectable,
         Matches(p, page.url, page.body) \/ Matches(p, page.url, {})
  PROVE  Source(p, CanonicalUrl(p, page.url)) \in Supported(page)
<1>1. Matches(p, page.url, page.body)
  BY DEF Matches, Selectable, DreamJobsMatches, ZohoMatches
<1>2. <<p, page.url>> \in Catalog \X ({page.url} \cup page.links)
  BY DEF Catalog
<1>3. Source(p, CanonicalUrl(p, page.url)) \in DetectPage(page)
  BY <1>1, <1>2 DEF DetectPage
<1> QED BY <1>3 DEF Supported, Source

(* A platform that is detected alone has no address of another.            *)
LEMMA OnlyOne ==
  ASSUME NEW page, page.url \in Urls, page.links = {}, Public(page.url),
         NEW d \in Supported(page), Supported(page) = {d}
  PROVE  NoOther(d.source, d.url)
<1>1. d \in DetectPage(page) /\ d.source \in Selectable
  BY DEF Supported
<1>2. d.source # "generic"
  BY <1>1 DEF Selectable
<1>3. d.url.host = page.url.host /\ Matches(d.source, page.url, page.body)
  BY <1>1, Selected
<1>4. ASSUME d.source = "dreamjobs", LeverMatches(d.url)
      PROVE  FALSE
  <2>1. Starts(page.url, <<"jobs">>)
    BY <1>3, <1>4 DEF Matches, DreamJobsMatches
  <2>2. page.url \in Canonical
    BY UrlsAreCanonical
  <2>3. Len(page.url.path) >= 1
    BY <2>1, <2>2, JobsAt
  <2>4. page.url.path # <<>>
    BY <2>3
  <2>5. Matches("lever", page.url, page.body)
    BY <1>3, <1>4, <2>4 DEF Matches, LeverMatches
  <2>6. Source("lever", CanonicalUrl("lever", page.url)) = d
    BY <2>5, DetectedHere DEF Selectable
  <2> QED BY <1>4, <2>6 DEF Source
<1> QED BY <1>2, <1>4 DEF NoOther

(* A page that tells no platform, or one without an adapter, has no        *)
(* address of a platform with one.                                         *)
LEMMA GenericIsOfNobody ==
  ASSUME NEW page, page.url \in Urls, page.links = {}, Public(page.url),
         Supported(page) = {}, NEW d \in GenericSource(page)
  PROVE  NoOther(d.source, d.url)
<1>1. \/ \E e \in Unsupported(page) : d = Source("generic", e.url)
      \/ d = Source("generic", page.url)
  BY DEF GenericSource
<1>2. d.source = "generic"
  BY <1>1 DEF Source
<1>3. CASE d = Source("generic", page.url)
  <2>1. \A q \in Selectable : ~Matches(q, page.url, {})
    BY DetectedHere
  <2> QED BY <1>2, <1>3, <2>1 DEF NoOther, Source, Public
<1>4. ASSUME NEW e \in Unsupported(page), d = Source("generic", e.url)
      PROVE  NoOther(d.source, d.url)
  <2>1. e \in DetectPage(page) /\ e.source \notin Selectable
    BY DEF Unsupported
  <2>2. /\ e.source \in Catalog /\ Matches(e.source, e.url, page.body)
        /\ e.url = CanonicalUrl(e.source, page.url)
    BY <2>1, Selected
  <2>3. e.source = "greenhouse"
    BY <2>1, <2>2 DEF Catalog
  <2>4. e.url.host = Host(<<"boards">>, "greenhouse.io")
    BY <2>2, <2>3 DEF Matches, GreenhouseMatches
  <2>5. e.url.host.domain = "greenhouse.io" /\ e.url.host # LeverHost
    BY <2>4 DEF Host, LeverHost
  <2>6. page.url \in Canonical /\ e.url = FirstPathRoot(page.url)
    BY <2>2, <2>3, UrlsAreCanonical DEF CanonicalUrl
  <2>7. e.url.extra = "none"
    BY <2>6 DEF FirstPathRoot, Root, Canonical
  <2>8. \A q \in Selectable : ~Matches(q, e.url, {})
    BY <2>5 DEF Selectable, Matches, LeverMatches, DarwinboxMatches, JazzHRMatches,
                DreamJobsMatches, ZohoMatches, Under
  <2>9. d.url = e.url
    BY <1>4 DEF Source
  <2> QED BY <1>2, <2>7, <2>8, <2>9 DEF NoOther
<1> QED BY <1>1, <1>3, <1>4

(* What is detected on a page without links keeps the invariant.           *)
LEMMA DetectsKeeps ==
  ASSUME DetectionInv, NEW page, NEW found, Detects(found, page),
         \A d \in found :
           /\ d.source \in Keys /\ d.url \in Canonical
           /\ \/ d.source = "generic" /\ d.url.host = page.url.host
              \/ Matches(d.source, d.url, {}) /\ d.source # "generic"
              \/ /\ d.url.host = page.url.host /\ d.source \in page.body
                 /\ d.source # "generic"
           /\ found = {d} => NoOther(d.source, d.url)
  PROVE  DetectionInv'
<1> DEFINE Added == {d \in found : /\ found = {d} /\ Validated(d)
                                  /\ ~\E s \in sources : Equivalent(d, s)}
           New(d) == [source |-> d.source, url |-> d.url, seen |-> Evidence(d, page)]
<1>1. sources' = sources \cup {New(d) : d \in Added}
  BY DEF Detects
<1>2. ASSUME NEW s \in sources'
      PROVE  SourceOK(s) /\ EvidenceOf(s) /\ NoOther(s.source, s.url)
  <2>1. CASE s \in sources
    BY <2>1 DEF DetectionInv
  <2>2. CASE s \notin sources
    <3>1. PICK d \in Added : s = New(d)
      BY <1>1, <1>2, <2>2
    <3>2. s.source = d.source /\ s.url = d.url /\ s.seen = Evidence(d, page)
      BY <3>1
    <3>3. SourceOK(s)
      BY <3>1, <3>2 DEF SourceOK, Validated
    <3>4. EvidenceOf(s)
      BY <3>1, <3>2 DEF EvidenceOf, OfVendor, Evidence
    <3>5. NoOther(s.source, s.url)
      BY <3>1, <3>2
    <3> QED BY <3>3, <3>4, <3>5
  <2> QED BY <2>1, <2>2
<1>3. ASSUME NEW s \in sources', NEW t \in sources', s # t
      PROVE  ~Equivalent(s, t)
  <2>1. CASE s \in sources /\ t \in sources
    BY <1>3, <2>1 DEF DetectionInv, AllDiffer
  <2>2. CASE s \notin sources /\ t \in sources
    <3>1. PICK d \in Added : s = New(d)
      BY <1>1, <1>3, <2>2
    <3> QED BY <2>2, <3>1 DEF Equivalent
  <2>3. CASE s \in sources /\ t \notin sources
    <3>1. PICK d \in Added : t = New(d)
      BY <1>1, <1>3, <2>3
    <3> QED BY <2>3, <3>1 DEF Equivalent
  <2>4. CASE s \notin sources /\ t \notin sources
    <3>1. PICK d \in Added, e \in Added : s = New(d) /\ t = New(e)
      BY <1>1, <1>3, <2>4
    <3>2. d = e
      OBVIOUS
    <3> QED BY <1>3, <3>1, <3>2
  <2> QED BY <2>1, <2>2, <2>3, <2>4
<1> QED BY <1>2, <1>3 DEF DetectionInv, AllDiffer, SourceOK, EvidenceOf, NoOther, OfVendor, Equivalent

(* Every step of the specification keeps the invariant.                    *)
LEMMA DetectionStep ==
  ASSUME DetectionInv, [Next]_vars
  PROVE  DetectionInv'
<1>1. CASE SubmitUrl
  <2>1. PICK u \in Urls :
          Public(u) /\ Detects(Supported(Page(u, {}, {})), Page(u, {}, {}))
    BY <1>1 DEF SubmitUrl
  <2> DEFINE page == Page(u, {}, {})
  <2>2. page.url = u /\ page.links = {} /\ page.body = {}
    BY DEF Page
  <2>3. ASSUME NEW d \in Supported(page)
        PROVE  /\ d.source \in Keys /\ d.source # "generic" /\ d.url \in Canonical
               /\ Matches(d.source, d.url, {})
    <3>1. d \in DetectPage(page) /\ d.source \in Selectable
      BY DEF Supported
    <3> QED BY <2>2, <3>1, Selected DEF Keys, Selectable
  <2> HIDE DEF page
  <2>4. Detects(Supported(page), page)
    BY <2>1 DEF page
  <2>5. ASSUME NEW d \in Supported(page), Supported(page) = {d}
        PROVE  NoOther(d.source, d.url)
    BY <2>1, <2>2, <2>5, OnlyOne
  <2> QED BY <2>3, <2>4, <2>5, DetectsKeeps
<1>2. CASE CrawlUrl
  <2>1. CASE UNCHANGED sources
    BY <2>1 DEF DetectionInv, AllDiffer, SourceOK, EvidenceOf, NoOther, OfVendor, Equivalent
  <2>2. ASSUME NEW u \in Urls, NEW body \in Bodies,
               NEW links \in {{}} \cup {{l} : l \in PageLinks}, Public(u),
               LET page == DetectionPage(Page(u, links, body))
                   found == Supported(page)
               IN  Detects(IF found = {} THEN GenericSource(page) ELSE found, page)
        PROVE  DetectionInv'
    <3> DEFINE page == DetectionPage(Page(u, links, body))
               found == IF Supported(page) = {} THEN GenericSource(page)
                        ELSE Supported(page)
    <3>1. page.url = u /\ page.links = {} /\ page.body = body
      BY DEF DetectionPage, Page
    <3>2. ASSUME NEW d \in Supported(page)
          PROVE  /\ d.source \in Keys /\ d.source # "generic" /\ d.url \in Canonical
                 /\ \/ Matches(d.source, d.url, {})
                    \/ d.url.host = page.url.host /\ d.source \in page.body
      <4>1. d \in DetectPage(page) /\ d.source \in Selectable
        BY DEF Supported
      <4> HIDE DEF page
      <4> QED BY <3>1, <4>1, Selected DEF Keys, Selectable
    <3>3. ASSUME NEW d \in GenericSource(page)
          PROVE  /\ d.source = "generic" /\ d.url \in Canonical
                 /\ d.url.host = page.url.host
      <4> HIDE DEF page
      <4>1. \/ \E e \in Unsupported(page) : d = Source("generic", e.url)
            \/ d = Source("generic", page.url)
        BY DEF GenericSource
      <4>2. CASE d = Source("generic", page.url)
        BY <3>1, <4>2, UrlsAreCanonical DEF Source
      <4>3. ASSUME NEW e \in Unsupported(page), d = Source("generic", e.url)
            PROVE  d.url \in Canonical /\ d.url.host = page.url.host /\ d.source = "generic"
        <5>1. e \in DetectPage(page)
          BY DEF Unsupported
        <5>2. e.url \in Canonical /\ e.url.host = u.host
          BY <3>1, <5>1, Selected
        <5> QED BY <3>1, <4>3, <5>2 DEF Source
      <4> QED BY <4>1, <4>2, <4>3
    <3>4. Detects(found, page)
      BY <2>2
    <3>5. \A d \in found :
           /\ d.source \in Keys /\ d.url \in Canonical
           /\ \/ d.source = "generic" /\ d.url.host = page.url.host
              \/ Matches(d.source, d.url, {}) /\ d.source # "generic"
              \/ /\ d.url.host = page.url.host /\ d.source \in page.body
                 /\ d.source # "generic"
      BY <3>2, <3>3 DEF Keys
    <3>6. ASSUME NEW d \in found, found = {d}
          PROVE  NoOther(d.source, d.url)
      <4>1. Public(page.url) /\ page.url \in Urls /\ page.links = {}
        BY <2>2, <3>1
      <4>2. CASE Supported(page) = {}
        <5>1. d \in GenericSource(page)
          BY <3>6, <4>2
        <5> HIDE DEF page
        <5> QED BY <4>1, <4>2, <5>1, GenericIsOfNobody
      <4>3. CASE Supported(page) # {}
        <5>1. d \in Supported(page) /\ Supported(page) = {d}
          BY <3>6, <4>3
        <5> HIDE DEF page
        <5> QED BY <4>1, <5>1, OnlyOne
      <4> QED BY <4>2, <4>3
    <3> HIDE DEF page, found
    <3> QED BY <3>4, <3>5, <3>6, DetectsKeeps
  <2> QED BY <1>2, <2>1, <2>2 DEF CrawlUrl
<1>3. CASE BeginFetch
  <2>1. sources' = {}
    BY <1>3 DEF BeginFetch, Begin
  <2> QED BY <2>1 DEF DetectionInv, AllDiffer
<1>4. CASE UNCHANGED detectionVars
  BY <1>4 DEF detectionVars, DetectionInv, AllDiffer, SourceOK, EvidenceOf, OfVendor, Equivalent
<1> QED BY <1>1, <1>2, <1>3, <1>4 DEF Next, Detection, vars

-----------------------------------------------------------------------------
LEMMA DetectionAlways == Spec => []DetectionInv
<1>1. Init => DetectionInv
  BY DEF Init, DetectionInit, DetectionInv, AllDiffer
<1> QED BY <1>1, DetectionStep, PTL DEF Spec

(* Which listings a Company may read by two sources, for any hosts, paths, *)
(* escapes and folds: company_source_create compares identities, and what  *)
(* an address tells by itself no crawl takes for something else.           *)
THEOREM DetectionNoListingTwice == Spec => []NoListingTwice
<1>1. ASSUME DetectionInv
      PROVE  NoListingTwice
  <2>1. SUFFICES ASSUME NEW s \in sources, NEW t \in sources, s # t,
                        ReadAlike(s, t), Literal(s.url), Literal(t.url)
                 PROVE  \E a, b \in {s, t} : a.source = "generic" /\ ToldByBody(b)
    BY DEF NoListingTwice
  <2>2. /\ SourceOK(s) /\ NoOther(s.source, s.url)
        /\ SourceOK(t) /\ NoOther(t.source, t.url)
    BY <1>1 DEF DetectionInv
  <2>3. s.source # t.source
    <3>1. ~Equivalent(s, t)
      BY <1>1, <2>1 DEF DetectionInv, AllDiffer
    <3> QED BY <2>1, <2>2, <3>1, ListingTellsIdentity
  <2>4. ~(s.source \in Selectable /\ t.source \in Selectable)
    BY <2>1, <2>2, <2>3, ListingTellsPlatform
  <2>5. s.source \in Keys /\ t.source \in Keys
    BY <2>2 DEF SourceOK
  <2>6. CASE s.source = "generic"
    <3>1. t.source \in Selectable /\ t.source # "generic"
      BY <2>3, <2>5, <2>6 DEF Keys
    <3>2. ~OfVendor(t)
      BY <2>1, <2>2, <2>6, <3>1, VendorIsNotGeneric
    <3> QED BY <2>6, <3>1, <3>2 DEF ToldByBody
  <2>7. CASE t.source = "generic"
    <3>1. s.source \in Selectable /\ s.source # "generic"
      BY <2>3, <2>5, <2>7 DEF Keys
    <3>2. ReadAlike(t, s)
      BY <2>1 DEF ReadAlike
    <3>3. ~OfVendor(s)
      BY <2>1, <2>2, <2>7, <3>1, <3>2, VendorIsNotGeneric
    <3> QED BY <2>7, <3>1, <3>3 DEF ToldByBody
  <2> QED BY <2>4, <2>5, <2>6, <2>7 DEF Keys
<1> QED BY <1>1, DetectionAlways, PTL

(* Every source has evidence of its own host, however the page that was    *)
(* crawled looked and whatever it linked.                                  *)
THEOREM DetectionEvidence == Spec => []EvidenceIsOfItsHost
<1>1. DetectionInv => EvidenceIsOfItsHost
  BY DEF DetectionInv, EvidenceOf, EvidenceIsOfItsHost
<1> QED BY <1>1, DetectionAlways, PTL

-----------------------------------------------------------------------------
(***************************************************************************)
(* Snapshots. SourceAdapters implements SnapshotFetch, for any site, page  *)
(* size and limits, however the site changes and whatever it answers.      *)
(*                                                                         *)
(* The argument, adapter by adapter: all that was collected was published  *)
(* at some time; and if no answer was odd and the site did not change (or  *)
(* the listing is one answer), then what is collected so far is exactly    *)
(* the part of the listing that was read, and the check that lets a fetch  *)
(* end leaves no part unread.                                              *)
(***************************************************************************)

LEMMA FunctionIsInjection ==
  ASSUME NEW S, NEW T, NEW f \in [S -> T], \A x, y \in S : f[x] = f[y] => x = y
  PROVE  f \in Injection(S, T)
BY DEF Injection, IsInjective

LEMMA FunctionIsSurjection ==
  ASSUME NEW S, NEW T, NEW f \in [S -> T], \A y \in T : \E x \in S : f[x] = y
  PROVE  f \in Surjection(S, T)
BY DEF Surjection

LEMMA JobsAreFinite ==
  ASSUME NEW S \in SUBSET Jobs
  PROVE  /\ S \subseteq Nat /\ IsFiniteSet(S) /\ Cardinality(S) \in Nat
         /\ Cardinality(S) <= Cardinality(Jobs) /\ Cardinality(Jobs) \in Nat
         /\ \A T \in SUBSET S : /\ IsFiniteSet(T) /\ Cardinality(T) \in Nat
                                /\ Cardinality(T) <= Cardinality(S)
                                /\ Cardinality(T) = Cardinality(S) => T = S
<1>1. IsFiniteSet(Jobs) /\ Jobs \subseteq Nat
  BY FetchAssumption DEF FetchAssumption
<1>2. IsFiniteSet(S) /\ Cardinality(S) <= Cardinality(Jobs)
  BY <1>1, FS_Subset
<1>3. Cardinality(S) \in Nat /\ Cardinality(Jobs) \in Nat
  BY <1>1, <1>2, FS_CardinalityType
<1>4. ASSUME NEW T \in SUBSET S
      PROVE  /\ IsFiniteSet(T) /\ Cardinality(T) \in Nat
             /\ Cardinality(T) <= Cardinality(S)
             /\ Cardinality(T) = Cardinality(S) => T = S
  BY <1>2, FS_Subset, FS_CardinalityType
<1> QED BY <1>1, <1>2, <1>3, <1>4

-----------------------------------------------------------------------------
(* The ranks of a site are 0, 1, ... without a gap, so a window that some  *)
(* posting lies behind is full.                                            *)
LEMMA RanksGrow ==
  ASSUME site \in SUBSET Jobs
  PROVE  /\ \A j \in site : Rank(j) \in 0 .. Cardinality(site) - 1
         /\ \A i, j \in site : i < j => Rank(i) < Rank(j)
<1> DEFINE below(j) == {i \in site : i < j}
<1>1. /\ site \subseteq Nat /\ IsFiniteSet(site) /\ Cardinality(site) \in Nat
      /\ \A T \in SUBSET site : /\ IsFiniteSet(T) /\ Cardinality(T) \in Nat
                                /\ Cardinality(T) <= Cardinality(site)
                                /\ Cardinality(T) = Cardinality(site) => T = site
  BY JobsAreFinite
<1>2. ASSUME NEW j \in site PROVE Rank(j) \in 0 .. Cardinality(site) - 1
  <2>1. below(j) \subseteq site /\ j \notin below(j)
    BY <1>1
  <2>2. Cardinality(below(j)) \in Nat /\ Cardinality(below(j)) < Cardinality(site)
    BY <1>1, <2>1
  <2> QED BY <1>1, <2>2 DEF Rank
<1>3. ASSUME NEW i \in site, NEW j \in site, i < j PROVE Rank(i) < Rank(j)
  <2>0. i \in Nat /\ j \in Nat /\ ~(i < i)
    BY <1>1
  <2>1. below(i) \subseteq below(j) /\ i \in below(j) /\ i \notin below(i)
    <3>1. \A k \in site : k < i => k < j
      BY <1>1, <1>3, <2>0
    <3> QED BY <1>3, <2>0, <3>1
  <2>2. IsFiniteSet(below(j)) /\ below(i) \in SUBSET below(j)
    BY <1>1, <2>1
  <2>3. Cardinality(below(i)) <= Cardinality(below(j))
        /\ Cardinality(below(j)) # Cardinality(below(i))
    BY <2>1, <2>2, FS_Subset
  <2> QED BY <1>1, <2>3 DEF Rank
<1> QED BY <1>2, <1>3

LEMMA RanksDiffer ==
  ASSUME site \in SUBSET Jobs
  PROVE  \A i, j \in site : Rank(i) = Rank(j) => i = j
<1>1. site \subseteq Nat /\ Cardinality(site) \in Nat
  BY JobsAreFinite
<1>2. ASSUME NEW i \in site, NEW j \in site, Rank(i) = Rank(j), i # j
      PROVE  FALSE
  <2>1. i < j \/ j < i
    BY <1>1, <1>2
  <2>2. Rank(i) \in Int /\ Rank(i) < Rank(i)
    BY <1>1, <1>2, <2>1, RanksGrow
  <2> QED BY <2>2
<1> QED BY <1>2

LEMMA RanksAreAll ==
  ASSUME site \in SUBSET Jobs, NEW r \in 0 .. Cardinality(site) - 1
  PROVE  \E j \in site : Rank(j) = r
<1> DEFINE f == [j \in site |-> Rank(j)]
           n == Cardinality(site)
<1>1. n \in Nat /\ IsFiniteSet(site)
  BY JobsAreFinite
<1>2. f \in Injection(site, 0 .. n - 1)
  <2>1. f \in [site -> 0 .. n - 1]
    BY RanksGrow
  <2>2. \A x, y \in site : f[x] = f[y] => x = y
    BY RanksDiffer
  <2> HIDE DEF f
  <2> QED BY <2>1, <2>2, FunctionIsInjection
<1>3. IsFiniteSet(0 .. n - 1) /\ Cardinality(0 .. n - 1) = n
  BY <1>1, FS_Interval
<1>4. f \in Surjection(site, 0 .. n - 1)
  <2> HIDE DEF f
  <2> QED BY <1>2, <1>3, FS_Injection
<1>5. \E j \in site : f[j] = r
  <2> HIDE DEF f
  <2> QED BY <1>4 DEF Surjection
<1> QED BY <1>5

LEMMA WindowIs ==
  ASSUME site \in SUBSET Jobs, NEW skip \in Nat, NEW n \in Nat
  PROVE  /\ Window(skip, n) \subseteq site
         /\ \A j \in site : j \in Window(skip, n) <=> skip <= Rank(j) /\ Rank(j) < skip + n
BY DEF Window

LEMMA WindowFits ==
  ASSUME site \in SUBSET Jobs, NEW skip \in Nat, NEW n \in Nat
  PROVE  Cardinality(Window(skip, n)) <= n
<1> DEFINE W == Window(skip, n)
           f == [i \in W |-> Rank(i)]
           T == skip .. skip + n - 1
<1>1. \A j \in site : Rank(j) \in Nat
  BY RanksGrow, JobsAreFinite
<1>2. f \in [W -> T]
  <2>1. \A i \in W : Rank(i) \in T
    BY <1>1 DEF Window
  <2> QED BY <2>1
<1>3. \A x, y \in W : f[x] = f[y] => x = y
  <2>1. W \subseteq site
    BY WindowIs
  <2>2. \A x, y \in W : Rank(x) = Rank(y) => x = y
    BY <2>1, RanksDiffer
  <2> HIDE DEF W
  <2> QED BY <2>2
<1>4. f \in Injection(W, T)
  <2> HIDE DEF f, W, T
  <2> QED BY <1>2, <1>3, FunctionIsInjection
<1>5. skip \in Int /\ skip + n - 1 \in Int
  OBVIOUS
<1>6. IsFiniteSet(T) /\ Cardinality(T) = n
  <2>1. IsFiniteSet(T) /\ Cardinality(T) = IF skip > skip + n - 1 THEN 0 ELSE (skip + n - 1) - skip + 1
    BY <1>5, FS_Interval, Zenon
  <2> QED BY <2>1
<1>7. Cardinality(W) <= Cardinality(T)
  <2> HIDE DEF f, W, T
  <2> QED BY <1>4, <1>6, FS_Injection
<1> QED BY <1>6, <1>7

LEMMA WindowIsFull ==
  ASSUME site \in SUBSET Jobs, NEW skip \in Nat, NEW n \in Nat,
         NEW j \in site, Rank(j) >= skip + n
  PROVE  Cardinality(Window(skip, n)) >= n
<1> DEFINE W == Window(skip, n)
           f == [i \in W |-> Rank(i)]
           T == skip .. skip + n - 1
<1>0. Cardinality(site) \in Nat /\ Rank(j) \in 0 .. Cardinality(site) - 1
  BY JobsAreFinite, RanksGrow
<1>1. f \in [W -> T]
  BY RanksGrow, JobsAreFinite DEF Window
<1>2. \A r \in T : \E i \in W : f[i] = r
  <2> SUFFICES ASSUME NEW r \in T PROVE \E i \in W : Rank(i) = r
    OBVIOUS
  <2>1. r \in 0 .. Cardinality(site) - 1
    BY <1>0
  <2>2. PICK i \in site : Rank(i) = r
    BY <2>1, RanksAreAll
  <2> QED BY <2>2 DEF Window
<1>3. f \in Surjection(W, T)
  <2> HIDE DEF f, W
  <2> QED BY <1>1, <1>2, FunctionIsSurjection
<1>4. IsFiniteSet(W)
  BY JobsAreFinite, WindowIs
<1>5. Cardinality(T) = n
  BY FS_Interval
<1>6. Cardinality(T) <= Cardinality(W)
  <2> HIDE DEF f, W, T
  <2> QED BY <1>3, <1>4, FS_Surjection
<1> QED BY <1>5, <1>6

-----------------------------------------------------------------------------
(* Pages of a listing of n postings, in whole numbers.                     *)
LEMMA PagesForIs ==
  ASSUME NEW n \in Nat
  PROVE  /\ PagesFor(n) \in Nat /\ n <= PagesFor(n) * PageSize
         /\ PagesFor(n) * PageSize < n + PageSize /\ PagesFor(n) <= n
<1>1. PageSize \in Nat \ {0}
  BY FetchAssumption DEF FetchAssumption
<1> DEFINE q == (n + PageSize - 1) \div PageSize
<1>2. q \in Nat /\ q * PageSize <= n + PageSize - 1 /\ n + PageSize - 1 < q * PageSize + PageSize
  BY <1>1
<1> HIDE DEF q
<1>3. q <= n
  <2>1. ASSUME q > n PROVE FALSE
    <3>1. q >= n + 1
      BY <1>2, <2>1
    <3>2. q * PageSize >= (n + 1) * PageSize
      BY <1>1, <1>2, <3>1
    <3>3. (n + 1) * PageSize = n * PageSize + PageSize
      BY <1>1
    <3>4. n * PageSize >= n /\ n * PageSize \in Nat /\ q * PageSize \in Nat
      BY <1>1, <1>2
    <3> QED BY <1>1, <1>2, <3>2, <3>3, <3>4
  <2> QED BY <1>2, <2>1
<1>4. PagesFor(n) = q
  BY DEF PagesFor, q
<1>5. q * PageSize \in Nat
  BY <1>1, <1>2
<1> QED BY <1>1, <1>2, <1>3, <1>4, <1>5

(* Every posting is on one of them.                                        *)
LEMMA PagesShowAll ==
  ASSUME site \in SUBSET Jobs, NEW j \in site
  PROVE  \E m \in 1 .. PagesFor(Cardinality(site)) : j \in Window((m - 1) * PageSize, PageSize)
<1> DEFINE n == Cardinality(site)
           q == Rank(j) \div PageSize
           last == PagesFor(n)
<1>1. PageSize \in Nat \ {0} /\ n \in Nat
  BY FetchAssumption, JobsAreFinite DEF FetchAssumption
<1>2. Rank(j) \in Nat /\ Rank(j) < n
  BY <1>1, RanksGrow
<1>3. q \in Nat /\ q * PageSize <= Rank(j) /\ Rank(j) < q * PageSize + PageSize
  BY <1>1, <1>2
<1>4. last \in Nat /\ n <= last * PageSize
  BY <1>1, PagesForIs
<1> HIDE DEF n, q, last
<1>5. q < last
  <2>1. ASSUME q >= last PROVE FALSE
    <3>1. q * PageSize >= last * PageSize /\ q * PageSize \in Nat /\ last * PageSize \in Nat
      BY <1>1, <1>3, <1>4, <2>1
    <3> QED BY <1>1, <1>2, <1>3, <1>4, <3>1
  <2> QED BY <1>3, <1>4, <2>1
<1>6. q + 1 \in 1 .. last /\ (q + 1) - 1 = q /\ q * PageSize \in Nat
  BY <1>1, <1>3, <1>4, <1>5
<1>7. j \in Window(q * PageSize, PageSize)
  BY <1>1, <1>2, <1>3, <1>6, WindowIs
<1>8. j \in Window(((q + 1) - 1) * PageSize, PageSize)
  BY <1>6, <1>7
<1> QED BY <1>6, <1>8 DEF last, n

(* The smaller of two limits.                                              *)
LEMMA MinOfTwo ==
  ASSUME NEW a \in Nat, NEW b \in Nat
  PROVE  Min({a, b}) = IF a <= b THEN a ELSE b
<1>1. First({a, b}) \in {a, b}
  BY SmallestIsIn
<1>2. ASSUME NEW x \in {a, b}, \A y \in {a, b} : x <= y
      PROVE  x = IF a <= b THEN a ELSE b
  BY <1>2
<1>3. \E x \in {a, b} : \A y \in {a, b} : x <= y
  <2>1. CASE a <= b
    BY <2>1
  <2>2. CASE ~(a <= b)
    BY <2>2
  <2> QED BY <2>1, <2>2
<1>4. Min({a, b}) \in {a, b} /\ \A y \in {a, b} : Min({a, b}) <= y
  BY <1>3 DEF Min
<1> QED BY <1>2, <1>4

(* What a careers site of Zoho Recruit shows.                              *)
LEMMA ShownIs ==
  ASSUME site \in SUBSET Jobs
  PROVE  /\ Shown \in SUBSET site
         /\ Cardinality(Shown) < ListingLimit => Shown = site
<1> DEFINE n == Cardinality(site)
           P(p) == /\ Cardinality(p) = Min({Cardinality(site), ListingLimit})
                   /\ \A j \in p, i \in site \ p : j < i
<1>1. n \in Nat /\ ListingLimit \in Nat /\ site \subseteq Nat
      /\ \A T \in SUBSET site : /\ Cardinality(T) \in Nat /\ Cardinality(T) <= n
                                /\ Cardinality(T) = n => T = site
  BY FetchAssumption, JobsAreFinite DEF FetchAssumption
<1>2. Min({Cardinality(site), ListingLimit}) = IF n <= ListingLimit THEN n ELSE ListingLimit
  BY <1>1, MinOfTwo
<1>3. \E p \in SUBSET site : P(p)
  <2>1. CASE n <= ListingLimit
    <3>1. P(site)
      BY <1>2, <2>1
    <3> QED BY <3>1
  <2>2. CASE ~(n <= ListingLimit)
    <3> DEFINE W == Window(0, ListingLimit)
    <3>1. PICK k \in site : Rank(k) = ListingLimit
      <4>1. ListingLimit \in 0 .. Cardinality(site) - 1
        BY <1>1, <2>2
      <4> QED BY <4>1, RanksAreAll
    <3>2. Cardinality(W) >= ListingLimit
      BY <1>1, <3>1, WindowIsFull
    <3>3. \A j \in site : Rank(j) \in Nat
      BY <1>1, RanksGrow
    <3>4. W \subseteq site /\ \A j \in site : j \in W <=> Rank(j) < ListingLimit
      BY <1>1, <3>3, WindowIs
    <3>5. Cardinality(W) = ListingLimit
      BY <1>1, <3>2, <3>4, WindowFits
    <3>6. ASSUME NEW j \in W, NEW i \in site \ W PROVE j < i
      <4>1. j \in Nat /\ i \in Nat /\ j # i /\ Rank(j) < ListingLimit
            /\ ~(Rank(i) < ListingLimit) /\ Rank(i) \in Nat /\ Rank(j) \in Nat
        BY <1>1, <3>3, <3>4, <3>6
      <4>2. ~(i < j)
        BY <1>1, <3>4, <4>1, RanksGrow
      <4> QED BY <4>1, <4>2
    <3> HIDE DEF W
    <3>7. P(W)
      BY <1>2, <2>2, <3>5, <3>6
    <3> QED BY <3>4, <3>7
  <2> QED BY <2>1, <2>2
<1>4. Shown \in SUBSET site /\ P(Shown)
  BY <1>3 DEF Shown
<1> HIDE DEF P
<1>5. Cardinality(Shown) = IF n <= ListingLimit THEN n ELSE ListingLimit
  BY <1>2, <1>4 DEF P
<1> QED BY <1>1, <1>4, <1>5

-----------------------------------------------------------------------------
(* The invariant. Calm says that the answers are of one publication.       *)
Calm == odd = 0 /\ snaps = {site}

LeverReads ==
  /\ Listed = fetch.seen /\ fetch.page = sent /\ sent < PageLimit
  /\ Calm => \A j \in site : j \in fetch.seen <=> Rank(j) < fetch.skip

ZohoReads == sent = 0

LinkedInReads ==
  /\ Listed = fetch.seen
  /\ Calm => \A j \in site : Rank(j) < Offset(fetch.requests) => j \in fetch.seen

DreamJobsReads ==
  /\ fetch.phase \in {"start", "listing", "details"}
  /\ fetch.phase \in {"start", "listing"} => fetch.records = {}
  /\ told = IF fetch.phase = "start" THEN {} ELSE {fetch.total}
  /\ fetch.phase = "details" =>
       Listed \cup fetch.queue = fetch.seen /\ EveryJobIsSeen
  /\ Calm => told \subseteq {Cardinality(site)}

JazzHRReads ==
  /\ fetch.phase \in {"start", "details"}
  /\ fetch.phase = "start" => sent = 0 /\ fetch.records = {}
  /\ fetch.phase = "details" =>
       /\ Listed \cup fetch.queue = fetch.seen /\ (odd = 0 => fetch.seen \in snaps)
       /\ sent + Cardinality(fetch.queue) <= 1 + Cardinality(fetch.seen)

(* The generic adapter has seen the pages that it asked for, and goes on   *)
(* at one that it did not, in the order of its pager.                      *)
LastPage == PagesFor(Cardinality(site))
GoesOnAt(at, asked, seen) ==
  /\ \A a \in asked : Shows(a) \subseteq seen
  /\ at \in {0, 1, Again} \cup 1 .. LastPage
  /\ at = 0 => seen = {} /\ style.landing
  /\ style.pager = "next" =>
       /\ at \in {0, 1} \cup 1 .. LastPage
       /\ \A a \in asked : a < at
       /\ \A a \in 1 .. LastPage : a < at => a \in asked

Least == Min({MaxRequests, PageLimit})
GenericReads ==
  /\ fetch.phase \in {"start", "details"} /\ style.pager # "none"
  /\ fetch.phase = "start" =>
       /\ fetch.records = {} /\ fetch.skip = 0
       /\ fetch.page = sent /\ sent < PageLimit /\ sent <= MaxRequests
       /\ Calm => GoesOnAt(fetch.at, fetch.asked, fetch.seen)
  /\ fetch.phase = "details" =>
       /\ Listed = Named(fetch.seen) /\ fetch.queue \subseteq Listed
       /\ fetch.skip <= MaxDetails /\ sent <= Least + fetch.skip
       /\ Calm => fetch.seen = site

(* The browser of Darwinbox checks the totals before it clicks, so that    *)
(* only the last listing may tell another total than the first; then the   *)
(* others are not all postings.                                            *)
BodiesAgree ==
  LET n == Len(browser.bodies) IN
  \A k \in 1 .. n :
    \/ browser.bodies[k].total = browser.bodies[1].total
    \/ k = n /\ n > 1 /\ Cardinality(Captured(n - 1)) < browser.bodies[1].total

BodyTotals == {browser.bodies[k].total : k \in 1 .. Len(browser.bodies)}
BrowserReads ==
  /\ fetch.seen = {} /\ fetch.queue = {} /\ fetch.records = {} /\ told = BodyTotals
  /\ fetch.phase = "start" => sent = 0 /\ browser.bodies = <<>> /\ browser.trouble = {}
  /\ fetch.phase = "opening" => sent <= PageLimit /\ fetch.page = 1
  /\ fetch.phase = "clicking" =>
       /\ browser.bodies # <<>> /\ fetch.page \in 1 .. PageLimit
       /\ sent <= PageLimit + (fetch.page - 1)
       /\ fetch.page = PageLimit => BodiesAgree
  /\ fetch.phase = "closed" =>
       /\ sent <= 2 * PageLimit - 1
       /\ browser.trouble = {} => BodiesAgree

(* The listing: by request if the browser has none, or else out of it.     *)
Offline == browser.bodies # <<>>
PagesTaken == IF Offline THEN 2 * PageLimit - 1
              ELSE IF fetch.phase = "listing" THEN fetch.page - 1 ELSE fetch.page
ListingReads ==
  /\ fetch.page \in 1 .. PageLimit /\ Listed = fetch.seen
  /\ sent + Cardinality(Bare \ fetch.seen) <= Cardinality(Bare) + PagesTaken
  /\ fetch.phase = "postings" => fetch.queue \cap fetch.seen = {}
  /\ fetch.phase # "postings" => fetch.queue = {}
  /\ fetch.phase = (IF Offline THEN "reading" ELSE "listing") \/ fetch.phase = "postings"
  /\ ~Offline => told = IF fetch.phase = "listing" /\ fetch.page = 1 THEN {} ELSE {fetch.total}
  /\ Offline =>
       /\ told = BodyTotals /\ BodiesAgree
       /\ fetch.phase = "reading" =>
            /\ fetch.seen = Captured(fetch.page - 1)
            /\ fetch.page > 1 => fetch.total = browser.bodies[1].total
       /\ fetch.phase = "postings" =>
            /\ fetch.page <= Len(browser.bodies)
            /\ fetch.seen \cup fetch.queue = Captured(fetch.page)
            /\ fetch.total = browser.bodies[1].total
            /\ fetch.total = browser.bodies[fetch.page].total

DarwinboxReads ==
  /\ \A k \in 1 .. Len(browser.bodies) : browser.bodies[k].jobs \subseteq Ever
  /\ Calm => told \subseteq {Cardinality(site)}
  /\ \/ fetch.phase \in Browsing \cup {"start"} /\ BrowserReads
     \/ fetch.phase \in {"listing", "reading", "postings"} /\ ListingReads

Progress ==
  /\ adapter \in Adapters
  /\ adapter = "lever" => LeverReads
  /\ adapter = "darwinbox" => DarwinboxReads
  /\ adapter = "dreamjobs" => DreamJobsReads
  /\ adapter = "jazzhr" => JazzHRReads
  /\ adapter = "zoho_recruit" => ZohoReads
  /\ adapter = "linkedin" => LinkedInReads
  /\ adapter = "generic" => GenericReads

Complete ==
  /\ TotalsAreReached
  /\ odd = 0 /\ (adapter \in OneListing \/ snaps = {site})
       => \E s \in snaps : Listed = s \ Skipped

Untouched ==
  /\ adapter = "none" /\ site = {} /\ snaps = {{}} /\ odd = 0 /\ sent = 0 /\ told = {}
  /\ fetch.phase = "start" /\ fetch.page = 0 /\ fetch.skip = 0 /\ fetch.seen = {}
  /\ fetch.queue = {} /\ fetch.records = {} /\ fetch.asked = {} /\ fetch.requests = 0
  /\ fetch.shown = {} /\ fetch.overlap = 0
  /\ browser.bodies = <<>> /\ browser.trouble = {}

SnapInv ==
  /\ FetchTypeOK /\ RequestsAreBounded
  /\ fetch.seen \cup fetch.queue \subseteq Ever /\ Listed \subseteq fetch.seen
  /\ outcome = "idle" => Untouched
  /\ outcome = "pending" => Progress
  /\ outcome = "returned" => Complete

-----------------------------------------------------------------------------
(* What the adapters have in common.                                       *)
Ids(R) == {r[1] : r \in R}
Counts == sent' \in Nat /\ odd' \in Nat /\ told' \in SUBSET Nat /\ sent' <= Budget

LEMMA SiteStays ==
  ASSUME UNCHANGED site_vars
  PROVE  /\ site' = site /\ snaps' = snaps /\ Ever' = Ever
         /\ \A j : Rank(j)' = Rank(j)
BY DEF site_vars, Ever, Rank

LEMMA BudgetStays == ASSUME UNCHANGED adapter PROVE Budget' = Budget /\ PageLimit' = PageLimit
BY DEF Budget, PageLimit

LEMMA FetchGoesOn ==
  ASSUME SnapInv, outcome = "pending", UNCHANGED <<adapter, site_vars, style>>,
         browser' \in [bodies : Seq(Answer), trouble : SUBSET Nat], Counts,
         NEW f \in Fetch, f.seen \cup f.queue \subseteq Ever, Ids(f.records) \subseteq f.seen,
         \/ Proceeds(f) /\ Progress'
         \/ Returns(f) /\ Complete'
  PROVE  SnapInv'
<1>1. /\ adapter' = adapter /\ style' = style /\ site' = site /\ snaps' = snaps
      /\ Ever' = Ever /\ Budget' = Budget /\ fetch' = f
      /\ reported' \in Nat /\ outcome' \in {"pending", "returned"}
  BY SiteStays, BudgetStays DEF Proceeds, Returns, SnapInv, FetchTypeOK, Fetch
<1>2. FetchTypeOK'
  BY <1>1 DEF FetchTypeOK, SnapInv, Counts
<1>3. RequestsAreBounded'
  BY <1>1 DEF RequestsAreBounded, Counts
<1>4. Listed' = Ids(f.records)
  BY <1>1 DEF Listed, Ids
<1>5. (outcome' = "pending" => Progress') /\ (outcome' = "returned" => Complete')
  BY <1>1 DEF Proceeds, Returns
<1> QED BY <1>1, <1>2, <1>3, <1>4, <1>5 DEF SnapInv

LEMMA FetchFails ==
  ASSUME SnapInv, outcome = "pending", UNCHANGED <<adapter, site_vars, style>>,
         browser' \in [bodies : Seq(Answer), trouble : SUBSET Nat], Counts,
         NEW n \in Nat, Raises(n)
  PROVE  SnapInv'
<1>1. /\ adapter' = adapter /\ style' = style /\ site' = site /\ snaps' = snaps
      /\ Ever' = Ever /\ Budget' = Budget /\ fetch' = fetch
      /\ reported' = n /\ outcome' = "raised"
  BY SiteStays, BudgetStays DEF Raises
<1>2. FetchTypeOK'
  BY <1>1 DEF FetchTypeOK, SnapInv, Counts
<1>3. RequestsAreBounded'
  BY <1>1 DEF RequestsAreBounded, Counts
<1>4. Listed' = Listed
  BY <1>1 DEF Listed
<1> QED BY <1>1, <1>2, <1>3, <1>4 DEF SnapInv

(* What a request, a broken one, and none at all do to the counts.         *)
LEMMA CountsAre ==
  ASSUME sent \in Nat, odd \in Nat, told \in SUBSET Nat
  PROVE  /\ \A true \in BOOLEAN : \A T \in SUBSET Nat : Request(true, T) =>
              /\ sent' = sent + 1 /\ odd' \in Nat /\ told' = told \cup T
              /\ odd' = 0 => odd = 0 /\ true
         /\ Silent => sent' = sent /\ odd' = odd /\ told' = told
         /\ \A n \in Nat : Disturbed(n) => sent' = sent + n /\ odd' \in Nat /\ odd' # 0 /\ told' = told
         /\ \A j : Refused(j) => sent' = sent + 1 /\ odd' \in Nat /\ told' = told
<1>1. ASSUME NEW true \in BOOLEAN, NEW T \in SUBSET Nat, Request(true, T)
      PROVE  /\ sent' = sent + 1 /\ odd' \in Nat /\ told' = told \cup T
             /\ odd' = 0 => odd = 0 /\ true
  <2>1. CASE true = TRUE
    BY <1>1, <2>1 DEF Request
  <2>2. CASE true = FALSE
    BY <1>1, <2>2 DEF Request
  <2> QED BY <2>1, <2>2
<1>2. ASSUME NEW j, Refused(j)
      PROVE  sent' = sent + 1 /\ odd' \in Nat /\ told' = told
  BY <1>2 DEF Refused, Disturbed, Sends, Request
<1> QED BY <1>1, <1>2 DEF Silent, Disturbed

LEMMA PendingIs ==
  ASSUME SnapInv, FetchInv, outcome = "pending"
  PROVE  /\ site \in SUBSET Jobs /\ snaps \in SUBSET SUBSET Jobs /\ site \in snaps
         /\ Ever \in SUBSET Jobs /\ site \subseteq Ever
         /\ fetch \in Fetch /\ browser \in [bodies : Seq(Answer), trouble : SUBSET Nat]
         /\ sent \in Nat /\ odd \in Nat /\ told \in SUBSET Nat
         /\ fetch.seen \cup fetch.queue \subseteq Ever /\ Listed \subseteq fetch.seen
         /\ adapter \in Adapters /\ PageLimit \in Nat \ {0}
         /\ PageSize \in Nat \ {0} /\ MaxRequests \in Nat \ {0} /\ MaxDetails \in Nat
         /\ ~(adapter = "darwinbox" /\ fetch.phase \in Browsing) => fetch.requests = sent
         /\ sent <= Budget /\ Progress
<1>1. /\ FetchTypeOK /\ Progress /\ sent <= Budget
      /\ fetch.seen \cup fetch.queue \subseteq Ever /\ Listed \subseteq fetch.seen
  BY DEF SnapInv, RequestsAreBounded
<1>2. adapter \in Adapters
  BY <1>1 DEF Progress
<1>3. PageLimit \in Nat \ {0}
  BY <1>2, FetchAssumption DEF FetchAssumption, PageLimit
<1> QED BY <1>1, <1>2, <1>3, FetchAssumption DEF FetchAssumption, FetchInv, RequestsAreSent,
           FetchTypeOK, Ever

LEMMA CalmSite == ASSUME Calm PROVE Ever = site
BY DEF Calm, Ever

(* The local variables after another request.                              *)
LEMMA CountedIsFetch ==
  ASSUME fetch \in Fetch
  PROVE  /\ Counted \in Fetch /\ Counted.requests = fetch.requests + 1
         /\ Counted.phase = fetch.phase /\ Counted.page = fetch.page /\ Counted.at = fetch.at
         /\ Counted.skip = fetch.skip /\ Counted.total = fetch.total
         /\ Counted.seen = fetch.seen /\ Counted.queue = fetch.queue
         /\ Counted.records = fetch.records /\ Counted.asked = fetch.asked
         /\ Counted.shown = fetch.shown /\ Counted.overlap = fetch.overlap
BY DEF Counted, Fetch

LEMMA IdsAre ==
  /\ Listed = Ids(fetch.records) /\ Ids({}) = {}
  /\ \A S : Ids(Same(S)) = S
  /\ \A R, S : Ids(R \cup S) = Ids(R) \cup Ids(S)
  /\ \A j, k : Ids({<<j, k>>}) = {j}
<1>1. ASSUME NEW S PROVE Ids(Same(S)) = S
  <2>1. ASSUME NEW x \in Ids(Same(S)) PROVE x \in S
    BY DEF Ids, Same
  <2>2. ASSUME NEW x \in S PROVE x \in Ids(Same(S))
    <3>1. <<x, x>> \in Same(S) /\ <<x, x>>[1] = x
      BY DEF Same
    <3> QED BY <3>1, Zenon DEF Ids
  <2> QED BY <2>1, <2>2
<1>2. ASSUME NEW R, NEW S PROVE Ids(R \cup S) = Ids(R) \cup Ids(S)
  BY DEF Ids
<1>3. ASSUME NEW j, NEW k PROVE Ids({<<j, k>>}) = {j}
  BY DEF Ids
<1> QED BY <1>1, <1>2, <1>3 DEF Ids, Listed

LEMMA IdsOfTaken ==
  ASSUME NEW f, NEW R, NEW S, f.records = R \cup Same(S)
  PROVE  Ids(f.records) = Ids(R) \cup S
<1>1. Ids(R \cup Same(S)) = Ids(R) \cup Ids(Same(S))
  BY IdsAre
<1>2. Ids(Same(S)) = S
  BY IdsAre
<1> QED BY <1>1, <1>2

LEMMA IdsOfOne ==
  ASSUME NEW R, NEW j, NEW k
  PROVE  Ids(R \cup {<<j, k>>}) = Ids(R) \cup {j}
<1>1. Ids(R \cup {<<j, k>>}) = Ids(R) \cup Ids({<<j, k>>})
  BY IdsAre
<1>2. Ids({<<j, k>>}) = {j}
  BY IdsAre
<1> QED BY <1>1, <1>2

-----------------------------------------------------------------------------
(* Lever: the postings that were seen are those before the offset.         *)
LEMMA LeverSnap ==
  ASSUME SnapInv, FetchInv, LeverPage
  PROVE  SnapInv'
<1>0. /\ outcome = "pending" /\ adapter = "lever"
      /\ UNCHANGED <<adapter, site_vars, style, browser>>
  BY DEF LeverPage, Running
<1>1. /\ LeverReads /\ Budget = PageLimit /\ fetch.requests = sent
      /\ sent + 1 \in Nat /\ sent + 1 <= PageLimit
  BY <1>0, PendingIs DEF Progress, Budget, LeverReads
<1>2. CASE Broken
  <2>1. Counts /\ Raises(sent + 1)
    BY <1>0, <1>1, <1>2, PendingIs, CountsAre DEF Broken, Counts
  <2> QED BY <1>0, <1>1, <2>1, PendingIs, FetchFails
<1>3. ASSUME NEW page \in Pages,
         LET new == page \ fetch.seen
             now == [Counted EXCEPT !.page = @ + 1, !.skip = @ + LeverSkips(page),
                       !.seen = @ \cup page, !.records = @ \cup LeverRecords(new)]
         IN  /\ Sends(page = Window(fetch.skip, PageSize))
             /\ CASE page = {} -> Returns(now)
                  [] page # {} /\ new = {} -> Raises(now.requests)
                  [] new # {} /\ LeverEnds(page) -> Returns(now)
                  [] new # {} /\ ~LeverEnds(page) /\ now.page < PageLimit -> Proceeds(now)
                  [] OTHER -> Raises(now.requests)
      PROVE SnapInv'
  <2> DEFINE new == page \ fetch.seen
             now == [Counted EXCEPT !.page = @ + 1, !.skip = @ + LeverSkips(page),
                       !.seen = @ \cup page, !.records = @ \cup LeverRecords(new)]
  <2>0. /\ fetch \in Fetch /\ sent \in Nat /\ odd \in Nat /\ told \in SUBSET Nat
        /\ Ever \in SUBSET Jobs /\ site \in SUBSET Jobs /\ PageSize \in Nat \ {0}
        /\ fetch.seen \subseteq Ever /\ PageLimit \in Nat
    BY <1>0, PendingIs
  <2>1. /\ page \subseteq Ever /\ page \in SUBSET Jobs /\ Cardinality(page) <= PageSize
        /\ Cardinality(page) \in Nat
    BY <2>0, JobsAreFinite DEF Pages
  <2>2. /\ sent' = sent + 1 /\ odd' \in Nat /\ told' = told
        /\ odd' = 0 => odd = 0 /\ page = Window(fetch.skip, PageSize)
    BY <1>3, <2>0 DEF Sends, Request
  <2>3. /\ now \in Fetch /\ now.page = fetch.page + 1 /\ now.requests = fetch.requests + 1
        /\ now.skip = fetch.skip + Cardinality(page) /\ now.seen = fetch.seen \cup page
        /\ now.records = fetch.records \cup Same(new) /\ now.queue = fetch.queue
    <3> DEFINE c == Counted
               p == c.page + 1
               n == c.skip + Cardinality(page)
               R == c.records \cup Same(new)
    <3>1. Same(new) \subseteq Jobs \X Jobs
      BY <2>1 DEF Same
    <3>2. c \in Fetch /\ c.page = fetch.page /\ c.requests = fetch.requests + 1
          /\ c.skip = fetch.skip /\ c.seen = fetch.seen /\ c.records = fetch.records
          /\ c.queue = fetch.queue
      BY <2>0, CountedIsFetch
    <3> HIDE DEF c, new
    <3>3. p \in Nat /\ n \in Nat /\ R \in SUBSET (Jobs \X Jobs)
      BY <2>1, <3>1, <3>2 DEF Fetch
    <3>4. now = [c EXCEPT !.page = p, !.skip = n, !.seen = @ \cup page, !.records = R]
      BY Zenon DEF c, p, n, R, LeverSkips, LeverRecords
    <3> HIDE DEF now, p, n, R
    <3>5. [c EXCEPT !.page = p, !.skip = n, !.seen = @ \cup page, !.records = R] \in Fetch
      BY <2>1, <3>2, <3>3 DEF Fetch
    <3>6. /\ now \in Fetch /\ now.page = p /\ now.requests = c.requests
          /\ now.skip = n /\ now.seen = c.seen \cup page
          /\ now.records = R /\ now.queue = c.queue
      BY <3>2, <3>4, <3>5 DEF Fetch
    <3> QED BY <3>2, <3>6 DEF p, n, R
  <2>4. \/ page = {} /\ Returns(now)
        \/ Cardinality(page) < PageSize /\ Returns(now)
        \/ Cardinality(page) = PageSize /\ now.page < PageLimit /\ Proceeds(now)
        \/ Raises(now.requests)
    BY <1>3, <2>0, <2>1 DEF LeverEnds
  <2> HIDE DEF now
  <2>5. Ids(now.records) = now.seen
    <3>1. Ids(now.records) = Listed \cup new
      BY <2>3, IdsAre, IdsOfTaken
    <3> QED BY <1>1, <2>3, <3>1 DEF LeverReads
  <2>6. Counts
    BY <1>1, <2>0, <2>2 DEF Counts
  <2>7. Calm' => Calm /\ page = Window(fetch.skip, PageSize)
    BY <1>0, <2>2, SiteStays DEF Calm
  <2>8. ASSUME Calm'
        PROVE  /\ \A j \in site : j \in fetch.seen <=> Rank(j) < fetch.skip
               /\ \A j \in site : j \in page <=>
                    fetch.skip <= Rank(j) /\ Rank(j) < fetch.skip + PageSize
               /\ \A j \in site : Rank(j) \in Nat
               /\ Ever = site
    <3>1. fetch.skip \in Nat
      BY <2>0 DEF Fetch
    <3> QED BY <1>1, <2>0, <2>7, <2>8, <3>1, WindowIs, RanksGrow, CalmSite DEF LeverReads
  <2>9. now.seen \cup now.queue \subseteq Ever
    BY <1>0, <2>1, <2>3, PendingIs
  <2>10. CASE Raises(now.requests)
    <3>1. now.requests \in Nat
      BY <2>3 DEF Fetch
    <3> QED BY <1>0, <2>6, <2>10, <3>1, PendingIs, FetchFails
  <2>11. CASE (page = {} \/ Cardinality(page) < PageSize) /\ Returns(now)
    <3>1. /\ fetch' = now /\ adapter' = "lever" /\ site' = site /\ snaps' = snaps
          /\ Listed' = Ids(now.records) /\ ~(adapter \in OneListing) /\ Skipped' = {}
      BY <1>0, <2>11, SiteStays, IdsAre DEF Returns, OneListing, Skipped, Listed, Ids
    <3>2. ASSUME Calm' PROVE now.seen = site
      <4>1. ASSUME NEW j \in site, Rank(j) >= fetch.skip + PageSize PROVE FALSE
        <5>1. fetch.skip \in Nat
          BY <2>0 DEF Fetch
        <5>2. Cardinality(Window(fetch.skip, PageSize)) >= PageSize
          BY <2>0, <4>1, <5>1, WindowIsFull
        <5>3. page = Window(fetch.skip, PageSize)
          BY <2>7, <3>2
        <5>4. Cardinality({}) = 0
          BY FS_EmptySet
        <5> QED BY <2>0, <2>1, <2>11, <5>2, <5>3, <5>4
      <4>2. \A j \in site : j \in now.seen
        BY <2>0, <2>3, <2>8, <3>2, <4>1 DEF Fetch
      <4> QED BY <2>8, <2>9, <3>2, <4>2
    <3>3. Complete'
      BY <2>0, <2>5, <3>1, <3>2 DEF Complete, TotalsAreReached, Calm, OneListing
    <3> QED BY <1>0, <2>3, <2>5, <2>6, <2>9, <2>11, <3>3, PendingIs, FetchGoesOn
  <2>12. CASE Cardinality(page) = PageSize /\ now.page < PageLimit /\ Proceeds(now)
    <3>1. /\ fetch' = now /\ adapter' = "lever" /\ site' = site /\ PageLimit' = PageLimit
          /\ Listed' = Ids(now.records) /\ adapter' \in Adapters
      BY <1>0, <2>12, PendingIs, SiteStays, BudgetStays DEF Proceeds, Listed, Ids
    <3>2. ASSUME Calm' PROVE \A j \in site : j \in now.seen <=> Rank(j) < now.skip
      BY <2>0, <2>3, <2>8, <2>12, <3>2 DEF Fetch
    <3>3. LeverReads'
      BY <1>0, <1>1, <2>2, <2>3, <2>5, <2>12, <3>1, <3>2, SiteStays DEF LeverReads
    <3>4. Progress'
      BY <3>1, <3>3 DEF Progress
    <3> QED BY <1>0, <2>3, <2>5, <2>6, <2>9, <2>12, <3>4, PendingIs, FetchGoesOn
  <2> QED BY <2>4, <2>10, <2>11, <2>12
<1> QED BY <1>2, <1>3, Zenon DEF LeverPage
-----------------------------------------------------------------------------
(* Zoho Recruit: one answer, verified to be below what the platform shows. *)
LEMMA ZohoSnap ==
  ASSUME SnapInv, FetchInv, ZohoListing
  PROVE  SnapInv'
<1>0. /\ outcome = "pending" /\ adapter = "zoho_recruit"
      /\ UNCHANGED <<adapter, site_vars, style, browser>>
  BY DEF ZohoListing, Running
<1>1. /\ sent = 0 /\ Budget = 1 /\ fetch.requests = 0 /\ adapter \in OneListing
      /\ fetch \in Fetch /\ odd \in Nat /\ told \in SUBSET Nat
      /\ Ever \in SUBSET Jobs /\ site \in SUBSET Jobs /\ site \in snaps
      /\ fetch.queue \subseteq Ever
      /\ browser \in [bodies : Seq(Answer), trouble : SUBSET Nat]
  BY <1>0, PendingIs DEF Progress, ZohoReads, Budget, OneListing
<1>2. ASSUME Counts, Raises(1) PROVE SnapInv'
  BY <1>0, <1>1, <1>2, FetchFails
<1>3. CASE Broken
  <2>1. Counts /\ Raises(1)
    BY <1>1, <1>3 DEF Broken, Disturbed, Counts
  <2> QED BY <1>2, <2>1
<1>4. ASSUME NEW page \in SUBSET Ever, Sends(page = Shown),
             IF Verifiable(page) /\ page \cap Untitled = {}
             THEN Returns([Counted EXCEPT !.seen = page, !.records = Same(page)])
             ELSE Raises(fetch.requests + 1)
      PROVE SnapInv'
  <2>1. Counts /\ (odd' = 0 => page = Shown)
    BY <1>1, <1>4 DEF Sends, Request, Counts
  <2>2. CASE Raises(fetch.requests + 1)
    BY <1>1, <1>2, <2>1, <2>2
  <2>3. CASE Verifiable(page) /\ Returns([Counted EXCEPT !.seen = page, !.records = Same(page)])
    <3> DEFINE c == Counted
               f == [c EXCEPT !.seen = page, !.records = Same(page)]
    <3>1. c \in Fetch /\ c.queue = fetch.queue
      BY <1>1, CountedIsFetch
    <3>2. page \in SUBSET Jobs /\ Same(page) \in SUBSET (Jobs \X Jobs)
      BY <1>1 DEF Same
    <3>3. Returns(f)
      BY <2>3
    <3> HIDE DEF c
    <3>4. f \in Fetch /\ f.seen = page /\ f.records = Same(page) /\ f.queue = fetch.queue
      BY <3>1, <3>2 DEF Fetch
    <3> HIDE DEF f
    <3>5. Ids(f.records) = page
      BY <3>4, IdsAre
    <3>6. odd' = 0 => page = site
      <4>1. Shown \in SUBSET site /\ (Cardinality(Shown) < ListingLimit => Shown = site)
        BY <1>1, ShownIs
      <4> QED BY <2>1, <2>3, <4>1 DEF Verifiable
    <3>7. /\ Listed' = page /\ adapter' = adapter /\ snaps' = snaps /\ Skipped' = {}
      BY <1>0, <3>3, <3>5, SiteStays DEF Returns, Listed, Ids, Skipped
    <3>8. TotalsAreReached'
      BY <1>0, <3>7 DEF TotalsAreReached
    <3>9. Complete'
      BY <1>1, <3>6, <3>7, <3>8 DEF Complete
    <3> QED BY <1>0, <1>1, <2>1, <3>3, <3>4, <3>5, <3>9, FetchGoesOn
  <2> QED BY <1>4, <2>2, <2>3
<1> QED BY <1>3, <1>4, Zenon DEF ZohoListing

-----------------------------------------------------------------------------
(* LinkedIn: all before the offset was seen, and an empty batch is behind  *)
(* the last posting.                                                       *)
LEMMA OffsetIs ==
  ASSUME NEW n \in Nat, "linkedin" \in Adapters
  PROVE  /\ Offset(n) \in Nat /\ Offset(n + 1) \in Nat
         /\ Offset(n + 1) <= Offset(n) + PageSize
<1>1. /\ Start \in Nat /\ Step \in Nat /\ PageSize \in Nat
      /\ Start <= PageSize /\ Step <= PageSize
  BY FetchAssumption, LinkedInAssumption DEF FetchAssumption, LinkedInAssumption
<1>2. Offset(n + 1) = Start + n * Step /\ n * Step \in Nat
  BY <1>1 DEF Offset
<1>3. CASE n = 0
  <2>1. 0 * Step = 0
    BY <1>1
  <2> QED BY <1>1, <1>2, <1>3, <2>1 DEF Offset
<1>4. CASE n # 0
  <2>1. Offset(n) = Start + (n - 1) * Step /\ (n - 1) * Step \in Nat
    BY <1>1, <1>4 DEF Offset
  <2>2. n * Step = (n - 1) * Step + Step
    BY <1>1
  <2> QED BY <1>1, <1>2, <2>1, <2>2
<1> QED BY <1>3, <1>4

LEMMA LinkedInSnap ==
  ASSUME SnapInv, FetchInv, LinkedInBatch
  PROVE  SnapInv'
<1>0. /\ outcome = "pending" /\ adapter = "linkedin"
      /\ UNCHANGED <<adapter, site_vars, style, browser>>
  BY DEF LinkedInBatch, Running
<1>1. /\ LinkedInReads /\ fetch.requests = sent /\ sent \in Nat /\ sent <= Budget
      /\ fetch \in Fetch /\ odd \in Nat /\ told \in SUBSET Nat
      /\ Ever \in SUBSET Jobs /\ site \in SUBSET Jobs /\ PageSize \in Nat \ {0}
      /\ fetch.seen \cup fetch.queue \subseteq Ever /\ adapter \in Adapters
      /\ browser \in [bodies : Seq(Answer), trouble : SUBSET Nat]
  BY <1>0, PendingIs DEF Progress
<1>2. LinkedInMayGo => sent + 1 <= Budget
  <2>1. PageLimit \in Nat /\ MaxRequests \in Nat
    BY <1>0, PendingIs
  <2>2. Budget = IF MaxRequests <= PageLimit THEN MaxRequests ELSE PageLimit
    BY <1>0, <2>1, MinOfTwo DEF Budget
  <2> QED BY <1>1, <2>1, <2>2 DEF LinkedInMayGo
<1>3. CASE Raises(fetch.requests) /\ Silent
  <2>1. Counts
    BY <1>1, <1>3 DEF Silent, Counts
  <2> QED BY <1>0, <1>1, <1>3, <2>1, FetchFails
<1>4. CASE LinkedInMayGo /\ Broken
  <2>1. Counts /\ Raises(sent + 1)
    BY <1>1, <1>2, <1>4 DEF Broken, Disturbed, Counts
  <2> QED BY <1>0, <1>1, <2>1, FetchFails
<1>5. ASSUME LinkedInMayGo, NEW page \in Pages,
         LET overlap == IF page \subseteq fetch.seen THEN fetch.overlap + 1 ELSE 0
             now == [Counted EXCEPT !.seen = @ \cup page, !.overlap = overlap,
                       !.records = @ \cup Same(page), !.shown = @ \cup {page}]
         IN  /\ Sends(page = Window(Offset(fetch.requests), PageSize))
             /\ CASE page \in fetch.shown -> Raises(now.requests)
                  [] page \notin fetch.shown /\ LinkedInEnds(page) -> Returns(now)
                  [] OTHER -> IF overlap > OverlapLimit /\ page \subseteq fetch.seen
                              THEN Raises(now.requests) ELSE Proceeds(now)
      PROVE SnapInv'
  <2> DEFINE overlap == IF page \subseteq fetch.seen THEN fetch.overlap + 1 ELSE 0
             now == [Counted EXCEPT !.seen = @ \cup page, !.overlap = overlap,
                       !.records = @ \cup Same(page), !.shown = @ \cup {page}]
             skip == Offset(fetch.requests)
  <2>1. page \subseteq Ever /\ page \in SUBSET Jobs
    BY <1>1 DEF Pages
  <2>2. Counts /\ (odd' = 0 => odd = 0 /\ page = Window(skip, PageSize))
    BY <1>1, <1>2, <1>5 DEF Sends, Request, Counts
  <2>3. /\ now \in Fetch /\ now.requests = sent + 1 /\ now.seen = fetch.seen \cup page
        /\ now.records = fetch.records \cup Same(page) /\ now.queue = fetch.queue
    <3> DEFINE c == Counted
               R == c.records \cup Same(page)
               T == c.shown \cup {page}
    <3>1. Same(page) \subseteq Jobs \X Jobs
      BY <2>1 DEF Same
    <3>2. /\ c \in Fetch /\ c.requests = fetch.requests + 1 /\ c.seen = fetch.seen
          /\ c.records = fetch.records /\ c.queue = fetch.queue
      BY <1>1, CountedIsFetch
    <3> HIDE DEF c
    <3>3. overlap \in Nat /\ R \in SUBSET (Jobs \X Jobs) /\ T \in SUBSET SUBSET Jobs
      BY <1>1, <2>1, <3>1, <3>2 DEF Fetch
    <3>4. now = [c EXCEPT !.seen = @ \cup page, !.overlap = overlap, !.records = R, !.shown = T]
      BY Zenon DEF c
    <3> HIDE DEF now, R, T, overlap
    <3>5. [c EXCEPT !.seen = @ \cup page, !.overlap = overlap, !.records = R, !.shown = T] \in Fetch
      BY <2>1, <3>2, <3>3 DEF Fetch
    <3>6. /\ now \in Fetch /\ now.requests = c.requests /\ now.seen = c.seen \cup page
          /\ now.records = R /\ now.queue = c.queue
      BY <3>2, <3>4, <3>5 DEF Fetch
    <3> QED BY <1>1, <3>2, <3>6 DEF R
  <2>4. \/ page = {} /\ Returns(now)
        \/ Raises(now.requests)
        \/ Proceeds(now)
    BY <1>5 DEF LinkedInEnds
  <2> HIDE DEF now
  <2>5. Ids(now.records) = now.seen
    <3>1. Ids(now.records) = Listed \cup page
      BY <2>3, IdsAre, IdsOfTaken
    <3> QED BY <1>1, <2>3, <3>1 DEF LinkedInReads
  <2>6. now.seen \cup now.queue \subseteq Ever
    BY <1>1, <2>1, <2>3
  <2>7. skip \in Nat /\ Offset(sent + 1) \in Nat /\ Offset(sent + 1) <= skip + PageSize
    BY <1>0, <1>1, OffsetIs
  <2>8. ASSUME Calm'
        PROVE  /\ \A j \in site : Rank(j) < skip => j \in fetch.seen
               /\ page = Window(skip, PageSize) /\ Ever = site
               /\ \A j \in site : Rank(j) \in Nat
    <3>1. Calm
      BY <1>0, <2>2, <2>8, SiteStays DEF Calm
    <3> QED BY <1>1, <2>2, <2>8, <3>1, RanksGrow, CalmSite DEF LinkedInReads, Calm
  <2> HIDE DEF skip
  <2>9. CASE Raises(now.requests)
    <3>1. now.requests \in Nat
      BY <1>1, <2>3
    <3> QED BY <1>0, <1>1, <2>2, <2>9, <3>1, FetchFails
  <2>10. CASE page = {} /\ Returns(now)
    <3>1. /\ fetch' = now /\ adapter' = "linkedin" /\ site' = site /\ snaps' = snaps
          /\ Listed' = Ids(now.records) /\ ~(adapter' \in OneListing) /\ Skipped' = {}
      BY <1>0, <2>10, SiteStays DEF Returns, OneListing, Skipped, Listed, Ids
    <3>2. ASSUME Calm' PROVE now.seen = site
      <4>1. ASSUME NEW j \in site, Rank(j) >= skip PROVE FALSE
        <5>1. CASE Rank(j) < skip + PageSize
          BY <1>1, <2>7, <2>8, <2>10, <3>2, <4>1, <5>1, WindowIs
        <5>2. CASE Rank(j) >= skip + PageSize
          <6>1. Cardinality(Window(skip, PageSize)) >= PageSize
            BY <1>1, <2>7, <5>2, WindowIsFull
          <6>2. Cardinality({}) = 0
            BY FS_EmptySet
          <6>3. Window(skip, PageSize) = {}
            BY <2>8, <2>10, <3>2
          <6>4. PageSize \in Nat /\ PageSize > 0
            BY <1>1
          <6> QED BY <6>1, <6>2, <6>3, <6>4
        <5> QED BY <1>1, <2>7, <2>8, <3>2, <5>1, <5>2
      <4>2. \A j \in site : j \in now.seen
        BY <2>3, <2>7, <2>8, <3>2, <4>1
      <4> QED BY <2>6, <2>8, <3>2, <4>2
    <3>3. Complete'
      BY <1>1, <2>5, <3>1, <3>2 DEF Complete, TotalsAreReached, Calm
    <3> QED BY <1>0, <1>1, <2>2, <2>3, <2>5, <2>6, <2>10, <3>3, FetchGoesOn
  <2>11. CASE Proceeds(now)
    <3>1. /\ fetch' = now /\ adapter' = "linkedin" /\ site' = site
          /\ Listed' = Ids(now.records) /\ adapter' \in Adapters
      BY <1>0, <1>1, <2>11, SiteStays DEF Proceeds, Listed, Ids
    <3>2. ASSUME Calm', NEW j \in site, Rank(j) < Offset(now.requests)
          PROVE  j \in now.seen
      BY <1>1, <2>3, <2>7, <2>8, <3>2, WindowIs
    <3>3. LinkedInReads'
      <4>1. Offset(fetch.requests)' = Offset(now.requests)
        BY <3>1
      <4> QED BY <2>5, <3>1, <3>2, <4>1, <1>0, SiteStays DEF LinkedInReads
    <3>4. Progress'
      BY <3>1, <3>3 DEF Progress
    <3> QED BY <1>0, <1>1, <2>2, <2>3, <2>5, <2>6, <2>11, <3>4, FetchGoesOn
  <2> QED BY <2>4, <2>9, <2>10, <2>11
<1> QED BY <1>3, <1>4, <1>5, Zenon DEF LinkedInBatch
-----------------------------------------------------------------------------
(* DreamJobs: as many postings are seen as the one total that was told.    *)
LEMMA DreamJobsIs ==
  ASSUME SnapInv, FetchInv, Running("dreamjobs")
  PROVE  /\ outcome = "pending" /\ adapter = "dreamjobs" /\ adapter \in Adapters
         /\ DreamJobsReads /\ Budget = MaxRequests /\ fetch.requests = sent
         /\ fetch \in Fetch /\ sent \in Nat /\ sent + 1 \in Nat /\ sent <= Budget
         /\ odd \in Nat /\ told \in SUBSET Nat
         /\ Ever \in SUBSET Jobs /\ site \in SUBSET Jobs /\ site \subseteq Ever
         /\ fetch.seen \cup fetch.queue \subseteq Ever
         /\ browser \in [bodies : Seq(Answer), trouble : SUBSET Nat]
         /\ MayCall => sent + 1 <= Budget
<1>1. outcome = "pending" /\ adapter = "dreamjobs"
  BY DEF Running
<1>2. Budget = MaxRequests
  BY <1>1 DEF Budget
<1> QED BY <1>1, <1>2, PendingIs DEF Progress, MayCall

LEMMA DreamJobsGoesOn ==
  ASSUME SnapInv, FetchInv, Running("dreamjobs"),
         UNCHANGED <<adapter, site_vars, style, browser>>, Counts,
         NEW f \in Fetch, Proceeds(f), f.seen \cup f.queue \subseteq Ever,
         f.phase \in {"listing", "details"}, told' = {f.total},
         f.phase = "listing" => f.records = {},
         f.phase = "details" =>
           Ids(f.records) \cup f.queue = f.seen /\ Cardinality(f.seen) = f.total,
         Calm' => f.total = Cardinality(site)
  PROVE  SnapInv'
<1>0. /\ outcome = "pending" /\ adapter' = "dreamjobs" /\ adapter' \in Adapters /\ fetch' = f
      /\ site' = site /\ Listed' = Ids(f.records)
  BY DreamJobsIs, SiteStays DEF Proceeds, Listed, Ids
<1>1. DreamJobsReads'
  BY <1>0 DEF DreamJobsReads, EveryJobIsSeen
<1>2. Progress'
  BY <1>0, <1>1 DEF Progress
<1>3. Ids(f.records) \subseteq f.seen
  BY IdsAre
<1> QED BY <1>0, <1>2, <1>3, DreamJobsIs, FetchGoesOn

LEMMA DreamJobsFails ==
  ASSUME SnapInv, FetchInv, Running("dreamjobs"),
         UNCHANGED <<adapter, site_vars, style, browser>>,
         \/ NoCallLeft
         \/ MayCall /\ Broken
         \/ MayCall /\ Raises(fetch.requests + 1) /\ sent' = sent + 1
             /\ odd' \in Nat /\ told' \in SUBSET Nat
  PROVE  SnapInv'
<1>1. Counts /\ (Raises(sent) \/ Raises(sent + 1))
  BY DreamJobsIs DEF NoCallLeft, Silent, Broken, Disturbed, Counts
<1> QED BY <1>1, DreamJobsIs, FetchFails

(* An answer of the site, odd or not.                                      *)
LEMMA AnswerIs ==
  ASSUME SnapInv, FetchInv, outcome = "pending",
         NEW answer \in Answers, NEW n \in Nat, Request(answer = TrueAnswer(n), {answer.total})
  PROVE  /\ answer.jobs \subseteq Ever /\ answer.jobs \in SUBSET Jobs /\ answer.total \in Nat
         /\ sent' = sent + 1 /\ odd' \in Nat /\ told' = told \cup {answer.total}
         /\ told' \in SUBSET Nat
         /\ odd' = 0 => odd = 0 /\ answer.total = Cardinality(site)
<1>1. answer \in Answer
  BY AnswersAreTyped
<1>2. answer.jobs \subseteq Ever
  BY DEF Answers, Pages
<1>3. /\ sent' = sent + 1 /\ odd' \in Nat /\ told' = told \cup {answer.total}
      /\ odd' = 0 => odd = 0 /\ answer = TrueAnswer(n)
  BY PendingIs DEF Request
<1> QED BY <1>1, <1>2, <1>3, PendingIs DEF Answer, TrueAnswer

LEMMA DreamJobsPageSnap ==
  ASSUME SnapInv, FetchInv, DreamJobsFirstPage \/ DreamJobsPage
  PROVE  SnapInv'
<1>0. /\ Running("dreamjobs") /\ UNCHANGED <<adapter, site_vars, style, browser>>
  BY DEF DreamJobsFirstPage, DreamJobsPage, In
<1>1. CASE NoCallLeft \/ (MayCall /\ Broken)
  BY <1>0, <1>1, DreamJobsFails
<1> DEFINE c == Counted
<1>2. /\ c \in Fetch /\ c.seen = fetch.seen /\ c.queue = fetch.queue /\ c.phase = fetch.phase
      /\ c.records = fetch.records /\ c.total = fetch.total /\ c.page = fetch.page
  BY <1>0, DreamJobsIs, CountedIsFetch
<1>3. ASSUME In("dreamjobs", "start"), MayCall, NEW answer \in Answers,
             Request(answer = TrueAnswer(1), {answer.total}),
             IF Needed(answer.total) > PageLimit THEN Raises(fetch.requests + 1)
             ELSE Proceeds([Counted EXCEPT !.phase = "listing", !.page = 1,
                            !.total = answer.total, !.seen = answer.jobs])
      PROVE SnapInv'
  <2>1. /\ answer.jobs \subseteq Ever /\ answer.jobs \in SUBSET Jobs /\ answer.total \in Nat
        /\ sent' = sent + 1 /\ odd' \in Nat /\ told' = told \cup {answer.total}
        /\ told' \in SUBSET Nat
        /\ odd' = 0 => odd = 0 /\ answer.total = Cardinality(site)
    BY <1>0, <1>3, DreamJobsIs, AnswerIs
  <2> DEFINE f == [c EXCEPT !.phase = "listing", !.page = 1,
                            !.total = answer.total, !.seen = answer.jobs]
  <2>2. CASE Raises(fetch.requests + 1)
    BY <1>0, <1>3, <2>1, <2>2, DreamJobsFails
  <2>3. CASE Proceeds(f)
    <3> HIDE DEF c
    <3> DEFINE n == answer.total
               S == answer.jobs
    <3>1. n \in Int /\ S \in SUBSET Jobs
      BY <2>1
    <3> HIDE DEF n, S
    <3>2. f = [c EXCEPT !.phase = "listing", !.page = 1, !.total = n, !.seen = S]
      BY Zenon DEF n, S
    <3>3. [c EXCEPT !.phase = "listing", !.page = 1, !.total = n, !.seen = S] \in Fetch
      BY <1>2, <3>1 DEF Fetch
    <3>4. /\ f \in Fetch /\ f.phase = "listing" /\ f.total = n
          /\ f.seen = S /\ f.queue = c.queue /\ f.records = c.records
      BY <1>2, <3>2, <3>3 DEF Fetch
    <3>5. /\ f \in Fetch /\ f.phase = "listing" /\ f.total = answer.total
          /\ f.seen = answer.jobs /\ f.queue = fetch.queue /\ f.records = fetch.records
      BY <1>2, <3>4 DEF n, S
    <3>6. told = {} /\ fetch.records = {} /\ fetch.queue \subseteq Ever
      BY <1>0, <1>3, DreamJobsIs DEF DreamJobsReads, In
    <3>7. Counts /\ told' = {answer.total}
      BY <1>0, <1>3, <2>1, <3>6, DreamJobsIs DEF Counts
    <3>8. Calm' => answer.total = Cardinality(site)
      BY <2>1 DEF Calm
    <3> HIDE DEF f
    <3> QED BY <1>0, <2>1, <2>3, <3>5, <3>6, <3>7, <3>8, DreamJobsGoesOn
  <2> QED BY <1>3, <2>2, <2>3
<1>4. ASSUME In("dreamjobs", "listing"), MayCall, NEW answer \in Answers,
             Request(answer = TrueAnswer(fetch.page + 1), {answer.total}),
             IF answer.total # fetch.total \/ answer.jobs \subseteq fetch.seen
             THEN Raises(fetch.requests + 1)
             ELSE Proceeds([Counted EXCEPT !.page = @ + 1, !.seen = @ \cup answer.jobs])
      PROVE SnapInv'
  <2>0. fetch.page + 1 \in Nat
    BY <1>0, DreamJobsIs DEF Fetch
  <2>1. /\ answer.jobs \subseteq Ever /\ answer.jobs \in SUBSET Jobs /\ answer.total \in Nat
        /\ sent' = sent + 1 /\ odd' \in Nat /\ told' = told \cup {answer.total}
        /\ told' \in SUBSET Nat
        /\ odd' = 0 => odd = 0 /\ answer.total = Cardinality(site)
    BY <1>0, <1>4, <2>0, DreamJobsIs, AnswerIs
  <2> DEFINE f == [c EXCEPT !.page = @ + 1, !.seen = @ \cup answer.jobs]
  <2>2. CASE Raises(fetch.requests + 1)
    BY <1>0, <1>4, <2>1, <2>2, DreamJobsFails
  <2>3. CASE answer.total = fetch.total /\ Proceeds(f)
    <3> DEFINE n == c.page + 1
               S == c.seen \cup answer.jobs
    <3> HIDE DEF c
    <3>0. n \in Nat /\ S \in SUBSET Jobs
      BY <1>2, <2>1 DEF Fetch
    <3> HIDE DEF n, S
    <3>1. f = [c EXCEPT !.page = n, !.seen = S]
      BY Zenon DEF n, S
    <3>2. [c EXCEPT !.page = n, !.seen = S] \in Fetch
      BY <1>2, <3>0 DEF Fetch
    <3> HIDE DEF f
    <3>3. /\ f \in Fetch /\ f.phase = "listing" /\ f.total = answer.total
          /\ f.seen = S /\ f.queue = fetch.queue /\ f.records = fetch.records
      BY <1>2, <1>4, <2>3, <3>1, <3>2 DEF Fetch, In
    <3>4. told = {answer.total} /\ fetch.records = {} /\ S \cup fetch.queue \subseteq Ever
      BY <1>0, <1>2, <1>4, <2>1, <2>3, DreamJobsIs DEF DreamJobsReads, In, S
    <3>5. Counts /\ told' = {answer.total}
      BY <1>0, <1>4, <2>1, <3>4, DreamJobsIs DEF Counts
    <3>6. Calm' => answer.total = Cardinality(site)
      BY <2>1 DEF Calm
    <3> QED BY <1>0, <2>3, <3>3, <3>4, <3>5, <3>6, DreamJobsGoesOn
  <2> QED BY <1>4, <2>2, <2>3
<1> QED BY <1>1, <1>3, <1>4, Zenon DEF DreamJobsFirstPage, DreamJobsPage

LEMMA DreamJobsListedSnap ==
  ASSUME SnapInv, FetchInv, DreamJobsListed
  PROVE  SnapInv'
<1>0. /\ Running("dreamjobs") /\ UNCHANGED <<adapter, site_vars, style, browser>>
      /\ fetch.phase = "listing" /\ Silent
  BY DEF DreamJobsListed, In
<1>1. Counts /\ told' = told /\ odd' = odd
  BY <1>0, DreamJobsIs DEF Silent, Counts
<1>2. CASE Raises(fetch.requests)
  BY <1>0, <1>1, <1>2, DreamJobsIs, FetchFails
<1>3. CASE EveryJobIsSeen /\ Proceeds([fetch EXCEPT !.phase = "details", !.queue = fetch.seen])
  <2> DEFINE f == [fetch EXCEPT !.phase = "details", !.queue = fetch.seen]
  <2>1. /\ f \in Fetch /\ f.phase = "details" /\ f.queue = fetch.seen /\ f.seen = fetch.seen
        /\ f.records = fetch.records /\ f.total = fetch.total
    BY <1>0, DreamJobsIs DEF Fetch
  <2>2. fetch.records = {} /\ told = {fetch.total} /\ Cardinality(fetch.seen) = fetch.total
        /\ fetch.seen \subseteq Ever
    BY <1>0, <1>3, DreamJobsIs DEF DreamJobsReads, EveryJobIsSeen
  <2>3. Calm' => fetch.total = Cardinality(site)
    BY <1>0, <1>1, <2>2, SiteStays, DreamJobsIs DEF Calm, DreamJobsReads
  <2>4. Proceeds(f)
    BY <1>3
  <2> HIDE DEF f
  <2>5. Ids(f.records) = {}
    BY <2>1, <2>2, IdsAre
  <2> QED BY <1>0, <1>1, <2>1, <2>2, <2>3, <2>4, <2>5, DreamJobsGoesOn
<1> QED BY <1>2, <1>3 DEF DreamJobsListed

LEMMA FirstIsIn == ASSUME NEW S \in SUBSET Jobs, S # {} PROVE First(S) \in S
BY JobsAreFinite, SmallestIsIn

LEMMA DreamJobsDetailSnap ==
  ASSUME SnapInv, FetchInv, DreamJobsDetail
  PROVE  SnapInv'
<1> DEFINE j == First(fetch.queue)
<1>0. /\ Running("dreamjobs") /\ UNCHANGED <<adapter, site_vars, style, browser>>
      /\ fetch.phase = "details" /\ fetch.queue # {}
  BY DEF DreamJobsDetail, In
<1>1. j \in fetch.queue /\ fetch.queue \subseteq Jobs
  BY <1>0, DreamJobsIs, FirstIsIn
<1>2. CASE NoCallLeft
  BY <1>0, <1>2, DreamJobsFails
<1>3. CASE MayCall /\ Refused(j) /\ Raises(fetch.requests + 1)
  <2>1. sent' = sent + 1 /\ odd' \in Nat /\ told' = told
    BY <1>0, <1>3, DreamJobsIs DEF Refused, Disturbed, Sends, Request
  <2> QED BY <1>0, <1>3, <2>1, DreamJobsIs, DreamJobsFails
<1>4. ASSUME MayCall, NEW k \in Ever, Sends(k = j),
             IF k # j \/ k \in Untitled THEN Raises(fetch.requests + 1)
             ELSE Proceeds([Counted EXCEPT !.queue = @ \ {j}, !.records = @ \cup {<<j, k>>}])
      PROVE SnapInv'
  <2>1. sent' = sent + 1 /\ odd' \in Nat /\ told' = told /\ (odd' = 0 => odd = 0)
    BY <1>0, <1>4, DreamJobsIs DEF Sends, Request
  <2>2. CASE Raises(fetch.requests + 1)
    BY <1>0, <1>4, <2>1, <2>2, DreamJobsIs, DreamJobsFails
  <2>3. CASE Proceeds([Counted EXCEPT !.queue = @ \ {j}, !.records = @ \cup {<<j, k>>}])
    <3> DEFINE c == Counted
               f == [c EXCEPT !.queue = @ \ {j}, !.records = @ \cup {<<j, k>>}]
    <3>1. Proceeds(f)
      BY <2>3
    <3>2. /\ c \in Fetch /\ c.seen = fetch.seen /\ c.queue = fetch.queue
          /\ c.phase = fetch.phase /\ c.records = fetch.records /\ c.total = fetch.total
      BY <1>0, DreamJobsIs, CountedIsFetch
    <3>3. <<j, k>> \in Jobs \X Jobs
      BY <1>0, <1>1, DreamJobsIs
    <3> HIDE DEF c, j
    <3>4. /\ f \in Fetch /\ f.phase = fetch.phase /\ f.total = fetch.total /\ f.seen = fetch.seen
          /\ f.queue = fetch.queue \ {j} /\ f.records = fetch.records \cup {<<j, k>>}
      BY <3>2, <3>3 DEF Fetch
    <3> HIDE DEF f
    <3>5. Ids(f.records) = Listed \cup {j}
      <4>1. Ids(fetch.records \cup {<<j, k>>}) = Ids(fetch.records) \cup {j}
        BY IdsOfOne
      <4> QED BY <3>4, <4>1, IdsAre
    <3>6. /\ Listed \cup fetch.queue = fetch.seen /\ Cardinality(fetch.seen) = fetch.total
          /\ told = {fetch.total} /\ fetch.seen \subseteq Ever
      BY <1>0, DreamJobsIs DEF DreamJobsReads, EveryJobIsSeen
    <3>7. Calm' => fetch.total = Cardinality(site)
      BY <1>0, <2>1, <3>6, SiteStays, DreamJobsIs DEF Calm, DreamJobsReads
    <3>8. Counts
      BY <1>0, <1>4, <2>1, DreamJobsIs DEF Counts
    <3>9. Ids(f.records) \cup f.queue = f.seen
      BY <1>1, <3>4, <3>5, <3>6
    <3> QED BY <1>0, <2>1, <3>1, <3>4, <3>6, <3>7, <3>8, <3>9, DreamJobsGoesOn
  <2> QED BY <1>4, <2>2, <2>3
<1> QED BY <1>2, <1>3, <1>4, Zenon DEF DreamJobsDetail

(* As many as the total of a site that did not change are all of it.       *)
LEMMA AllIsSite ==
  ASSUME site \in SUBSET Jobs, NEW S, S \subseteq Ever, Calm,
         Cardinality(S) = Cardinality(site)
  PROVE  S = site
<1>1. S \in SUBSET site
  BY CalmSite
<1> QED BY <1>1, JobsAreFinite

LEMMA TotalReturns ==
  ASSUME SnapInv, FetchInv, outcome = "pending", adapter \in {"darwinbox", "dreamjobs"},
         UNCHANGED <<adapter, site_vars, style, browser>>, Silent, Returns(fetch),
         fetch.requests = sent, told = {Cardinality(Listed)},
         Calm => told \subseteq {Cardinality(site)}
  PROVE  SnapInv'
<1>1. Counts /\ odd' = odd /\ told' = told
  BY PendingIs DEF Silent, Counts
<1>2. /\ Listed' = Listed /\ site' = site /\ snaps' = snaps /\ adapter' = adapter
      /\ ~(adapter' \in OneListing) /\ Skipped' = {}
  BY SiteStays DEF Returns, Listed, OneListing, Skipped
<1>3. Calm => Listed = site
  <2>1. Listed \subseteq Ever /\ site \in SUBSET Jobs
    BY PendingIs
  <2> QED BY <2>1, AllIsSite
<1>4. Complete'
  BY <1>1, <1>2, <1>3 DEF Complete, TotalsAreReached, Calm
<1>5. Ids(fetch.records) \subseteq fetch.seen
  BY PendingIs, IdsAre
<1> QED BY <1>1, <1>4, <1>5, PendingIs, FetchGoesOn

LEMMA DreamJobsReturnsSnap ==
  ASSUME SnapInv, FetchInv, DreamJobsReturns
  PROVE  SnapInv'
<1>0. /\ Running("dreamjobs") /\ UNCHANGED <<adapter, site_vars, style, browser>>
      /\ fetch.phase = "details" /\ fetch.queue = {} /\ Silent /\ Returns(fetch)
  BY DEF DreamJobsReturns, In
<1>1. /\ outcome = "pending" /\ adapter \in {"darwinbox", "dreamjobs"}
      /\ fetch.requests = sent /\ DreamJobsReads
  BY <1>0, DreamJobsIs
<1>2. told = {Cardinality(Listed)} /\ (Calm => told \subseteq {Cardinality(site)})
  BY <1>0, <1>1 DEF DreamJobsReads, EveryJobIsSeen
<1> QED BY <1>0, <1>1, <1>2, TotalReturns
-----------------------------------------------------------------------------
(* JazzHR: the listing is one answer, and every detail of it is asked for. *)
LEMMA JazzHRIs ==
  ASSUME SnapInv, FetchInv, Running("jazzhr")
  PROVE  /\ outcome = "pending" /\ adapter = "jazzhr" /\ adapter \in Adapters
         /\ JazzHRReads /\ Budget = 1 + Cardinality(Jobs) /\ fetch.requests = sent
         /\ fetch \in Fetch /\ sent \in Nat /\ sent + 1 \in Nat /\ sent <= Budget
         /\ odd \in Nat /\ told \in SUBSET Nat
         /\ Ever \in SUBSET Jobs /\ site \in SUBSET Jobs /\ site \in snaps
         /\ fetch.seen \cup fetch.queue \subseteq Ever
         /\ fetch.seen \in SUBSET Jobs /\ fetch.queue \in SUBSET Jobs
         /\ browser \in [bodies : Seq(Answer), trouble : SUBSET Nat]
         /\ Cardinality(Jobs) \in Nat
         /\ Cardinality(fetch.seen) \in Nat /\ Cardinality(fetch.seen) <= Cardinality(Jobs)
<1>1. outcome = "pending" /\ adapter = "jazzhr"
  BY DEF Running
<1>2. Budget = 1 + Cardinality(Jobs)
  BY <1>1 DEF Budget
<1>3. /\ fetch \in Fetch /\ Ever \in SUBSET Jobs /\ fetch.seen \cup fetch.queue \subseteq Ever
  BY <1>1, PendingIs
<1>4. fetch.seen \in SUBSET Jobs /\ fetch.queue \in SUBSET Jobs
  BY <1>3
<1> QED BY <1>1, <1>2, <1>3, <1>4, PendingIs, JobsAreFinite DEF Progress

LEMMA JazzHRFails ==
  ASSUME SnapInv, FetchInv, Running("jazzhr"),
         UNCHANGED <<adapter, site_vars, style, browser>>,
         sent' = sent + 1, sent + 1 <= Budget, odd' \in Nat, told' \in SUBSET Nat,
         NEW n \in Nat, Raises(n)
  PROVE  SnapInv'
<1>1. Counts
  BY JazzHRIs DEF Counts
<1> QED BY <1>1, JazzHRIs, FetchFails

LEMMA JazzHRGoesOn ==
  ASSUME SnapInv, FetchInv, Running("jazzhr"),
         UNCHANGED <<adapter, site_vars, style, browser>>,
         sent' = sent + 1, sent + 1 <= Budget, odd' \in Nat, told' \in SUBSET Nat,
         NEW f \in Fetch, Proceeds(f), f.seen \cup f.queue \subseteq Ever,
         f.phase = "details", Ids(f.records) \cup f.queue = f.seen,
         odd' = 0 => f.seen \in snaps,
         sent' + Cardinality(f.queue) <= 1 + Cardinality(f.seen)
  PROVE  SnapInv'
<1>0. /\ outcome = "pending" /\ adapter' = "jazzhr" /\ adapter' \in Adapters /\ fetch' = f
      /\ snaps' = snaps /\ Listed' = Ids(f.records)
  BY JazzHRIs, SiteStays DEF Proceeds, Listed, Ids
<1>1. JazzHRReads'
  BY <1>0 DEF JazzHRReads
<1>2. Progress'
  BY <1>0, <1>1 DEF Progress
<1>3. Counts
  BY JazzHRIs DEF Counts
<1> QED BY <1>0, <1>2, <1>3, JazzHRIs, FetchGoesOn

LEMMA JazzHRListingSnap ==
  ASSUME SnapInv, FetchInv, JazzHRListing
  PROVE  SnapInv'
<1>0. /\ Running("jazzhr") /\ UNCHANGED <<adapter, site_vars, style, browser>>
      /\ fetch.phase = "start"
  BY DEF JazzHRListing, In
<1>1. sent = 0 /\ fetch.records = {} /\ sent + 1 <= Budget
  BY <1>0, JazzHRIs DEF JazzHRReads
<1>2. CASE Broken
  <2>1. sent' = sent + 1 /\ odd' \in Nat /\ told' = told /\ Raises(sent + 1)
    BY <1>0, <1>2, JazzHRIs DEF Broken, Disturbed
  <2> QED BY <1>0, <1>1, <2>1, JazzHRIs, JazzHRFails
<1>3. ASSUME NEW page \in SUBSET Ever, Sends(page = site),
             \/ Raises(fetch.requests + 1)
             \/ Proceeds([Counted EXCEPT !.phase = "details", !.seen = page, !.queue = page])
      PROVE SnapInv'
  <2>1. sent' = sent + 1 /\ odd' \in Nat /\ told' = told /\ (odd' = 0 => page = site)
    BY <1>0, <1>3, JazzHRIs DEF Sends, Request
  <2>2. CASE Raises(fetch.requests + 1)
    BY <1>0, <1>1, <2>1, <2>2, JazzHRIs, JazzHRFails
  <2>3. CASE Proceeds([Counted EXCEPT !.phase = "details", !.seen = page, !.queue = page])
    <3> DEFINE c == Counted
               f == [c EXCEPT !.phase = "details", !.seen = page, !.queue = page]
    <3>1. Proceeds(f)
      BY <2>3
    <3>2. c \in Fetch /\ c.records = {} /\ page \in SUBSET Jobs
      BY <1>0, <1>1, JazzHRIs, CountedIsFetch
    <3> HIDE DEF c
    <3>3. /\ f \in Fetch /\ f.phase = "details" /\ f.seen = page /\ f.queue = page
          /\ f.records = {}
      BY <3>2 DEF Fetch
    <3> HIDE DEF f
    <3>4. Ids(f.records) \cup f.queue = f.seen
      BY <3>3, IdsAre
    <3>5. Cardinality(page) \in Nat
      BY <3>2, JobsAreFinite
    <3>6. sent' + Cardinality(f.queue) <= 1 + Cardinality(f.seen)
      BY <1>1, <2>1, <3>3, <3>5
    <3>7. odd' = 0 => f.seen \in snaps
      BY <1>0, <2>1, <3>3, JazzHRIs
    <3> QED BY <1>0, <1>1, <2>1, <3>1, <3>3, <3>4, <3>6, <3>7, JazzHRIs, JazzHRGoesOn
  <2> QED BY <1>3, <2>2, <2>3
<1> QED BY <1>2, <1>3, Zenon DEF JazzHRListing

LEMMA JazzHRDetailSnap ==
  ASSUME SnapInv, FetchInv, JazzHRDetail
  PROVE  SnapInv'
<1> DEFINE j == First(fetch.queue)
<1>0. /\ Running("jazzhr") /\ UNCHANGED <<adapter, site_vars, style, browser>>
      /\ fetch.phase = "details" /\ fetch.queue # {}
  BY DEF JazzHRDetail, In
<1>1. j \in fetch.queue /\ fetch.queue \subseteq Jobs
  BY <1>0, JazzHRIs, FirstIsIn
<1>2. /\ Cardinality(fetch.queue) \in Nat /\ IsFiniteSet(fetch.queue)
      /\ Cardinality(fetch.queue \ {j}) = Cardinality(fetch.queue) - 1
      /\ Cardinality(fetch.queue \ {j}) \in Nat
  <2>1. IsFiniteSet(fetch.queue) /\ fetch.queue \ {j} \in SUBSET Jobs
    BY <1>1, JobsAreFinite
  <2> QED BY <1>1, <2>1, JobsAreFinite, FS_RemoveElement
<1>3. /\ Listed \cup fetch.queue = fetch.seen /\ (odd = 0 => fetch.seen \in snaps)
      /\ sent + Cardinality(fetch.queue) <= 1 + Cardinality(fetch.seen)
  BY <1>0, JazzHRIs DEF JazzHRReads
<1>4. sent + 1 <= Budget
  BY <1>0, <1>2, <1>3, JazzHRIs
<1>5. CASE Refused(j) /\ Raises(fetch.requests + 1)
  <2>1. sent' = sent + 1 /\ odd' \in Nat /\ told' = told
    BY <1>0, <1>5, JazzHRIs DEF Refused, Disturbed, Sends, Request
  <2> QED BY <1>0, <1>4, <1>5, <2>1, JazzHRIs, JazzHRFails
<1>6. ASSUME NEW detail \in Details, Sends(detail.job = j /\ detail.url = "own"),
             CASE Describes(detail, j) ->
                    Proceeds([Counted EXCEPT !.queue = @ \ {j},
                                !.records = @ \cup {<<j, detail.job>>}])
               [] Uncounted(detail, j) -> Raises(0)
               [] OTHER -> Raises(fetch.requests + 1)
      PROVE SnapInv'
  <2>1. sent' = sent + 1 /\ odd' \in Nat /\ told' = told /\ (odd' = 0 => odd = 0)
    BY <1>0, <1>6, JazzHRIs DEF Sends, Request
  <2>2. CASE Raises(fetch.requests + 1) \/ Raises(0)
    BY <1>0, <1>4, <2>1, <2>2, JazzHRIs, JazzHRFails
  <2>3. CASE Proceeds([Counted EXCEPT !.queue = @ \ {j}, !.records = @ \cup {<<j, detail.job>>}])
    <3> DEFINE c == Counted
               k == detail.job
               f == [c EXCEPT !.queue = @ \ {j}, !.records = @ \cup {<<j, k>>}]
    <3>1. Proceeds(f)
      BY <2>3
    <3>2. /\ c \in Fetch /\ c.seen = fetch.seen /\ c.queue = fetch.queue
          /\ c.phase = fetch.phase /\ c.records = fetch.records
      BY <1>0, JazzHRIs, CountedIsFetch
    <3>3. <<j, k>> \in Jobs \X Jobs
      BY <1>0, <1>1, JazzHRIs DEF Details
    <3> HIDE DEF c, j, k
    <3>4. /\ f \in Fetch /\ f.phase = fetch.phase /\ f.seen = fetch.seen
          /\ f.queue = fetch.queue \ {j} /\ f.records = fetch.records \cup {<<j, k>>}
      BY <3>2, <3>3 DEF Fetch
    <3> HIDE DEF f
    <3>5. Ids(f.records) = Listed \cup {j}
      <4>1. Ids(fetch.records \cup {<<j, k>>}) = Ids(fetch.records) \cup {j}
        BY IdsOfOne
      <4> QED BY <3>4, <4>1, IdsAre
    <3>6. Ids(f.records) \cup f.queue = f.seen
      BY <1>1, <1>3, <3>4, <3>5
    <3>7. sent' + Cardinality(f.queue) <= 1 + Cardinality(f.seen)
      BY <1>0, <1>2, <1>3, <2>1, <3>4, JazzHRIs
    <3>8. (odd' = 0 => f.seen \in snaps) /\ f.seen \cup f.queue \subseteq Ever
      BY <1>0, <1>3, <2>1, <3>4, JazzHRIs
    <3> QED BY <1>0, <1>4, <2>1, <3>1, <3>4, <3>6, <3>7, <3>8, JazzHRIs, JazzHRGoesOn
  <2> QED BY <1>6, <2>2, <2>3
<1> QED BY <1>5, <1>6, Zenon DEF JazzHRDetail

LEMMA JazzHRReturnsSnap ==
  ASSUME SnapInv, FetchInv, JazzHRReturns
  PROVE  SnapInv'
<1>0. /\ Running("jazzhr") /\ UNCHANGED <<adapter, site_vars, style, browser>>
      /\ fetch.phase = "details" /\ fetch.queue = {} /\ Silent /\ Returns(fetch)
  BY DEF JazzHRReturns, In
<1>1. Counts /\ odd' = odd
  BY <1>0, JazzHRIs DEF Silent, Counts
<1>2. Listed = fetch.seen /\ (odd = 0 => Listed \in snaps)
  BY <1>0, JazzHRIs DEF JazzHRReads
<1>3. /\ Listed' = Listed /\ snaps' = snaps /\ adapter' = "jazzhr" /\ Skipped' = {}
  BY <1>0, SiteStays, JazzHRIs DEF Returns, Listed, Skipped
<1>4. TotalsAreReached'
  BY <1>3 DEF TotalsAreReached
<1>5. Complete'
  BY <1>1, <1>2, <1>3, <1>4 DEF Complete
<1>6. Ids(fetch.records) \subseteq fetch.seen
  BY <1>2, IdsAre
<1> QED BY <1>0, <1>1, <1>5, <1>6, JazzHRIs, FetchGoesOn
-----------------------------------------------------------------------------
(* The generic adapter.                                                    *)
LEMMA GenericIs ==
  ASSUME SnapInv, FetchInv, Running("generic")
  PROVE  /\ outcome = "pending" /\ adapter = "generic" /\ adapter \in Adapters
         /\ GenericReads /\ fetch.requests = sent
         /\ Budget = Least + MaxDetails /\ Least \in Nat /\ MaxDetails \in Nat
         /\ \A n \in Nat : n <= MaxRequests /\ n <= PageLimit => n <= Least
         /\ MaxRequests \in Nat /\ PageLimit \in Nat
         /\ fetch \in Fetch /\ sent \in Nat /\ sent + 1 \in Nat /\ sent <= Budget
         /\ odd \in Nat /\ told \in SUBSET Nat
         /\ Ever \in SUBSET Jobs /\ site \in SUBSET Jobs /\ site \in snaps /\ site \subseteq Ever
         /\ fetch.seen \cup fetch.queue \subseteq Ever
         /\ browser \in [bodies : Seq(Answer), trouble : SUBSET Nat]
<1>1. outcome = "pending" /\ adapter = "generic"
  BY DEF Running
<1>2. PageLimit \in Nat /\ MaxRequests \in Nat
  BY <1>1, PendingIs
<1>3. Least = IF MaxRequests <= PageLimit THEN MaxRequests ELSE PageLimit
  BY <1>2, MinOfTwo DEF Least
<1>4. Budget = Least + MaxDetails
  BY <1>1 DEF Budget, Least
<1>5. Least \in Nat /\ \A n \in Nat : n <= MaxRequests /\ n <= PageLimit => n <= Least
  BY <1>2, <1>3
<1> QED BY <1>1, <1>2, <1>4, <1>5, PendingIs DEF Progress

LEMMA LastPageIs ==
  ASSUME site \in SUBSET Jobs
  PROVE  LastPage \in Nat /\ LastPage < Again /\ Again \in Nat /\ Addresses = 0 .. Again
BY JobsAreFinite, PagesForIs DEF LastPage, Again, Addresses

LEMMA LinksAre ==
  ASSUME site \in SUBSET Jobs, style.pager \in {"next", "all", "alias"}, NEW a \in Addresses
  PROVE  /\ Shows(a) \subseteq site /\ Links(a) \subseteq Addresses
         /\ Shows(0) = {} /\ Links(0) = {}
<1>1. Shows(a) \subseteq site
  BY DEF Shows, Window
<1>2. LastPage \in Nat /\ LastPage < Again /\ Again \in Nat /\ Addresses = 0 .. Again
  BY LastPageIs
<1>3. Links(a) \subseteq {Again} \cup 1 .. LastPage
  BY <1>2 DEF Links, LastPage
<1>4. Shows(0) = {}
  BY DEF Shows
<1>5. Links(0) = {}
  BY DEF Links
<1> QED BY <1>1, <1>2, <1>3, <1>4, <1>5

(* Where no link of a page is new, every page was asked for: the numbers   *)
(* below by the pager that links the next one, all by the others.          *)
LEMMA PagesWereAsked ==
  ASSUME site \in SUBSET Jobs, style.pager \in {"next", "all", "alias"},
         NEW asked \in SUBSET Addresses, NEW at \in Addresses, NEW seen,
         GoesOnAt(at, asked, seen), at # 0, Links(at) \subseteq asked \cup {at},
         NEW m \in 1 .. LastPage
  PROVE  \E a \in asked \cup {at} : a # 0 /\ PageOf(a) = m
<1>1. LastPage \in Nat /\ LastPage < Again /\ Again \in Nat /\ Addresses = 0 .. Again
      /\ at \in Nat
  BY LastPageIs
<1>2. PageOf(m) = m /\ m # 0 /\ m \in Nat
  BY <1>1 DEF PageOf
<1>3. CASE LastPage <= 1
  <2>1. m = 1 /\ at \in {1, Again}
    BY <1>1, <1>3 DEF GoesOnAt
  <2>2. PageOf(at) = m
    BY <2>1 DEF PageOf
  <2> QED BY <2>2
<1>4. CASE LastPage > 1 /\ style.pager = "all"
  <2>1. Links(at) = 1 .. LastPage
    BY <1>1, <1>4 DEF Links, LastPage
  <2> QED BY <1>2, <2>1
<1>5. CASE LastPage > 1 /\ style.pager = "alias"
  <2>1. Links(at) = {Again} \cup 2 .. LastPage
    BY <1>1, <1>5 DEF Links, LastPage
  <2>2. CASE m = 1
    <3>1. PageOf(Again) = m /\ Again # 0 /\ Again \in asked \cup {at}
      BY <1>1, <2>1, <2>2 DEF PageOf
    <3> QED BY <3>1
  <2>3. CASE m # 1
    <3>1. m \in 2 .. LastPage
      BY <1>1, <2>3
    <3> QED BY <1>2, <2>1, <3>1
  <2> QED BY <2>2, <2>3
<1>6. CASE LastPage > 1 /\ style.pager = "next"
  <2>1. /\ at \in 1 .. LastPage
        /\ \A a \in asked : a < at
        /\ \A a \in 1 .. LastPage : a < at => a \in asked
    BY <1>1, <1>6 DEF GoesOnAt
  <2>2. PageOf(at) = at
    BY <1>1, <2>1 DEF PageOf
  <2>3. Links(at) = {a \in {at - 1, at + 1} : a \in 1 .. LastPage}
    BY <1>1, <1>6, <2>2 DEF Links, LastPage
  <2>4. ASSUME at + 1 <= LastPage PROVE FALSE
    <3>1. at + 1 \in Links(at)
      BY <1>1, <2>3, <2>4
    <3>2. at + 1 \in asked
      BY <1>1, <3>1
    <3> QED BY <1>1, <2>1, <3>2
  <2>5. CASE m = at
    BY <1>2, <2>5
  <2>6. CASE m < at
    BY <1>2, <2>1, <2>6
  <2> QED BY <1>1, <2>1, <2>4, <2>5, <2>6
<1> QED BY <1>1, <1>3, <1>4, <1>5, <1>6

LEMMA AllWasSeen ==
  ASSUME site \in SUBSET Jobs, style.pager \in {"next", "all", "alias"},
         NEW asked \in SUBSET Addresses, NEW at \in Addresses, NEW seen,
         GoesOnAt(at, asked, seen), at # 0, Links(at) \subseteq asked \cup {at}
  PROVE  site \subseteq seen \cup Shows(at)
<1> SUFFICES ASSUME NEW j \in site PROVE j \in seen \cup Shows(at)
  OBVIOUS
<1>1. PICK m \in 1 .. LastPage : j \in Window((m - 1) * PageSize, PageSize)
  BY PagesShowAll DEF LastPage
<1>2. PICK a \in asked \cup {at} : a # 0 /\ PageOf(a) = m
  BY PagesWereAsked
<1>3. j \in Shows(a)
  BY <1>1, <1>2 DEF Shows
<1> QED BY <1>2, <1>3 DEF GoesOnAt

(* A link that is new leads on.                                            *)
LEMMA LinkLeadsOn ==
  ASSUME site \in SUBSET Jobs, style.pager \in {"next", "all", "alias"},
         NEW asked \in SUBSET Addresses, NEW at \in Addresses, NEW seen,
         GoesOnAt(at, asked, seen), at # 0,
         NEW a \in Links(at) \ (asked \cup {at})
  PROVE  GoesOnAt(a, asked \cup {at}, seen \cup Shows(at))
<1>1. LastPage \in Nat /\ LastPage < Again /\ Again \in Nat /\ Addresses = 0 .. Again
      /\ at \in Nat /\ asked \subseteq Nat
  BY LastPageIs
<1>2. \A b \in asked \cup {at} : Shows(b) \subseteq seen \cup Shows(at)
  BY DEF GoesOnAt
<1>3. a \in {Again} \cup 1 .. LastPage
  BY <1>1 DEF Links, LastPage
<1>4. a # 0
  BY <1>1, <1>3
<1>5. ASSUME style.pager = "next"
      PROVE  /\ a \in {0, 1} \cup 1 .. LastPage
             /\ \A b \in asked \cup {at} : b < a
             /\ \A b \in 1 .. LastPage : b < a => b \in asked \cup {at}
  <2>1. /\ at \in {1} \cup 1 .. LastPage
        /\ \A b \in asked : b < at
        /\ \A b \in 1 .. LastPage : b < at => b \in asked
    BY <1>1, <1>5 DEF GoesOnAt
  <2>2. PageOf(at) = at
    BY <1>1, <2>1 DEF PageOf
  <2>3. a \in {at - 1, at + 1} /\ a \in 1 .. LastPage
    BY <1>1, <1>5, <2>2 DEF Links, LastPage
  <2>4. a = at + 1
    BY <1>1, <2>1, <2>3
  <2> QED BY <1>1, <2>1, <2>3, <2>4
<1> QED BY <1>2, <1>3, <1>4, <1>5 DEF GoesOnAt

LEMMA GenericStays ==
  ASSUME UNCHANGED <<site_vars, style>>, NEW at, NEW asked, NEW seen
  PROVE  GoesOnAt(at, asked, seen)' <=> GoesOnAt(at, asked, seen)
<1>1. site' = site /\ style' = style /\ \A j : Rank(j)' = Rank(j)
  BY SiteStays
<1>2. \A a : Shows(a)' = Shows(a)
  BY <1>1 DEF Shows, Window, PageOf, Again
<1>3. LastPage' = LastPage
  BY <1>1 DEF LastPage, PagesFor
<1> QED BY <1>1, <1>2, <1>3 DEF GoesOnAt, Again

LEMMA GenericFails ==
  ASSUME SnapInv, FetchInv, Running("generic"),
         UNCHANGED <<adapter, site_vars, style, browser>>,
         sent' \in Nat, sent' <= Budget, odd' \in Nat, told' = told,
         NEW n \in Nat, Raises(n)
  PROVE  SnapInv'
<1>1. Counts
  BY GenericIs DEF Counts
<1> QED BY <1>1, GenericIs, FetchFails

LEMMA GenericStartGoesOn ==
  ASSUME SnapInv, FetchInv, Running("generic"),
         UNCHANGED <<adapter, site_vars, style, browser>>,
         sent' = sent + 1, sent + 1 <= MaxRequests, odd' \in Nat, told' = told,
         NEW f \in Fetch, Proceeds(f), f.seen \cup f.queue \subseteq Ever,
         f.phase = "start", f.records = {}, f.skip = 0, f.page = sent + 1, f.page < PageLimit,
         Calm' => GoesOnAt(f.at, f.asked, f.seen)
  PROVE  SnapInv'
<1>0. /\ outcome = "pending" /\ adapter' = "generic" /\ adapter' \in Adapters /\ fetch' = f
      /\ PageLimit' = PageLimit /\ style' = style /\ style.pager # "none"
      /\ Ids(f.records) = {}
  BY GenericIs, BudgetStays, IdsAre DEF Proceeds, GenericReads
<1>1. Calm' => GoesOnAt(fetch.at, fetch.asked, fetch.seen)'
  BY <1>0, GenericStays
<1>2. GenericReads'
  BY <1>0, <1>1 DEF GenericReads
<1>3. Progress'
  BY <1>0, <1>2 DEF Progress
<1>4. Counts
  BY <1>0, GenericIs DEF Counts
<1> QED BY <1>0, <1>3, <1>4, GenericIs, FetchGoesOn

LEMMA GenericDetailsGoOn ==
  ASSUME SnapInv, FetchInv, Running("generic"),
         UNCHANGED <<adapter, site_vars, style, browser>>,
         sent' \in Nat, odd' \in Nat, told' = told,
         NEW f \in Fetch, Proceeds(f), f.seen \cup f.queue \subseteq Ever,
         f.phase = "details", Ids(f.records) = Named(f.seen), f.queue \subseteq Named(f.seen),
         f.skip <= MaxDetails, sent' <= Least + f.skip,
         Calm' => f.seen = site
  PROVE  SnapInv'
<1>0. /\ outcome = "pending" /\ adapter' = "generic" /\ adapter' \in Adapters /\ fetch' = f
      /\ Least' = Least /\ style' = style /\ style.pager # "none" /\ site' = site
      /\ Listed' = Ids(f.records) /\ f.skip \in Nat
  BY GenericIs, BudgetStays, SiteStays DEF Proceeds, GenericReads, Least, Listed, Ids, Fetch
<1>1. GenericReads'
  BY <1>0 DEF GenericReads
<1>2. Progress'
  BY <1>0, <1>1 DEF Progress
<1>3. Counts
  BY <1>0, GenericIs DEF Counts
<1>4. Ids(f.records) \subseteq f.seen
  BY DEF Named
<1> QED BY <1>0, <1>2, <1>3, <1>4, GenericIs, FetchGoesOn

(* A page that the adapter has read.                                       *)
LEMMA GenericFollowsSnap ==
  ASSUME SnapInv, FetchInv, In("generic", "start"), fetch.requests < MaxRequests,
         UNCHANGED <<adapter, site_vars, style, browser>>,
         NEW r \in Responses \cup {TrueResponse(fetch.at)},
         Sends(r = TrueResponse(fetch.at)),
         Follows(r, [Counted EXCEPT !.page = @ + 1, !.asked = @ \cup {fetch.at},
                                    !.seen = @ \cup r.jobs])
  PROVE  SnapInv'
<1> DEFINE now == [Counted EXCEPT !.page = @ + 1, !.asked = @ \cup {fetch.at},
                                  !.seen = @ \cup r.jobs]
           form == r.jobs = {} /\ fetch.seen = {} /\ HasForm
<1>0. /\ Running("generic") /\ fetch.phase = "start" /\ fetch \in Fetch
      /\ fetch.at \in Addresses /\ fetch.asked \in SUBSET Addresses
  BY GenericIs DEF In, Fetch
<1>1. /\ fetch.records = {} /\ fetch.skip = 0 /\ fetch.page = sent /\ sent < PageLimit
      /\ fetch.requests = sent /\ sent + 1 <= MaxRequests /\ style.pager # "none"
      /\ Calm => GoesOnAt(fetch.at, fetch.asked, fetch.seen)
  BY <1>0, GenericIs DEF GenericReads
<1>2. style.pager \in {"next", "all", "alias"}
  BY <1>1 DEF SnapInv, FetchTypeOK, Pagers
<1>3. /\ Shows(fetch.at) \subseteq site /\ Links(fetch.at) \subseteq Addresses
      /\ Shows(0) = {}
  BY <1>0, <1>2, GenericIs, LinksAre
<1>4. r.jobs \subseteq Ever /\ r.links \subseteq Addresses
  <2>1. CASE r \in Responses
    BY <2>1 DEF Responses, Pages
  <2>2. CASE r = TrueResponse(fetch.at)
    BY <1>0, <1>3, <2>2, GenericIs DEF TrueResponse
  <2> QED BY <2>1, <2>2
<1>5. /\ sent' = sent + 1 /\ odd' \in Nat /\ told' = told
      /\ odd' = 0 => odd = 0 /\ r = TrueResponse(fetch.at)
  BY <1>0, GenericIs DEF Sends, Request
<1>6. /\ now \in Fetch /\ now.phase = "start" /\ now.page = sent + 1 /\ now.skip = 0
      /\ now.asked = fetch.asked \cup {fetch.at} /\ now.seen = fetch.seen \cup r.jobs
      /\ now.records = {} /\ now.queue = fetch.queue /\ now.requests \in Nat
  <2> DEFINE c == Counted
             p == c.page + 1
  <2>1. /\ c \in Fetch /\ c.page = sent /\ c.seen = fetch.seen /\ c.records = {}
        /\ c.queue = fetch.queue /\ c.asked = fetch.asked /\ c.phase = "start" /\ c.skip = 0
    BY <1>0, <1>1, CountedIsFetch
  <2> HIDE DEF c
  <2>2. p \in Nat /\ p = sent + 1
    BY <1>0, <2>1, GenericIs DEF Fetch
  <2>3. now = [c EXCEPT !.page = p, !.asked = @ \cup {fetch.at}, !.seen = @ \cup r.jobs]
    BY Zenon DEF c, p
  <2> HIDE DEF now, p
  <2>4. r.jobs \in SUBSET Jobs
    BY <1>0, <1>4, GenericIs
  <2>5. [c EXCEPT !.page = p, !.asked = @ \cup {fetch.at}, !.seen = @ \cup r.jobs] \in Fetch
    BY <1>0, <2>1, <2>2, <2>4 DEF Fetch
  <2>6. /\ now \in Fetch /\ now.phase = c.phase /\ now.page = p /\ now.skip = c.skip
        /\ now.asked = c.asked \cup {fetch.at} /\ now.seen = c.seen \cup r.jobs
        /\ now.records = c.records /\ now.queue = c.queue /\ now.requests \in Nat
    BY <2>1, <2>3, <2>5 DEF Fetch
  <2> QED BY <2>1, <2>2, <2>6
<1>7. Follows(r, now)
  OBVIOUS
<1> HIDE DEF now
<1>8. \/ Raises(now.requests)
      \/ form /\ now.page # PageLimit /\ Proceeds([now EXCEPT !.at = 1])
      \/ /\ ~form /\ r.links \subseteq now.asked
         /\ Proceeds([now EXCEPT !.phase = "details", !.queue = Named(now.seen),
                                 !.records = Same(Named(now.seen))])
      \/ /\ ~form /\ now.page # PageLimit
         /\ \E a \in r.links \ now.asked : Proceeds([now EXCEPT !.at = a])
  BY <1>7 DEF Follows, Extracts, Fresh
<1> HIDE DEF form
<1>9. sent' \in Nat /\ sent' <= Budget /\ sent + 1 <= Least
  BY <1>0, <1>1, <1>5, GenericIs
<1>10. Calm' => /\ Calm /\ GoesOnAt(fetch.at, fetch.asked, fetch.seen)
                /\ r.jobs = Shows(fetch.at) /\ r.links = Links(fetch.at)
                /\ fetch.at = 0 => form
  <2> SUFFICES ASSUME Calm'
               PROVE  /\ Calm /\ GoesOnAt(fetch.at, fetch.asked, fetch.seen)
                      /\ r.jobs = Shows(fetch.at) /\ r.links = Links(fetch.at)
                      /\ fetch.at = 0 => form
    OBVIOUS
  <2>1. Calm /\ r = TrueResponse(fetch.at)
    BY <1>5, SiteStays DEF Calm
  <2>2. r.jobs = Shows(fetch.at) /\ r.links = Links(fetch.at)
    BY <2>1 DEF TrueResponse
  <2>3. GoesOnAt(fetch.at, fetch.asked, fetch.seen)
    BY <1>1, <2>1
  <2>4. fetch.at = 0 => form
    BY <1>3, <2>2, <2>3 DEF GoesOnAt, form, HasForm
  <2> QED BY <2>1, <2>2, <2>3, <2>4
<1>11. now.page # PageLimit => now.page < PageLimit
  BY <1>0, <1>1, <1>6, GenericIs
<1>12. now.seen \cup now.queue \subseteq Ever /\ now.seen \in SUBSET Jobs
  BY <1>0, <1>4, <1>6, GenericIs
<1>13. CASE Raises(now.requests)
  BY <1>0, <1>5, <1>6, <1>9, <1>13, GenericFails
<1>14. CASE form /\ now.page # PageLimit /\ Proceeds([now EXCEPT !.at = 1])
  <2> DEFINE f == [now EXCEPT !.at = 1]
  <2>1. /\ f \in Fetch /\ f.phase = "start" /\ f.records = {} /\ f.skip = 0 /\ f.page = sent + 1
        /\ f.at = 1 /\ f.asked = now.asked /\ f.seen = now.seen /\ f.queue = now.queue
    <3>1. 1 \in Addresses
      BY <1>0, GenericIs, LastPageIs DEF Again
    <3> QED BY <1>6, <3>1 DEF Fetch
  <2>2. Proceeds(f)
    BY <1>14
  <2> HIDE DEF f
  <2>3. ASSUME Calm' PROVE GoesOnAt(f.at, f.asked, f.seen)
    <3>1. fetch.at = 0 /\ \A a \in fetch.asked : Shows(a) \subseteq fetch.seen
      BY <1>10, <1>14, <2>3 DEF form, HasForm, GoesOnAt
    <3>2. style.pager = "next" => \A a \in fetch.asked : a < 0
      BY <1>10, <2>3, <3>1 DEF GoesOnAt
    <3>3. fetch.asked \subseteq Nat
      BY <1>0, GenericIs, LastPageIs
    <3>4. \A a \in f.asked : Shows(a) \subseteq f.seen
      BY <1>3, <1>6, <2>1, <3>1
    <3>5. style.pager = "next" => \A a \in f.asked : a < 1
      BY <1>6, <2>1, <3>1, <3>2, <3>3
    <3>6. LastPage \in Nat
      BY <1>0, GenericIs, LastPageIs
    <3>7. \A a \in 1 .. LastPage : ~(a < 1)
      BY <3>6
    <3> QED BY <2>1, <3>4, <3>5, <3>7 DEF GoesOnAt
  <2> QED BY <1>0, <1>1, <1>5, <1>6, <1>11, <1>12, <1>14, <2>1, <2>2, <2>3, GenericStartGoesOn
<1>15. CASE /\ ~form /\ r.links \subseteq now.asked
            /\ Proceeds([now EXCEPT !.phase = "details", !.queue = Named(now.seen),
                                    !.records = Same(Named(now.seen))])
  <2> DEFINE f == [now EXCEPT !.phase = "details", !.queue = Named(now.seen),
                              !.records = Same(Named(now.seen))]
  <2>1. Named(now.seen) \in SUBSET Jobs /\ Same(Named(now.seen)) \in SUBSET (Jobs \X Jobs)
    BY <1>12 DEF Named, Same
  <2>2. /\ f \in Fetch /\ f.phase = "details" /\ f.records = Same(Named(now.seen)) /\ f.skip = 0
        /\ f.seen = now.seen /\ f.queue = Named(now.seen)
    BY <1>6, <2>1 DEF Fetch
  <2>3. Proceeds(f)
    BY <1>15
  <2> HIDE DEF f
  <2>4. Ids(f.records) = Named(f.seen)
    BY <2>2, IdsAre
  <2>5. ASSUME Calm' PROVE f.seen = site
    <3>1. fetch.at # 0
      BY <1>10, <1>15, <2>5
    <3>2. site \subseteq fetch.seen \cup Shows(fetch.at)
      BY <1>0, <1>2, <1>6, <1>10, <1>15, <2>5, <3>1, GenericIs, AllWasSeen
    <3>3. Ever = site
      BY <1>10, <2>5, CalmSite
    <3> QED BY <1>6, <1>10, <1>12, <2>2, <2>5, <3>2, <3>3
  <2>6. sent' <= Least + f.skip /\ f.skip <= MaxDetails
    BY <1>0, <1>5, <1>9, <2>2, GenericIs
  <2>7. f.seen \cup f.queue \subseteq Ever
    BY <1>12, <2>2 DEF Named
  <2> QED BY <1>0, <1>5, <1>9, <2>2, <2>3, <2>4, <2>5, <2>6, <2>7, GenericDetailsGoOn
<1>16. CASE /\ ~form /\ now.page # PageLimit
            /\ \E a \in r.links \ now.asked : Proceeds([now EXCEPT !.at = a])
  <2>1. PICK a \in r.links \ now.asked : Proceeds([now EXCEPT !.at = a])
    BY <1>16
  <2> DEFINE f == [now EXCEPT !.at = a]
  <2>2. /\ f \in Fetch /\ f.phase = "start" /\ f.records = {} /\ f.skip = 0 /\ f.page = sent + 1
        /\ f.at = a /\ f.asked = now.asked /\ f.seen = now.seen /\ f.queue = now.queue
    BY <1>4, <1>6 DEF Fetch
  <2>3. Proceeds(f)
    BY <2>1
  <2> HIDE DEF f
  <2>4. ASSUME Calm' PROVE GoesOnAt(f.at, f.asked, f.seen)
    <3>1. fetch.at # 0 /\ a \in Links(fetch.at) \ (fetch.asked \cup {fetch.at})
      BY <1>6, <1>10, <1>16, <2>4
    <3>2. GoesOnAt(a, fetch.asked \cup {fetch.at}, fetch.seen \cup Shows(fetch.at))
      BY <1>0, <1>2, <1>10, <2>4, <3>1, GenericIs, LinkLeadsOn
    <3> QED BY <1>6, <1>10, <2>2, <2>4, <3>2
  <2> QED BY <1>0, <1>1, <1>5, <1>6, <1>11, <1>12, <1>16, <2>2, <2>3, <2>4, GenericStartGoesOn
<1> QED BY <1>8, <1>13, <1>14, <1>15, <1>16

LEMMA GenericPageSnap ==
  ASSUME SnapInv, FetchInv, GenericPage
  PROVE  SnapInv'
<1>0. /\ In("generic", "start") /\ Running("generic") /\ fetch.phase = "start"
      /\ UNCHANGED <<adapter, site_vars, style, browser>>
  BY DEF GenericPage, In
<1>1. fetch.requests = sent /\ fetch.requests \in Nat /\ sent < PageLimit
  BY <1>0, GenericIs DEF GenericReads
<1>2. CASE Disturbed(0) /\ Raises(fetch.requests)
  <2>1. sent' = sent /\ odd' \in Nat /\ told' = told
    BY <1>0, <1>2, GenericIs DEF Disturbed
  <2> QED BY <1>0, <1>1, <1>2, <2>1, GenericIs, GenericFails
<1>3. CASE Silent /\ Raises(fetch.requests)
  <2>1. sent' = sent /\ odd' \in Nat /\ told' = told
    BY <1>0, <1>3, GenericIs DEF Silent
  <2> QED BY <1>0, <1>1, <1>3, <2>1, GenericIs, GenericFails
<1>4. CASE fetch.requests < MaxRequests /\ (Broken \/ Escapes)
  <2>1. /\ sent' = sent + 1 /\ odd' \in Nat /\ told' = told
        /\ Raises(fetch.requests + 1) \/ Raises(0)
    BY <1>0, <1>4, GenericIs DEF Broken, Escapes, Disturbed
  <2>2. sent' \in Nat /\ sent' <= Budget
    BY <1>0, <1>1, <1>4, <2>1, GenericIs
  <2> QED BY <1>0, <1>1, <2>1, <2>2, GenericFails
<1>5. ASSUME fetch.requests < MaxRequests,
             NEW r \in Responses \cup {TrueResponse(fetch.at)},
             Sends(r = TrueResponse(fetch.at)),
             Follows(r, [Counted EXCEPT !.page = @ + 1, !.asked = @ \cup {fetch.at},
                                        !.seen = @ \cup r.jobs])
      PROVE  SnapInv'
  BY <1>0, <1>5, GenericFollowsSnap
<1> QED BY <1>2, <1>3, <1>4, <1>5, Zenon DEF GenericPage

LEMMA GenericDetailSnap ==
  ASSUME SnapInv, FetchInv, GenericDetail
  PROVE  SnapInv'
<1> DEFINE j == First(fetch.queue)
           now == [Counted EXCEPT !.queue = @ \ {j}, !.skip = @ + 1]
<1>0. /\ Running("generic") /\ fetch.phase = "details" /\ fetch.queue # {}
      /\ fetch.skip < MaxDetails /\ UNCHANGED <<adapter, site_vars, style, browser>>
  BY DEF GenericDetail, In
<1>1. /\ fetch.requests = sent /\ Listed = Named(fetch.seen) /\ fetch.queue \subseteq Listed
      /\ fetch.skip <= MaxDetails /\ sent <= Least + fetch.skip
      /\ Calm => fetch.seen = site
      /\ fetch.skip \in Nat /\ sent \in Nat /\ fetch \in Fetch
  BY <1>0, GenericIs DEF GenericReads, Fetch
<1>2. j \in fetch.queue /\ fetch.queue \subseteq Jobs
  BY <1>0, GenericIs, FirstIsIn DEF Fetch
<1>3. Calm' => odd' = 0 /\ snaps = {site}
  BY <1>0, SiteStays DEF Calm
<1>4. sent + 1 \in Nat /\ sent + 1 <= Budget /\ sent + 1 <= Least + (fetch.skip + 1)
      /\ fetch.skip + 1 <= MaxDetails
  BY <1>0, <1>1, GenericIs
<1>5. /\ now \in Fetch /\ now.phase = "details" /\ now.records = fetch.records
      /\ now.skip = fetch.skip + 1 /\ now.seen = fetch.seen /\ now.queue = fetch.queue \ {j}
  <2> DEFINE c == Counted
             n == c.skip + 1
  <2>1. /\ c \in Fetch /\ c.skip = fetch.skip /\ c.seen = fetch.seen
        /\ c.records = fetch.records /\ c.queue = fetch.queue /\ c.phase = "details"
    BY <1>0, <1>1, CountedIsFetch
  <2> HIDE DEF c, j
  <2>2. n \in Nat /\ n = fetch.skip + 1
    BY <1>1, <2>1
  <2>3. now = [c EXCEPT !.queue = @ \ {j}, !.skip = n]
    BY Zenon DEF c, n
  <2> HIDE DEF now, n
  <2>4. [c EXCEPT !.queue = @ \ {j}, !.skip = n] \in Fetch
    BY <2>1, <2>2 DEF Fetch
  <2>5. /\ now \in Fetch /\ now.phase = c.phase /\ now.records = c.records
        /\ now.skip = n /\ now.seen = c.seen /\ now.queue = c.queue \ {j}
    BY <2>1, <2>3, <2>4 DEF Fetch
  <2> QED BY <2>1, <2>2, <2>5
<1>6. Ids(fetch.records) = Named(fetch.seen) /\ fetch.seen \cup fetch.queue \subseteq Ever
  BY <1>0, <1>1, IdsAre, GenericIs
<1>7. CASE Proceeds([fetch EXCEPT !.queue = @ \ {j}]) /\ Silent
  <2> DEFINE f == [fetch EXCEPT !.queue = @ \ {j}]
  <2> HIDE DEF j, now
  <2>1. /\ f \in Fetch /\ f.phase = "details" /\ f.records = fetch.records
        /\ f.skip = fetch.skip /\ f.seen = fetch.seen /\ f.queue = fetch.queue \ {j}
    BY <1>0, <1>1 DEF Fetch
  <2>2. Proceeds(f) /\ sent' = sent /\ odd' = odd /\ told' = told
    BY <1>7 DEF Silent
  <2> HIDE DEF f
  <2>3. f.queue \subseteq Named(f.seen) /\ f.seen \cup f.queue \subseteq Ever
    BY <1>1, <1>6, <2>1
  <2>4. Calm' => f.seen = site
    BY <1>1, <1>3, <2>1, <2>2 DEF Calm
  <2> QED BY <1>0, <1>1, <1>6, <2>1, <2>2, <2>3, <2>4, GenericIs, GenericDetailsGoOn
<1>8. CASE Escapes
  <2>1. sent' = sent + 1 /\ odd' \in Nat /\ told' = told /\ Raises(0)
    BY <1>0, <1>8, GenericIs DEF Escapes, Disturbed
  <2> QED BY <1>0, <1>4, <2>1, GenericFails
<1>9. CASE Sends(FALSE) /\ Proceeds(now)
  <2> HIDE DEF j, now
  <2>1. sent' = sent + 1 /\ odd' \in Nat /\ odd' # 0 /\ told' = told
    BY <1>0, <1>9, GenericIs DEF Sends, Request
  <2>2. now.queue \subseteq Named(now.seen) /\ now.seen \cup now.queue \subseteq Ever
    BY <1>1, <1>5, <1>6
  <2> QED BY <1>0, <1>3, <1>4, <1>5, <1>6, <1>9, <2>1, <2>2, GenericDetailsGoOn
<1>10. ASSUME NEW k \in Ever, Sends(k = j),
              Proceeds([now EXCEPT !.records = (@ \ {<<j, j>>}) \cup {<<j, k>>}])
       PROVE  SnapInv'
  <2> DEFINE R == (now.records \ {<<j, j>>}) \cup {<<j, k>>}
             f == [now EXCEPT !.records = R]
  <2> HIDE DEF j, now
  <2>1. sent' = sent + 1 /\ odd' \in Nat /\ told' = told /\ (odd' = 0 => odd = 0)
    BY <1>0, <1>10, GenericIs DEF Sends, Request
  <2>2. Proceeds(f)
    BY <1>10
  <2>3. R \in SUBSET (Jobs \X Jobs)
    <3>1. <<j, k>> \in Jobs \X Jobs
      BY <1>0, <1>2, GenericIs
    <3> QED BY <1>5, <3>1 DEF Fetch
  <2>4. Ids(R) = Named(fetch.seen)
    <3>1. j \in Ids(fetch.records)
      BY <1>1, <1>2, <1>6
    <3>2. Ids(R) = Ids(fetch.records \ {<<j, j>>}) \cup {j}
      BY <1>5, IdsOfOne DEF R
    <3>3. Ids(fetch.records \ {<<j, j>>}) \subseteq Ids(fetch.records)
      BY DEF Ids
    <3>4. Ids(fetch.records) \subseteq Ids(fetch.records \ {<<j, j>>}) \cup {j}
      <4>1. ASSUME NEW x \in Ids(fetch.records), x # j
            PROVE  x \in Ids(fetch.records \ {<<j, j>>})
        BY <4>1 DEF Ids
      <4> QED BY <4>1
    <3> QED BY <1>6, <3>1, <3>2, <3>3, <3>4
  <2> HIDE DEF R
  <2>5. /\ f \in Fetch /\ f.phase = "details" /\ f.records = R
        /\ f.skip = now.skip /\ f.seen = now.seen /\ f.queue = now.queue
    BY <1>5, <2>3 DEF Fetch
  <2> HIDE DEF f
  <2>6. f.queue \subseteq Named(f.seen) /\ f.seen \cup f.queue \subseteq Ever
    BY <1>1, <1>5, <1>6, <2>5
  <2>7. Calm' => f.seen = site
    BY <1>1, <1>3, <1>5, <2>1, <2>5 DEF Calm
  <2> QED BY <1>0, <1>4, <1>5, <2>1, <2>2, <2>4, <2>5, <2>6, <2>7, GenericDetailsGoOn
<1> QED BY <1>7, <1>8, <1>9, <1>10, Zenon DEF GenericDetail

LEMMA GenericReturnsSnap ==
  ASSUME SnapInv, FetchInv, GenericReturns
  PROVE  SnapInv'
<1>0. /\ Running("generic") /\ UNCHANGED <<adapter, site_vars, style, browser>>
      /\ fetch.phase = "details" /\ Silent /\ Returns(fetch)
  BY DEF GenericReturns, In
<1>1. Counts /\ odd' = odd
  BY <1>0, GenericIs DEF Silent, Counts
<1>2. Listed = Named(fetch.seen) /\ (Calm => fetch.seen = site)
  BY <1>0, GenericIs DEF GenericReads
<1>3. /\ Listed' = Listed /\ snaps' = snaps /\ site' = site /\ adapter' = "generic"
      /\ Skipped' = Untitled /\ site \in snaps
  BY <1>0, SiteStays, GenericIs DEF Returns, Listed, Skipped
<1>4. TotalsAreReached'
  BY <1>3 DEF TotalsAreReached
<1>5. ASSUME odd = 0, snaps = {site} PROVE Listed = site \ Untitled
  BY <1>2, <1>5 DEF Calm, Named
<1>6. Complete'
  BY <1>1, <1>3, <1>4, <1>5 DEF Complete, OneListing
<1>7. Ids(fetch.records) \subseteq fetch.seen
  BY <1>2, IdsAre DEF Named
<1> QED BY <1>0, <1>1, <1>6, <1>7, GenericIs, FetchGoesOn
-----------------------------------------------------------------------------
(* Darwinbox: the browser first.                                           *)
LEMMA DarwinboxIs ==
  ASSUME SnapInv, FetchInv, Running("darwinbox")
  PROVE  /\ outcome = "pending" /\ adapter = "darwinbox" /\ adapter \in Adapters
         /\ DarwinboxReads /\ Budget = 2 * PageLimit + Cardinality(Bare)
         /\ PageLimit \in Nat /\ PageLimit >= 1 /\ Cardinality(Bare) \in Nat
         /\ \A S \in SUBSET Bare : IsFiniteSet(S) /\ Cardinality(S) \in Nat
         /\ fetch \in Fetch /\ sent \in Nat /\ sent + 1 \in Nat /\ sent <= Budget
         /\ odd \in Nat /\ told \in SUBSET Nat
         /\ Ever \in SUBSET Jobs /\ site \in SUBSET Jobs /\ site \in snaps /\ site \subseteq Ever
         /\ fetch.seen \cup fetch.queue \subseteq Ever
         /\ browser \in [bodies : Seq(Answer), trouble : SUBSET Nat]
         /\ browser.bodies \in Seq(Answer) /\ Len(browser.bodies) \in Nat
         /\ browser.trouble \in SUBSET Nat /\ fetch.requests \in Nat /\ fetch.page \in Nat
         /\ \A k \in 1 .. Len(browser.bodies) :
              browser.bodies[k].jobs \subseteq Ever /\ browser.bodies[k].total \in Nat
         /\ Calm => told \subseteq {Cardinality(site)}
<1>1. outcome = "pending" /\ adapter = "darwinbox"
  BY DEF Running
<1>2. Budget = 2 * PageLimit + Cardinality(Bare)
  BY <1>1 DEF Budget
<1>3. Bare \in SUBSET Jobs
  BY FetchAssumption DEF FetchAssumption
<1>4. DarwinboxReads /\ fetch \in Fetch /\ browser \in [bodies : Seq(Answer), trouble : SUBSET Nat]
      /\ PageLimit \in Nat \ {0}
  BY <1>1, PendingIs DEF Progress
<1>5. /\ browser.bodies \in Seq(Answer) /\ Len(browser.bodies) \in Nat
      /\ browser.trouble \in SUBSET Nat /\ fetch.requests \in Nat /\ fetch.page \in Nat
  BY <1>4 DEF Fetch
<1>6. \A k \in 1 .. Len(browser.bodies) :
        browser.bodies[k].jobs \subseteq Ever /\ browser.bodies[k].total \in Nat
  <2>1. \A k \in 1 .. Len(browser.bodies) : browser.bodies[k] \in Answer
    BY <1>5
  <2>2. \A k \in 1 .. Len(browser.bodies) : browser.bodies[k].jobs \subseteq Ever
    BY <1>4 DEF DarwinboxReads
  <2> QED BY <2>1, <2>2 DEF Answer
<1>7. Calm => told \subseteq {Cardinality(site)}
  BY <1>4 DEF DarwinboxReads
<1>8. PageLimit \in Nat /\ PageLimit >= 1
  BY <1>4
<1>9. Cardinality(Bare) \in Nat /\ \A S \in SUBSET Bare : IsFiniteSet(S) /\ Cardinality(S) \in Nat
  BY <1>3, JobsAreFinite
<1>10. /\ sent \in Nat /\ sent + 1 \in Nat /\ sent <= Budget /\ odd \in Nat /\ told \in SUBSET Nat
       /\ Ever \in SUBSET Jobs /\ site \in SUBSET Jobs /\ site \in snaps /\ site \subseteq Ever
       /\ fetch.seen \cup fetch.queue \subseteq Ever /\ adapter \in Adapters
  BY <1>1, PendingIs
<1> QED BY <1>1, <1>2, <1>4, <1>5, <1>6, <1>7, <1>8, <1>9, <1>10

LEMMA DarwinboxFails ==
  ASSUME SnapInv, FetchInv, Running("darwinbox"),
         UNCHANGED <<adapter, site_vars, style, browser>>,
         sent' \in Nat, sent' <= Budget, odd' \in Nat, told' \in SUBSET Nat,
         NEW n \in Nat, Raises(n)
  PROVE  SnapInv'
<1>1. Counts
  BY DEF Counts
<1> QED BY <1>1, DarwinboxIs, FetchFails

LEMMA BodiesStay ==
  ASSUME browser'.bodies = browser.bodies
  PROVE  /\ BodyTotals' = BodyTotals /\ (BodiesAgree' <=> BodiesAgree)
         /\ (Offline' <=> Offline) /\ \A k : Captured(k)' = Captured(k)
<1>1. \A k : Captured(k)' = Captured(k)
  BY DEF Captured
<1> QED BY <1>1 DEF BodyTotals, BodiesAgree, Offline

LEMMA DarwinboxGoesOn ==
  ASSUME SnapInv, FetchInv, Running("darwinbox"),
         UNCHANGED <<adapter, site_vars, style>>,
         browser' \in [bodies : Seq(Answer), trouble : SUBSET Nat], Counts,
         NEW f \in Fetch, Proceeds(f), f.seen \cup f.queue \subseteq Ever,
         Ids(f.records) \subseteq f.seen,
         \A k \in 1 .. Len(browser'.bodies) : browser'.bodies[k].jobs \subseteq Ever,
         Calm' => told' \subseteq {Cardinality(site)},
         \/ f.phase \in Browsing \cup {"start"} /\ BrowserReads'
         \/ f.phase \in {"listing", "reading", "postings"} /\ ListingReads'
  PROVE  SnapInv'
<1>0. /\ outcome = "pending" /\ adapter' = "darwinbox" /\ adapter' \in Adapters /\ fetch' = f
      /\ site' = site /\ Ever' = Ever
  BY DarwinboxIs, SiteStays DEF Proceeds
<1>1. DarwinboxReads'
  BY <1>0 DEF DarwinboxReads
<1>2. Progress'
  BY <1>0, <1>1 DEF Progress
<1> QED BY <1>0, <1>2, DarwinboxIs, FetchGoesOn

LEMMA BrowserGoesOn ==
  ASSUME SnapInv, FetchInv, Running("darwinbox"),
         UNCHANGED <<adapter, site_vars, style>>, fetch.phase \in Browsing \cup {"start"},
         browser' \in [bodies : Seq(Answer), trouble : SUBSET Nat],
         sent' \in Nat, odd' \in Nat, told' \in SUBSET Nat,
         NEW f \in Fetch, Proceeds(f), f.phase \in Browsing,
         f.seen = fetch.seen, f.queue = fetch.queue, f.records = fetch.records,
         \A k \in 1 .. Len(browser'.bodies) : browser'.bodies[k].jobs \subseteq Ever,
         told' = BodyTotals', Calm' => told' \subseteq {Cardinality(site)},
         f.phase = "opening" => sent' <= PageLimit /\ f.page = 1,
         f.phase = "clicking" =>
           /\ browser'.bodies # <<>> /\ f.page \in 1 .. PageLimit
           /\ sent' <= PageLimit + (f.page - 1)
           /\ f.page = PageLimit => BodiesAgree',
         f.phase = "closed" =>
           /\ sent' <= 2 * PageLimit - 1
           /\ browser'.trouble = {} => BodiesAgree'
  PROVE  SnapInv'
<1>0. /\ fetch' = f /\ PageLimit' = PageLimit /\ PageLimit \in Nat /\ PageLimit >= 1
      /\ Cardinality(Bare) \in Nat /\ Budget = 2 * PageLimit + Cardinality(Bare)
  BY DarwinboxIs, BudgetStays DEF Proceeds
<1>1. fetch.seen = {} /\ fetch.queue = {} /\ fetch.records = {}
  <2>1. BrowserReads
    BY DarwinboxIs DEF DarwinboxReads, Browsing
  <2> QED BY <2>1 DEF BrowserReads
<1>2. f.phase # "start"
  BY DEF Browsing
<1>3. BrowserReads'
  BY <1>0, <1>1, <1>2 DEF BrowserReads
<1>4. sent' <= Budget
  BY <1>0 DEF Browsing
<1>5. Counts
  BY <1>4 DEF Counts
<1>6. Ids(f.records) \subseteq f.seen
  BY <1>1, IdsAre
<1> QED BY <1>1, <1>3, <1>5, <1>6, DarwinboxGoesOn

(* A response that the browser captures, or cannot use.                    *)
LEMMA RespondsIs ==
  ASSUME SnapInv, FetchInv, Running("darwinbox"), UNCHANGED site_vars,
         told = BodyTotals, Responds
  PROVE  /\ browser' \in [bodies : Seq(Answer), trouble : SUBSET Nat]
         /\ Len(browser'.bodies) = Len(browser.bodies) + 1
         /\ \A k \in 1 .. Len(browser.bodies) : browser'.bodies[k] = browser.bodies[k]
         /\ sent' = sent + 1 /\ odd' \in Nat /\ told' \in SUBSET Nat
         /\ \A k \in 1 .. Len(browser'.bodies) : browser'.bodies[k].jobs \subseteq Ever
         /\ told' = BodyTotals' /\ (Calm' => told' \subseteq {Cardinality(site)})
<1> DEFINE n == Len(browser.bodies)
           m == n + 1
<1>1. PICK body \in Answers : /\ Request(body = TrueAnswer(Len(browser.bodies) + 1), {body.total})
                             /\ browser' = Capture(body)
  BY DEF Responds
<1>2. /\ outcome = "pending" /\ n \in Nat /\ m \in Nat /\ browser.bodies \in Seq(Answer)
      /\ browser \in [bodies : Seq(Answer), trouble : SUBSET Nat]
      /\ \A k \in 1 .. n : browser.bodies[k].jobs \subseteq Ever
      /\ Calm => told \subseteq {Cardinality(site)}
  BY DarwinboxIs
<1>3. /\ body.jobs \subseteq Ever /\ body \in Answer
      /\ sent' = sent + 1 /\ odd' \in Nat /\ told' = told \cup {body.total}
      /\ told' \in SUBSET Nat /\ (odd' = 0 => odd = 0 /\ body.total = Cardinality(site))
  <2>1. body \in Answer
    BY AnswersAreTyped
  <2>2. Request(body = TrueAnswer(m), {body.total})
    BY <1>1
  <2> HIDE DEF m
  <2> QED BY <1>2, <2>1, <2>2, AnswerIs
<1>4. /\ browser'.bodies = Append(browser.bodies, body) /\ browser'.trouble = browser.trouble
      /\ browser' \in [bodies : Seq(Answer), trouble : SUBSET Nat]
  <2> DEFINE S == Append(browser.bodies, body)
  <2>1. browser' = [browser EXCEPT !.bodies = S] /\ S \in Seq(Answer)
    BY <1>1, <1>2, <1>3 DEF Capture
  <2> HIDE DEF S
  <2>2. /\ browser'.bodies = S /\ browser'.trouble = browser.trouble
        /\ browser' \in [bodies : Seq(Answer), trouble : SUBSET Nat]
    BY <1>2, <2>1
  <2> QED BY <2>2 DEF S
<1>5. /\ Len(browser'.bodies) = m /\ browser'.bodies[m] = body
      /\ \A k \in 1 .. n : browser'.bodies[k] = browser.bodies[k]
  BY <1>2, <1>3, <1>4
<1>6. \A k \in 1 .. m : k = m \/ k \in 1 .. n
  BY <1>2
<1>7. \A k \in 1 .. m : browser'.bodies[k].jobs \subseteq Ever
  BY <1>2, <1>3, <1>5, <1>6
<1>8. told' = BodyTotals'
  <2>1. m \in 1 .. m /\ \A k \in 1 .. n : k \in 1 .. m
    BY <1>2
  <2>2. BodyTotals' = {browser'.bodies[k].total : k \in 1 .. m}
    BY <1>5 DEF BodyTotals
  <2>3. BodyTotals = {browser.bodies[k].total : k \in 1 .. n}
    BY DEF BodyTotals
  <2> HIDE DEF m, n
  <2> QED BY <1>3, <1>5, <1>6, <2>1, <2>2, <2>3
<1>9. Calm' => told' \subseteq {Cardinality(site)}
  BY <1>2, <1>3, SiteStays DEF Calm
<1> QED BY <1>3, <1>4, <1>5, <1>7, <1>8, <1>9

LEMMA TroubleIs ==
  ASSUME SnapInv, FetchInv, Running("darwinbox"), NEW n \in Nat,
         browser' = Trouble(n) \/ UNCHANGED browser
  PROVE  /\ browser' \in [bodies : Seq(Answer), trouble : SUBSET Nat]
         /\ browser'.bodies = browser.bodies
         /\ browser' = Trouble(n) => browser'.trouble # {}
         /\ \A k \in 1 .. Len(browser'.bodies) : browser'.bodies[k].jobs \subseteq Ever
<1>1. /\ browser' \in [bodies : Seq(Answer), trouble : SUBSET Nat]
      /\ browser'.bodies = browser.bodies
      /\ browser' = Trouble(n) => browser'.trouble # {}
  BY DarwinboxIs DEF Trouble
<1> QED BY <1>1, DarwinboxIs

LEMMA TotalsAgree ==
  ASSUME OddBodies = {}
  PROVE  \A k \in 1 .. Len(browser.bodies) :
           browser.bodies[k].total = browser.bodies[1].total
BY DEF OddBodies, BodyIsOdd

LEMMA RespondsAgrees ==
  ASSUME OddBodies = {}, ~Loaded, NEW n \in Nat, n = Len(browser.bodies), n # 0,
         Cardinality(Captured(n)) \in Nat, browser.bodies[1].total \in Nat,
         Len(browser'.bodies) = n + 1,
         \A k \in 1 .. n : browser'.bodies[k] = browser.bodies[k]
  PROVE  BodiesAgree'
<1>1. n >= 1 /\ 1 \in 1 .. n /\ (n + 1) - 1 = n /\ n + 1 > 1
  OBVIOUS
<1>2. Captured(n)' = Captured(n)
  BY <1>1 DEF Captured
<1>3. Cardinality(Captured(n)') < browser'.bodies[1].total
  BY <1>1, <1>2 DEF Loaded
<1>4. ASSUME NEW k \in 1 .. n + 1
      PROVE  \/ browser'.bodies[k].total = browser'.bodies[1].total
             \/ k = n + 1
  <2>1. k \in 1 .. n \/ k = n + 1
    BY <1>1
  <2> QED BY <1>1, <2>1, TotalsAgree
<1> DEFINE agrees(k, m) ==
      \/ browser.bodies[k].total = browser.bodies[1].total
      \/ k = m /\ m > 1 /\ Cardinality(Captured(m - 1)) < browser.bodies[1].total
<1>5. \A k \in 1 .. n + 1 : agrees(k, n + 1)'
  BY <1>1, <1>3, <1>4
<1> QED BY <1>5 DEF BodiesAgree

LEMMA CapturedIs ==
  /\ Captured(0) = {}
  /\ \A k \in Nat \ {0} : Captured(k) = Captured(k - 1) \cup browser.bodies[k].jobs
  /\ \A k, m \in Nat : k <= m => Captured(k) \subseteq Captured(m)
<1>1. Captured(0) = {}
  BY DEF Captured
<1>2. ASSUME NEW k \in Nat \ {0}
      PROVE  Captured(k) = Captured(k - 1) \cup browser.bodies[k].jobs
  <2>1. \A i \in Nat : i \in 1 .. k <=> i \in 1 .. k - 1 \/ i = k
    OBVIOUS
  <2>2. 1 .. k \subseteq Nat /\ 1 .. k - 1 \subseteq Nat /\ k \in 1 .. k
    OBVIOUS
  <2> QED BY <2>1, <2>2 DEF Captured
<1>3. ASSUME NEW k \in Nat, NEW m \in Nat, k <= m
      PROVE  Captured(k) \subseteq Captured(m)
  <2>1. 1 .. k \subseteq 1 .. m
    BY <1>3
  <2> QED BY <2>1 DEF Captured
<1> QED BY <1>1, <1>2, <1>3

LEMMA CapturedFits ==
  ASSUME SnapInv, FetchInv, Running("darwinbox"), NEW k \in 0 .. Len(browser.bodies)
  PROVE  /\ Captured(k) \subseteq Ever
         /\ IsFiniteSet(Captured(k)) /\ Cardinality(Captured(k)) \in Nat
<1>1. 1 .. k \subseteq 1 .. Len(browser.bodies)
  BY DarwinboxIs
<1>2. Captured(k) \subseteq Ever
  BY <1>1, DarwinboxIs DEF Captured
<1>3. Captured(k) \in SUBSET Jobs
  BY <1>2, DarwinboxIs
<1> QED BY <1>2, <1>3, JobsAreFinite

(* While the browser is open or closed.                                    *)
LEMMA BrowserIs ==
  ASSUME SnapInv, FetchInv, Running("darwinbox"), fetch.phase \in Browsing
  PROVE  /\ BrowserReads /\ Len(browser.bodies) <= sent
         /\ fetch.page \in Nat /\ told = BodyTotals
<1>1. BrowserReads
  BY DarwinboxIs DEF DarwinboxReads, Browsing
<1>2. BodiesAreSent
  BY DarwinboxIs, OpenBrowser
<1> QED BY <1>1, <1>2, DarwinboxIs DEF BrowserReads, BodiesAreSent

LEMMA BrowserEmitsSnap ==
  ASSUME SnapInv, FetchInv, BrowserEmits
  PROVE  SnapInv'
<1>0. /\ Running("darwinbox") /\ fetch.phase = "opening" /\ fetch.phase \in Browsing
      /\ UNCHANGED <<adapter, site_vars, style, fetch, outcome, reported>>
      /\ sent < PageLimit /\ (Responds \/ RespondsBadly)
  BY DEF BrowserEmits, In, Browsing
<1>1. Proceeds(fetch) /\ fetch \in Fetch
  BY <1>0, DarwinboxIs DEF Proceeds
<1>2. fetch.page = 1 /\ told = BodyTotals
  BY <1>0, BrowserIs DEF BrowserReads
<1>3. sent + 1 <= PageLimit
  BY <1>0, DarwinboxIs
<1>4. CASE Responds
  BY <1>0, <1>1, <1>2, <1>3, <1>4, RespondsIs, DarwinboxIs, BrowserGoesOn
<1>5. CASE RespondsBadly
  <2>1. /\ sent' = sent + 1 /\ odd' \in Nat /\ odd' # 0 /\ told' = told
        /\ browser' = Trouble(Len(browser.bodies) + 1) /\ Len(browser.bodies) + 1 \in Nat
    BY <1>0, <1>5, DarwinboxIs DEF RespondsBadly, Sends, Request
  <2>2. /\ browser' \in [bodies : Seq(Answer), trouble : SUBSET Nat]
        /\ browser'.bodies = browser.bodies
        /\ \A k \in 1 .. Len(browser'.bodies) : browser'.bodies[k].jobs \subseteq Ever
    BY <1>0, <2>1, TroubleIs
  <2>3. told' = BodyTotals' /\ ~Calm'
    BY <1>2, <2>1, <2>2, BodiesStay DEF Calm
  <2> QED BY <1>0, <1>1, <1>2, <1>3, <2>1, <2>2, <2>3, DarwinboxIs, BrowserGoesOn
<1> QED BY <1>0, <1>4, <1>5

(* The browser goes on with the bodies that it has, to another phase.      *)
LEMMA BrowserMoves ==
  ASSUME SnapInv, FetchInv, Running("darwinbox"),
         UNCHANGED <<adapter, site_vars, style>>, fetch.phase \in Browsing,
         NEW n \in Nat, browser' = Trouble(n) \/ UNCHANGED browser,
         sent' \in Nat, odd' \in Nat, told' = told, odd' = 0 => odd = 0,
         NEW p \in {"clicking", "closed"}, Proceeds([fetch EXCEPT !.phase = p]),
         p = "clicking" =>
           /\ browser.bodies # <<>> /\ fetch.page \in 1 .. PageLimit
           /\ sent' <= PageLimit + (fetch.page - 1)
           /\ fetch.page = PageLimit => BodiesAgree,
         p = "closed" =>
           /\ sent' <= 2 * PageLimit - 1
           /\ browser' = Trouble(n) \/ (browser.trouble = {} => BodiesAgree)
  PROVE  SnapInv'
<1> DEFINE f == [fetch EXCEPT !.phase = p]
<1>1. /\ f \in Fetch /\ f.phase = p /\ f.page = fetch.page /\ f.seen = fetch.seen
      /\ f.queue = fetch.queue /\ f.records = fetch.records /\ Proceeds(f)
  BY DarwinboxIs DEF Fetch
<1> HIDE DEF f
<1>2. /\ browser' \in [bodies : Seq(Answer), trouble : SUBSET Nat]
      /\ browser'.bodies = browser.bodies
      /\ browser' = Trouble(n) => browser'.trouble # {}
      /\ \A k \in 1 .. Len(browser'.bodies) : browser'.bodies[k].jobs \subseteq Ever
  BY TroubleIs
<1>3. BodyTotals' = BodyTotals /\ (BodiesAgree' <=> BodiesAgree)
  BY <1>2, BodiesStay
<1>4. told' = BodyTotals' /\ told' \in SUBSET Nat
  BY <1>3, BrowserIs, DarwinboxIs
<1>5. Calm' => told' \subseteq {Cardinality(site)}
  BY DarwinboxIs, SiteStays DEF Calm
<1>6. p = "closed" => (browser'.trouble = {} => BodiesAgree')
  BY <1>2, <1>3
<1>7. p \in Browsing /\ p # "opening" /\ fetch.phase \in Browsing \cup {"start"}
  BY DEF Browsing
<1> QED BY <1>1, <1>2, <1>3, <1>4, <1>5, <1>6, <1>7, BrowserGoesOn

LEMMA FewBodiesAgree ==
  ASSUME SnapInv, FetchInv, Running("darwinbox"), Len(browser.bodies) <= 1
  PROVE  BodiesAgree
<1>1. \A k \in 1 .. Len(browser.bodies) : k = 1
  BY DarwinboxIs
<1> QED BY <1>1 DEF BodiesAgree

LEMMA BrowserLooksSnap ==
  ASSUME SnapInv, FetchInv, BrowserLooks
  PROVE  SnapInv'
<1>0. /\ Running("darwinbox") /\ fetch.phase = "opening" /\ fetch.phase \in Browsing
      /\ UNCHANGED <<adapter, site_vars, style>>
  BY DEF BrowserLooks, In, Browsing
<1>1. fetch.page = 1 /\ sent <= PageLimit /\ Len(browser.bodies) <= sent
  BY <1>0, BrowserIs DEF BrowserReads
<1>2. sent <= 2 * PageLimit - 1 /\ 1 \in 1 .. PageLimit /\ sent <= PageLimit + (1 - 1)
  BY <1>0, <1>1, DarwinboxIs
<1>3. CASE browser.trouble = {} /\ browser.bodies # <<>>
           /\ Proceeds([fetch EXCEPT !.phase = "clicking"]) /\ Silent /\ UNCHANGED browser
  <2>1. fetch.page = PageLimit => BodiesAgree
    <3>1. fetch.page = PageLimit => Len(browser.bodies) <= 1
      BY <1>0, <1>1, DarwinboxIs
    <3> QED BY <1>0, <3>1, FewBodiesAgree
  <2>2. sent' = sent /\ odd' = odd /\ told' = told
    BY <1>3 DEF Silent
  <2> QED BY <1>0, <1>1, <1>2, <1>3, <2>1, <2>2, DarwinboxIs, BrowserMoves
<1>4. CASE browser.trouble # {}
           /\ Proceeds([fetch EXCEPT !.phase = "closed"]) /\ Silent /\ UNCHANGED browser
  <2>1. sent' = sent /\ odd' = odd /\ told' = told
    BY <1>4 DEF Silent
  <2> QED BY <1>0, <1>2, <1>4, <2>1, DarwinboxIs, BrowserMoves
<1>5. CASE /\ Proceeds([fetch EXCEPT !.phase = "closed"]) /\ Disturbed(0)
           /\ browser' = Trouble(Len(browser.bodies))
  <2>1. sent' = sent /\ odd' \in Nat /\ odd' # 0 /\ told' = told
    BY <1>0, <1>5, DarwinboxIs DEF Disturbed
  <2> QED BY <1>0, <1>2, <1>5, <2>1, DarwinboxIs, BrowserMoves
<1> QED BY <1>3, <1>4, <1>5 DEF BrowserLooks

LEMMA BrowserClicksSnap ==
  ASSUME SnapInv, FetchInv, BrowserClicks
  PROVE  SnapInv'
<1> DEFINE f == [fetch EXCEPT !.page = @ + 1]
           n == Len(browser.bodies)
<1>0. /\ Running("darwinbox") /\ fetch.phase = "clicking" /\ fetch.phase \in Browsing
      /\ UNCHANGED <<adapter, site_vars, style>>
  BY DEF BrowserClicks, In, Browsing
<1>1. /\ browser.bodies # <<>> /\ fetch.page \in 1 .. PageLimit
      /\ sent <= PageLimit + (fetch.page - 1)
      /\ fetch.page = PageLimit => BodiesAgree
      /\ told = BodyTotals
  BY <1>0, BrowserIs DEF BrowserReads
<1>2. fetch.page \in Nat /\ PageLimit \in Nat /\ sent \in Nat /\ sent <= 2 * PageLimit - 1
  <2>1. fetch.page \in Nat /\ PageLimit \in Nat /\ sent \in Nat
    BY <1>0, DarwinboxIs
  <2> QED BY <1>1, <2>1
<1>3. OddBodies = {} => BodiesAgree
  BY TotalsAgree DEF BodiesAgree
<1>4. CASE Stops /\ Silent /\ UNCHANGED browser /\ (fetch.page = PageLimit \/ OddBodies = {})
  <2>1. sent' = sent /\ odd' = odd /\ told' = told
    BY <1>4 DEF Silent
  <2>2. Proceeds([fetch EXCEPT !.phase = "closed"]) /\ BodiesAgree
    BY <1>1, <1>3, <1>4 DEF Stops
  <2> QED BY <1>0, <1>2, <1>4, <2>1, <2>2, DarwinboxIs, BrowserMoves
<1>5. CASE OddBodies # {} /\ Stops /\ Silent /\ browser' = Trouble(OddCount)
  <2>1. sent' = sent /\ odd' = odd /\ told' = told /\ OddCount \in Nat
    BY <1>5, OddCountIs DEF Silent
  <2>2. Proceeds([fetch EXCEPT !.phase = "closed"])
    BY <1>5 DEF Stops
  <2> QED BY <1>0, <1>2, <1>5, <2>1, <2>2, DarwinboxIs, BrowserMoves
<1>6. ASSUME fetch.page < PageLimit, Stops, browser' = Trouble(Len(browser.bodies)),
             NEW k \in {0, 1}, Disturbed(k)
      PROVE  SnapInv'
  <2>1. sent' = sent + k /\ odd' \in Nat /\ odd' # 0 /\ told' = told
    BY <1>0, <1>6, DarwinboxIs DEF Disturbed
  <2>2. Proceeds([fetch EXCEPT !.phase = "closed"])
    BY <1>6 DEF Stops
  <2>3. sent' \in Nat /\ sent' <= 2 * PageLimit - 1
    BY <1>1, <1>2, <1>6, <2>1
  <2> QED BY <1>0, <1>6, <2>1, <2>2, <2>3, DarwinboxIs, BrowserMoves
<1>7. ASSUME fetch.page < PageLimit, OddBodies = {}, ~Loaded, Proceeds(f),
             Responds \/ RespondsBadly
      PROVE  SnapInv'
  <2>1. /\ f \in Fetch /\ f.phase = "clicking" /\ f.page = fetch.page + 1
        /\ f.seen = fetch.seen /\ f.queue = fetch.queue /\ f.records = fetch.records
    <3> DEFINE q == fetch.page + 1
    <3>1. q \in Nat /\ fetch \in Fetch
      BY <1>0, DarwinboxIs
    <3>2. f = [fetch EXCEPT !.page = q]
      BY Zenon DEF q
    <3> HIDE DEF f, q
    <3>3. [fetch EXCEPT !.page = q] \in Fetch
      BY <3>1 DEF Fetch
    <3>4. /\ f \in Fetch /\ f.phase = fetch.phase /\ f.page = q
          /\ f.seen = fetch.seen /\ f.queue = fetch.queue /\ f.records = fetch.records
      BY <3>1, <3>2, <3>3 DEF Fetch
    <3> QED BY <1>0, <3>4 DEF q
  <2> HIDE DEF f
  <2>2. /\ f.page \in 1 .. PageLimit /\ sent + 1 <= PageLimit + (f.page - 1)
        /\ sent + 1 \in Nat
    BY <1>1, <1>2, <1>7, <2>1
  <2>3. f.phase \in Browsing /\ f.phase # "opening" /\ f.phase # "closed"
        /\ fetch.phase \in Browsing \cup {"start"}
    BY <1>0, <2>1 DEF Browsing
  <2>4. CASE Responds
    <3>1. /\ browser' \in [bodies : Seq(Answer), trouble : SUBSET Nat]
          /\ Len(browser'.bodies) = n + 1
          /\ \A k \in 1 .. n : browser'.bodies[k] = browser.bodies[k]
          /\ sent' = sent + 1 /\ odd' \in Nat /\ told' \in SUBSET Nat
          /\ \A k \in 1 .. Len(browser'.bodies) : browser'.bodies[k].jobs \subseteq Ever
          /\ told' = BodyTotals' /\ (Calm' => told' \subseteq {Cardinality(site)})
      BY <1>0, <1>1, <2>4, RespondsIs
    <3>2. n \in Nat /\ n # 0
      BY <1>0, <1>1, DarwinboxIs, EmptySeq
    <3>3. Cardinality(Captured(n)) \in Nat /\ browser.bodies[1].total \in Nat
      <4>1. n \in 0 .. n /\ 1 \in 1 .. n
        BY <3>2
      <4> QED BY <1>0, <4>1, CapturedFits, DarwinboxIs
    <3>4. BodiesAgree'
      BY <1>7, <3>1, <3>2, <3>3, RespondsAgrees
    <3>5. browser'.bodies # <<>>
      <4>1. n + 1 # 0
        BY <3>2
      <4> QED BY <3>1, <4>1, EmptySeq
    <3> QED BY <1>0, <1>7, <2>1, <2>2, <2>3, <3>1, <3>4, <3>5, BrowserGoesOn
  <2>5. CASE RespondsBadly
    <3>1. /\ sent' = sent + 1 /\ odd' \in Nat /\ odd' # 0 /\ told' = told
          /\ browser' = Trouble(Len(browser.bodies) + 1) /\ Len(browser.bodies) + 1 \in Nat
      BY <1>0, <2>5, DarwinboxIs DEF RespondsBadly, Sends, Request
    <3>2. /\ browser' \in [bodies : Seq(Answer), trouble : SUBSET Nat]
          /\ browser'.bodies = browser.bodies
          /\ \A k \in 1 .. Len(browser'.bodies) : browser'.bodies[k].jobs \subseteq Ever
      BY <1>0, <3>1, TroubleIs
    <3>3. told' = BodyTotals' /\ told' \in SUBSET Nat /\ ~Calm' /\ BodiesAgree'
          /\ browser'.bodies # <<>>
      BY <1>0, <1>1, <1>3, <1>7, <3>1, <3>2, BodiesStay, DarwinboxIs DEF Calm
    <3> QED BY <1>0, <1>7, <2>1, <2>2, <2>3, <3>1, <3>2, <3>3, BrowserGoesOn
  <2> QED BY <1>7, <2>4, <2>5
<1> QED BY <1>4, <1>5, <1>6, <1>7, Zenon DEF BrowserClicks

(* The listing of Darwinbox.                                               *)
LEMMA BudgetLeft ==
  ASSUME NEW s \in Nat, NEW b \in Nat, NEW c \in Nat, NEW t \in Nat, NEW p \in Nat,
         s + c <= b + t, t <= 2 * p - 1
  PROVE  s <= 2 * p + b /\ (c >= 1 => s + 1 <= 2 * p + b) /\ s + 1 <= 2 * p + b
OBVIOUS

LEMMA ListingGoesOn ==
  ASSUME SnapInv, FetchInv, Running("darwinbox"),
         UNCHANGED <<adapter, site_vars, style, browser>>,
         sent' \in Nat, odd' \in Nat, told' \in SUBSET Nat,
         NEW f \in Fetch, Proceeds(f), f.seen \cup f.queue \subseteq Ever,
         Ids(f.records) = f.seen, f.page \in 1 .. PageLimit,
         NEW taken \in Nat,
         taken = IF Offline THEN 2 * PageLimit - 1
                 ELSE IF f.phase = "listing" THEN f.page - 1 ELSE f.page,
         sent' + Cardinality(Bare \ f.seen) <= Cardinality(Bare) + taken,
         f.phase = "postings" => f.queue \cap f.seen = {},
         f.phase # "postings" => f.queue = {},
         f.phase = (IF Offline THEN "reading" ELSE "listing") \/ f.phase = "postings",
         ~Offline => told' = IF f.phase = "listing" /\ f.page = 1 THEN {} ELSE {f.total},
         Offline =>
           /\ told' = BodyTotals /\ BodiesAgree
           /\ f.phase = "reading" =>
                /\ f.seen = Captured(f.page - 1)
                /\ f.page > 1 => f.total = browser.bodies[1].total
           /\ f.phase = "postings" =>
                /\ f.page <= Len(browser.bodies)
                /\ f.seen \cup f.queue = Captured(f.page)
                /\ f.total = browser.bodies[1].total
                /\ f.total = browser.bodies[f.page].total,
         Calm' => told' \subseteq {Cardinality(site)}
  PROVE  SnapInv'
<1>0. /\ fetch' = f /\ PageLimit' = PageLimit /\ PageLimit \in Nat /\ PageLimit >= 1
      /\ Cardinality(Bare) \in Nat /\ Budget = 2 * PageLimit + Cardinality(Bare)
      /\ Cardinality(Bare \ f.seen) \in Nat /\ Listed' = Ids(f.records)
      /\ browser' = browser /\ f.page \in Nat
  <2>1. Bare \ f.seen \in SUBSET Bare
    OBVIOUS
  <2> QED BY <2>1, DarwinboxIs, BudgetStays DEF Proceeds, Listed, Ids, Fetch
<1>1. BodyTotals' = BodyTotals /\ (BodiesAgree' <=> BodiesAgree) /\ (Offline' <=> Offline)
      /\ \A k : Captured(k)' = Captured(k)
  BY <1>0, BodiesStay
<1>2. PagesTaken' = taken
  BY <1>0, <1>1, Zenon DEF PagesTaken
<1>3. taken <= 2 * PageLimit - 1
  <2>1. CASE Offline
    BY <1>0, <2>1
  <2>2. CASE ~Offline
    <3>1. taken = f.page - 1 \/ taken = f.page
      BY <2>2
    <3> QED BY <1>0, <3>1
  <2> QED BY <2>1, <2>2
<1>4. Counts
  <2> DEFINE b == Cardinality(Bare)
             c == Cardinality(Bare \ f.seen)
  <2>1. b \in Nat /\ c \in Nat /\ sent' + c <= b + taken /\ Budget = 2 * PageLimit + b
    BY <1>0
  <2> HIDE DEF b, c
  <2>2. sent' <= 2 * PageLimit + b
    <3>1. PageLimit \in Nat
      BY <1>0
    <3> QED BY <1>3, <2>1, <3>1, BudgetLeft, Zenon
  <2>3. sent' <= Budget
    BY <2>1, <2>2, Zenon
  <2> QED BY <2>3 DEF Counts
<1>5. ListingReads'
  <2>1. Captured(fetch.page - 1)' = Captured(f.page - 1) /\ Captured(fetch.page)' = Captured(f.page)
    BY <1>0, <1>1
  <2> QED BY <1>0, <1>1, <1>2, <2>1 DEF ListingReads
<1>6. f.phase \in {"listing", "reading", "postings"}
  OBVIOUS
<1>7. /\ browser' \in [bodies : Seq(Answer), trouble : SUBSET Nat]
      /\ \A k \in 1 .. Len(browser'.bodies) : browser'.bodies[k].jobs \subseteq Ever
  BY <1>0, DarwinboxIs
<1> QED BY <1>4, <1>5, <1>6, <1>7, DarwinboxGoesOn

LEMMA DarwinboxStartSnap ==
  ASSUME SnapInv, FetchInv, DarwinboxStart
  PROVE  SnapInv'
<1>0. /\ Running("darwinbox") /\ fetch.phase = "start" /\ fetch.phase \in Browsing \cup {"start"}
      /\ UNCHANGED <<adapter, site_vars, style, browser>> /\ browser' = browser
      /\ sent' = sent /\ odd' = odd /\ told' = told
  BY DEF DarwinboxStart, In, Silent
<1>1. /\ fetch.seen = {} /\ fetch.queue = {} /\ fetch.records = {} /\ told = BodyTotals
      /\ sent = 0 /\ browser.bodies = <<>> /\ browser.trouble = {}
  <2>1. BrowserReads
    BY <1>0, DarwinboxIs DEF DarwinboxReads
  <2> QED BY <1>0, <2>1 DEF BrowserReads
<1>2. BodyTotals = {} /\ ~Offline
  BY <1>1 DEF BodyTotals, Offline
<1>3. Calm' => Calm
  BY <1>0, SiteStays DEF Calm
<1>4. PICK p \in {"listing", "opening"} : Proceeds([fetch EXCEPT !.phase = p, !.page = 1])
  BY DEF DarwinboxStart
<1> DEFINE f == [fetch EXCEPT !.phase = p, !.page = 1]
<1>5. /\ f \in Fetch /\ f.phase = p /\ f.page = 1 /\ f.seen = fetch.seen
      /\ f.queue = fetch.queue /\ f.records = fetch.records /\ Proceeds(f)
  BY <1>0, <1>4, DarwinboxIs DEF Fetch
<1> HIDE DEF f
<1>6. CASE p = "opening"
  <2>1. f.phase \in Browsing /\ f.phase = "opening"
    BY <1>5, <1>6 DEF Browsing
  <2>2. BodyTotals' = BodyTotals
    BY <1>0, BodiesStay
  <2>3. /\ sent' \in Nat /\ odd' \in Nat /\ told' \in SUBSET Nat /\ sent' <= PageLimit
        /\ browser' \in [bodies : Seq(Answer), trouble : SUBSET Nat]
        /\ \A k \in 1 .. Len(browser'.bodies) : browser'.bodies[k].jobs \subseteq Ever
        /\ told' = BodyTotals'
        /\ Calm' => told' \subseteq {Cardinality(site)}
    BY <1>0, <1>1, <1>3, <2>2, DarwinboxIs
  <2> QED BY <1>0, <1>5, <2>1, <2>3, BrowserGoesOn
<1>7. CASE p = "listing"
  <2>1. /\ sent' \in Nat /\ odd' \in Nat /\ told' \in SUBSET Nat /\ told' = {}
        /\ f.seen \cup f.queue \subseteq Ever /\ f.page \in 1 .. PageLimit
        /\ Calm' => told' \subseteq {Cardinality(site)}
    BY <1>0, <1>1, <1>2, <1>3, <1>5, DarwinboxIs
  <2>2. Ids(f.records) = f.seen
    BY <1>1, <1>5, IdsAre
  <2>3. Bare \ f.seen = Bare /\ Cardinality(Bare) \in Nat
    BY <1>0, <1>1, <1>5, DarwinboxIs
  <2>4. sent' + Cardinality(Bare \ f.seen) <= Cardinality(Bare) + 0
    <3>1. Cardinality(Bare \ f.seen) = Cardinality(Bare)
      BY <2>3, Zenon
    <3> QED BY <1>0, <1>1, <2>3, <3>1
  <2>5. 0 \in Nat /\ 0 = IF Offline THEN 2 * PageLimit - 1
                         ELSE IF f.phase = "listing" THEN f.page - 1 ELSE f.page
    BY <1>2, <1>5, <1>7
  <2>6. f.phase = "listing" /\ f.queue = {}
    BY <1>1, <1>5, <1>7
  <2> QED BY <1>0, <1>2, <1>5, <2>1, <2>2, <2>4, <2>5, <2>6, ListingGoesOn
<1> QED BY <1>6, <1>7

LEMMA BrowserClosesSnap ==
  ASSUME SnapInv, FetchInv, BrowserCloses
  PROVE  SnapInv'
<1>0. /\ Running("darwinbox") /\ fetch.phase \in Browsing
      /\ UNCHANGED <<adapter, site_vars, style, browser>>
  BY DEF BrowserCloses, Browsing
<1>1. BrowserReads /\ told = BodyTotals
  BY <1>0, BrowserIs
<1>2. browser.trouble # {} => First(browser.trouble) \in Nat
  <2>1. browser.trouble \in SUBSET Nat
    BY <1>0, DarwinboxIs
  <2> QED BY <2>1, SmallestIsIn
<1>3. ASSUME Silent \/ Disturbed(0), NEW n \in Nat, Raises(n)
      PROVE  SnapInv'
  <2>1. sent' = sent /\ odd' \in Nat /\ told' = told
    BY <1>0, <1>3, DarwinboxIs DEF Silent, Disturbed
  <2> QED BY <1>0, <1>3, <2>1, DarwinboxIs, DarwinboxFails
<1>4. CASE browser.trouble # {} /\ Raises(First(browser.trouble)) /\ Silent
  BY <1>2, <1>3, <1>4
<1>5. CASE Disturbed(0) /\ Raises(IF browser.trouble # {} THEN First(browser.trouble)
                                                         ELSE Len(browser.bodies))
  <2>1. Len(browser.bodies) \in Nat
    BY <1>0, DarwinboxIs
  <2> QED BY <1>2, <1>3, <1>5, <2>1
<1>6. CASE /\ fetch.phase = "closed" /\ browser.trouble = {} /\ browser.bodies # <<>> /\ Silent
           /\ Proceeds([fetch EXCEPT !.phase = "reading", !.page = 1,
                                     !.requests = Len(browser.bodies)])
  <2> DEFINE n == Len(browser.bodies)
             f == [fetch EXCEPT !.phase = "reading", !.page = 1, !.requests = n]
  <2>1. /\ fetch.seen = {} /\ fetch.queue = {} /\ fetch.records = {}
        /\ sent <= 2 * PageLimit - 1 /\ BodiesAgree /\ Offline
    BY <1>1, <1>6 DEF BrowserReads, Offline
  <2>2. Proceeds(f)
    BY <1>6
  <2>3. n \in Nat /\ fetch \in Fetch
    BY <1>0, DarwinboxIs
  <2> HIDE DEF n
  <2>4. /\ f \in Fetch /\ f.phase = "reading" /\ f.page = 1 /\ f.seen = fetch.seen
        /\ f.queue = fetch.queue /\ f.records = fetch.records
    BY <2>3 DEF Fetch
  <2> HIDE DEF f
  <2>5. sent' = sent /\ odd' = odd /\ told' = told
    BY <1>6 DEF Silent
  <2>6. Calm' => told' \subseteq {Cardinality(site)}
    BY <1>0, <2>5, DarwinboxIs, SiteStays DEF Calm
  <2>7. Ids(f.records) = f.seen /\ f.seen = Captured(f.page - 1)
    <3>1. Captured(0) = {} /\ f.page - 1 = 0
      BY <2>4, CapturedIs
    <3> QED BY <2>1, <2>4, <3>1, IdsAre
  <2>8. /\ sent' \in Nat /\ odd' \in Nat /\ told' \in SUBSET Nat
        /\ f.seen \cup f.queue \subseteq Ever /\ f.page \in 1 .. PageLimit
        /\ ~(f.page > 1)
    BY <1>0, <2>1, <2>4, <2>5, DarwinboxIs
  <2>9. sent' + Cardinality(Bare \ f.seen) <= Cardinality(Bare) + (2 * PageLimit - 1)
    <3>1. Bare \ f.seen = Bare
      BY <2>1, <2>4
    <3>2. Cardinality(Bare) \in Nat /\ PageLimit \in Nat /\ sent \in Nat
      BY <1>0, DarwinboxIs
    <3>3. Cardinality(Bare \ f.seen) = Cardinality(Bare)
      BY <3>1, Zenon
    <3> QED BY <2>1, <2>5, <3>2, <3>3
  <2>10. 2 * PageLimit - 1 \in Nat
    BY <1>0, DarwinboxIs
  <2> QED BY <1>0, <1>1, <2>1, <2>2, <2>4, <2>5, <2>6, <2>7, <2>8, <2>9, <2>10, ListingGoesOn
<1> QED BY <1>4, <1>5, <1>6 DEF BrowserCloses

(* What holds while the listing is read.                                   *)
LEMMA ListingIs ==
  ASSUME SnapInv, FetchInv, Running("darwinbox"),
         fetch.phase \in {"listing", "reading", "postings"}
  PROVE  /\ ListingReads /\ fetch.requests = sent /\ PagesTaken \in Nat
         /\ PagesTaken <= 2 * PageLimit - 1
         /\ Cardinality(Bare \ fetch.seen) \in Nat
         /\ sent + Cardinality(Bare \ fetch.seen) <= Cardinality(Bare) + PagesTaken
         /\ Ids(fetch.records) = fetch.seen
<1>1. ListingReads /\ fetch.requests = sent
  BY DarwinboxIs, PendingIs DEF DarwinboxReads, Browsing
<1>2. PageLimit \in Nat /\ PageLimit >= 1 /\ fetch.page \in 1 .. PageLimit
  BY <1>1, DarwinboxIs DEF ListingReads
<1>3. PagesTaken \in Nat /\ PagesTaken <= 2 * PageLimit - 1
  BY <1>2 DEF PagesTaken
<1>4. Bare \ fetch.seen \in SUBSET Bare
  OBVIOUS
<1> QED BY <1>1, <1>3, <1>4, DarwinboxIs, IdsAre DEF ListingReads

LEMMA ListingFails ==
  ASSUME SnapInv, FetchInv, Running("darwinbox"),
         UNCHANGED <<adapter, site_vars, style, browser>>,
         fetch.phase \in {"listing", "reading", "postings"},
         sent' \in Nat, odd' \in Nat, told' \in SUBSET Nat,
         \/ sent' \in {sent, sent + 1}
         \/ sent' = sent + 2 /\ Cardinality(Bare \ fetch.seen) >= 1,
         NEW n \in Nat, Raises(n)
  PROVE  SnapInv'
<1> DEFINE b == Cardinality(Bare)
           c == Cardinality(Bare \ fetch.seen)
<1>1. /\ PageLimit \in Nat /\ PageLimit >= 1 /\ b \in Nat /\ Budget = 2 * PageLimit + b
      /\ sent \in Nat
  BY DarwinboxIs
<1>2. PagesTaken \in Nat /\ PagesTaken <= 2 * PageLimit - 1 /\ c \in Nat /\ sent + c <= b + PagesTaken
  BY ListingIs
<1> HIDE DEF b, c
<1>3. sent + c + 1 <= 2 * PageLimit + b /\ (c >= 1 => sent + 2 <= 2 * PageLimit + b)
      /\ sent + 1 <= 2 * PageLimit + b /\ sent <= 2 * PageLimit + b
  BY <1>1, <1>2
<1>4. sent' <= Budget
  BY <1>1, <1>3 DEF c
<1> QED BY <1>4, DarwinboxFails

LEMMA TakePageSnap ==
  ASSUME SnapInv, FetchInv, Running("darwinbox"),
         UNCHANGED <<adapter, site_vars, style, browser>>,
         fetch.phase = (IF Offline THEN "reading" ELSE "listing"),
         NEW answer, answer.jobs \subseteq Ever, answer.total \in Nat,
         NEW now \in Fetch, now.seen = fetch.seen, now.records = fetch.records,
         now.page = fetch.page, TakePage(answer, now),
         odd' \in Nat, told' \in SUBSET Nat, Calm' => told' \subseteq {Cardinality(site)},
         Offline => /\ sent' = sent /\ told' = told /\ fetch.page <= Len(browser.bodies)
                    /\ answer = browser.bodies[fetch.page],
         ~Offline => sent' = sent + 1 /\ told' = told \cup {answer.total}
  PROVE  SnapInv'
<1> DEFINE new == answer.jobs \ now.seen
           total == answer.total
           f == [now EXCEPT !.phase = "postings", !.queue = new, !.total = total]
           taken == IF Offline THEN 2 * PageLimit - 1 ELSE fetch.page
<1>1. /\ fetch.phase \in {"listing", "reading", "postings"} /\ fetch.phase # "postings"
      /\ sent' \in Nat /\ sent' \in {sent, sent + 1}
  BY DarwinboxIs
<1>2. \/ Raises(now.requests)
      \/ TotalIsKept(answer) /\ Proceeds(f)
  BY DEF TakePage
<1>3. CASE Raises(now.requests)
  <2>1. now.requests \in Nat
    BY DEF Fetch
  <2> QED BY <1>1, <1>3, <2>1, ListingFails
<1>4. CASE TotalIsKept(answer) /\ Proceeds(f)
  <2>1. ListingReads /\ Ids(fetch.records) = fetch.seen
    BY <1>1, ListingIs
  <2>2. new \in SUBSET Jobs /\ new \subseteq Ever /\ total \in Int /\ Proceeds(f)
    BY <1>4, DarwinboxIs
  <2>3. new \cap fetch.seen = {} /\ fetch.seen \cup new = fetch.seen \cup answer.jobs
    OBVIOUS
  <2> HIDE DEF new, total
  <2>4. /\ f \in Fetch /\ f.phase = "postings" /\ f.page = fetch.page /\ f.seen = fetch.seen
        /\ f.queue = new /\ f.total = total /\ f.records = fetch.records
    BY <2>2 DEF Fetch
  <2> HIDE DEF f
  <2>5. f.page \in 1 .. PageLimit /\ Ids(f.records) = f.seen /\ f.queue \cap f.seen = {}
    BY <2>1, <2>3, <2>4 DEF ListingReads
  <2>6. f.seen \cup f.queue \subseteq Ever
    BY <2>2, <2>4, DarwinboxIs
  <2>7. /\ taken \in Nat
        /\ sent' + Cardinality(Bare \ f.seen) <= Cardinality(Bare) + taken
    <3> DEFINE b == Cardinality(Bare)
               c == Cardinality(Bare \ fetch.seen)
    <3>1. /\ PageLimit \in Nat /\ PageLimit >= 1 /\ fetch.page \in Nat /\ fetch.page >= 1
          /\ sent \in Nat /\ b \in Nat /\ c \in Nat /\ sent + c <= b + PagesTaken
      <4>1. PageLimit \in Nat /\ PageLimit >= 1 /\ sent \in Nat /\ b \in Nat
        BY DarwinboxIs
      <4>2. c \in Nat /\ sent + c <= b + PagesTaken
        BY <1>1, ListingIs
      <4> QED BY <2>4, <2>5, <4>1, <4>2
    <3>2. c = Cardinality(Bare \ f.seen)
      BY <2>4
    <3> HIDE DEF b, c
    <3>3. CASE Offline
      <4>1. PagesTaken = 2 * PageLimit - 1 /\ taken = 2 * PageLimit - 1 /\ sent' = sent
        BY <3>3 DEF PagesTaken
      <4>2. taken \in Nat /\ sent' + c <= b + taken
        BY <3>1, <4>1
      <4> QED BY <3>2, <4>2 DEF b
    <3>4. CASE ~Offline
      <4>1. PagesTaken = fetch.page - 1 /\ taken = fetch.page /\ sent' = sent + 1
        BY <3>4 DEF PagesTaken
      <4>2. taken \in Nat /\ sent' + c <= b + taken
        BY <3>1, <4>1
      <4> QED BY <3>2, <4>2 DEF b
    <3> QED BY <3>3, <3>4
  <2>8. ~Offline => told' = {f.total}
    <3>1. ~Offline => told = IF fetch.page = 1 THEN {} ELSE {fetch.total}
      BY <2>1 DEF ListingReads
    <3> QED BY <1>4, <2>4, <3>1 DEF TotalIsKept, total
  <2>9. Offline => /\ told' = BodyTotals /\ BodiesAgree
                   /\ f.page <= Len(browser.bodies)
                   /\ f.seen \cup f.queue = Captured(f.page)
                   /\ f.total = browser.bodies[1].total
                   /\ f.total = browser.bodies[f.page].total
    <3> SUFFICES ASSUME Offline
                 PROVE  /\ told' = BodyTotals /\ BodiesAgree
                        /\ f.page <= Len(browser.bodies)
                        /\ f.seen \cup f.queue = Captured(f.page)
                        /\ f.total = browser.bodies[1].total
                        /\ f.total = browser.bodies[f.page].total
      OBVIOUS
    <3>1. /\ told = BodyTotals /\ BodiesAgree /\ fetch.seen = Captured(fetch.page - 1)
          /\ fetch.page > 1 => fetch.total = browser.bodies[1].total
      BY <2>1 DEF ListingReads
    <3>2. f.total = browser.bodies[fetch.page].total
      BY <2>4 DEF total
    <3>3. f.total = browser.bodies[1].total
      <4>1. CASE fetch.page = 1
        BY <3>2, <4>1
      <4>2. CASE fetch.page # 1
        <5>1. fetch.page > 1
          BY <2>4, <2>5, <4>2, DarwinboxIs
        <5>2. answer.total = fetch.total
          BY <1>4, <4>2 DEF TotalIsKept
        <5> QED BY <2>4, <3>1, <5>1, <5>2 DEF total
      <4> QED BY <4>1, <4>2
    <3>4. fetch.page \in Nat \ {0}
      BY <2>4, <2>5, DarwinboxIs
    <3>5. Captured(fetch.page) = Captured(fetch.page - 1) \cup browser.bodies[fetch.page].jobs
      BY <3>4, CapturedIs
    <3>6. fetch.seen \cup new = Captured(fetch.page)
      BY <2>3, <3>1, <3>5
    <3> QED BY <2>4, <3>1, <3>2, <3>3, <3>6
  <2>10. taken = IF Offline THEN 2 * PageLimit - 1
                 ELSE IF f.phase = "listing" THEN f.page - 1 ELSE f.page
    BY <2>4
  <2> HIDE DEF taken
  <2> QED BY <1>1, <2>2, <2>4, <2>5, <2>6, <2>7, <2>8, <2>9, <2>10, ListingGoesOn
<1> QED BY <1>2, <1>3, <1>4

LEMMA DarwinboxPageSnap ==
  ASSUME SnapInv, FetchInv, DarwinboxPage
  PROVE  SnapInv'
<1>0. /\ Running("darwinbox") /\ fetch.phase = "listing"
      /\ UNCHANGED <<adapter, site_vars, style, browser>>
  BY DEF DarwinboxPage, In
<1>1. ~Offline /\ fetch.requests = sent
  BY <1>0, ListingIs DEF ListingReads
<1>2. CASE Broken
  <2>1. /\ sent' = sent + 1 /\ odd' \in Nat /\ told' = told /\ Raises(sent + 1)
    BY <1>0, <1>1, <1>2, DarwinboxIs DEF Broken, Disturbed
  <2> QED BY <1>0, <2>1, DarwinboxIs, ListingFails
<1>3. ASSUME NEW answer \in Answers, Request(answer = TrueAnswer(fetch.page), {answer.total}),
             TakePage(answer, Counted)
      PROVE  SnapInv'
  <2>1. /\ answer.jobs \subseteq Ever /\ answer.total \in Nat
        /\ sent' = sent + 1 /\ odd' \in Nat /\ told' = told \cup {answer.total}
        /\ told' \in SUBSET Nat
        /\ odd' = 0 => odd = 0 /\ answer.total = Cardinality(site)
    BY <1>0, <1>3, DarwinboxIs, AnswerIs
  <2>2. /\ Counted \in Fetch /\ Counted.seen = fetch.seen /\ Counted.records = fetch.records
        /\ Counted.page = fetch.page
    BY <1>0, DarwinboxIs, CountedIsFetch
  <2>3. Calm' => told' \subseteq {Cardinality(site)}
    BY <1>0, <2>1, DarwinboxIs, SiteStays DEF Calm
  <2> QED BY <1>0, <1>1, <1>3, <2>1, <2>2, <2>3, TakePageSnap
<1> QED BY <1>2, <1>3 DEF DarwinboxPage

LEMMA DarwinboxReadSnap ==
  ASSUME SnapInv, FetchInv, DarwinboxRead
  PROVE  SnapInv'
<1>0. /\ Running("darwinbox") /\ fetch.phase = "reading"
      /\ UNCHANGED <<adapter, site_vars, style, browser>>
      /\ sent' = sent /\ odd' = odd /\ told' = told
  BY DEF DarwinboxRead, In, Silent
<1>1. Offline /\ fetch.page \in 1 .. PageLimit
  BY <1>0, ListingIs DEF ListingReads
<1>2. CASE fetch.page <= Len(browser.bodies) /\ TakePage(browser.bodies[fetch.page], fetch)
  <2>1. fetch.page \in 1 .. Len(browser.bodies)
    BY <1>0, <1>1, <1>2, DarwinboxIs
  <2>2. browser.bodies[fetch.page].jobs \subseteq Ever /\ browser.bodies[fetch.page].total \in Nat
    BY <1>0, <2>1, DarwinboxIs
  <2>3. Calm' => told' \subseteq {Cardinality(site)}
    BY <1>0, DarwinboxIs, SiteStays DEF Calm
  <2> QED BY <1>0, <1>1, <1>2, <2>2, <2>3, DarwinboxIs, TakePageSnap
<1>3. CASE Raises(fetch.requests)
  BY <1>0, <1>3, DarwinboxIs, ListingFails
<1> QED BY <1>2, <1>3 DEF DarwinboxRead

(* Each posting without a description takes one request, once.             *)
LEMMA BareIsLess ==
  ASSUME SnapInv, FetchInv, Running("darwinbox"), fetch.phase = "postings", NEW j \in fetch.queue
  PROVE  /\ Cardinality(Bare \ fetch.seen) \in Nat
         /\ Cardinality(Bare \ (fetch.seen \cup {j})) \in Nat
         /\ j \in Bare => Cardinality(Bare \ (fetch.seen \cup {j})) = Cardinality(Bare \ fetch.seen) - 1
         /\ j \notin Bare => Cardinality(Bare \ (fetch.seen \cup {j})) = Cardinality(Bare \ fetch.seen)
<1> DEFINE B == Bare \ fetch.seen
           C == Bare \ (fetch.seen \cup {j})
<1>1. j \notin fetch.seen
  BY ListingIs DEF ListingReads
<1>2. C = B \ {j} /\ (j \in Bare => j \in B) /\ (j \notin Bare => j \notin B)
      /\ B \in SUBSET Bare /\ C \in SUBSET Bare
  BY <1>1
<1>3. IsFiniteSet(B) /\ Cardinality(B) \in Nat /\ Cardinality(C) \in Nat
  BY <1>2, DarwinboxIs
<1> HIDE DEF B, C
<1>4. ASSUME j \in B PROVE Cardinality(B \ {j}) = Cardinality(B) - 1
  BY <1>3, <1>4, FS_RemoveElement
<1>5. ASSUME j \notin B PROVE C = B
  BY <1>2, <1>5
<1>6. Cardinality(C) = Cardinality(B \ {j})
  BY <1>2, Zenon
<1>7. j \notin B => Cardinality(C) = Cardinality(B)
  BY <1>5, Zenon
<1> QED BY <1>2, <1>3, <1>4, <1>6, <1>7 DEF B, C

LEMMA PostingIsTaken ==
  ASSUME SnapInv, FetchInv, In("darwinbox", "postings"),
         UNCHANGED <<adapter, site_vars, style, browser>>, NEW j \in fetch.queue,
         NEW f \in Fetch, Proceeds(f), f.phase = "postings", f.page = fetch.page,
         f.total = fetch.total, f.seen = fetch.seen \cup {j}, f.queue = fetch.queue \ {j},
         Ids(f.records) = fetch.seen \cup {j},
         odd' \in Nat, odd' = 0 => odd = 0, told' = told,
         sent' = sent \/ (sent' = sent + 1 /\ j \in Bare)
  PROVE  SnapInv'
<1>0. Running("darwinbox") /\ fetch.phase = "postings"
  BY DEF In
<1>1. ListingReads /\ fetch.queue \cap fetch.seen = {}
  BY <1>0, ListingIs DEF ListingReads
<1> DEFINE b == Cardinality(Bare)
           c == Cardinality(Bare \ fetch.seen)
           d == Cardinality(Bare \ f.seen)
<1>2. /\ PagesTaken \in Nat /\ sent \in Nat /\ b \in Nat /\ c \in Nat /\ sent + c <= b + PagesTaken
  BY <1>0, DarwinboxIs, ListingIs
<1>3. d \in Nat /\ (j \in Bare => d = c - 1) /\ (j \notin Bare => d = c)
  BY <1>0, BareIsLess
<1> HIDE DEF b, c, d
<1>4. sent' \in Nat /\ sent' + d <= b + PagesTaken
  <2>1. CASE sent' = sent
    <3>1. d <= c
      BY <1>2, <1>3
    <3> QED BY <1>2, <1>3, <2>1, <3>1
  <2>2. CASE sent' = sent + 1 /\ j \in Bare
    BY <1>2, <1>3, <2>2
  <2> QED BY <2>1, <2>2
<1>5. sent' + Cardinality(Bare \ f.seen) <= Cardinality(Bare) + PagesTaken
  BY <1>4 DEF b, d
<1>6. /\ told' \in SUBSET Nat /\ f.page \in 1 .. PageLimit /\ f.queue \cap f.seen = {}
      /\ f.seen \cup f.queue = fetch.seen \cup fetch.queue
      /\ f.seen \cup f.queue \subseteq Ever
  BY <1>0, <1>1, DarwinboxIs DEF ListingReads
<1>7. Calm' => told' \subseteq {Cardinality(site)}
  BY <1>0, DarwinboxIs, SiteStays DEF Calm
<1>8. ~Offline => told' = {f.total}
  BY <1>0, <1>1 DEF ListingReads
<1>9. Offline => /\ told' = BodyTotals /\ BodiesAgree
                 /\ f.page <= Len(browser.bodies)
                 /\ f.seen \cup f.queue = Captured(f.page)
                 /\ f.total = browser.bodies[1].total
                 /\ f.total = browser.bodies[f.page].total
  BY <1>0, <1>1, <1>6 DEF ListingReads
<1>10. PagesTaken = IF Offline THEN 2 * PageLimit - 1
                    ELSE IF f.phase = "listing" THEN f.page - 1 ELSE f.page
  BY <1>0 DEF PagesTaken
<1>11. Ids(f.records) = f.seen
  OBVIOUS
<1> QED BY <1>0, <1>2, <1>4, <1>5, <1>6, <1>7, <1>8, <1>9, <1>10, <1>11, ListingGoesOn

LEMMA DarwinboxPostingSnap ==
  ASSUME SnapInv, FetchInv, DarwinboxPosting
  PROVE  SnapInv'
<1> DEFINE j == First(fetch.queue)
<1>0. /\ In("darwinbox", "postings") /\ Running("darwinbox") /\ fetch.phase = "postings"
      /\ fetch.queue # {} /\ UNCHANGED <<adapter, site_vars, style, browser>>
  BY DEF DarwinboxPosting, In
<1>1. /\ fetch \in Fetch /\ Ever \in SUBSET Jobs /\ fetch.seen \cup fetch.queue \subseteq Ever
      /\ sent \in Nat /\ odd \in Nat /\ told \in SUBSET Nat /\ fetch.requests \in Nat
  BY <1>0, DarwinboxIs
<1>2. j \in fetch.queue /\ fetch.queue \subseteq Jobs
  BY <1>0, <1>1, FirstIsIn
<1>3. Ids(fetch.records) = fetch.seen
  BY <1>0, ListingIs
<1>4. ASSUME NEW k \in Jobs, NEW now \in Fetch, now.phase = fetch.phase, now.page = fetch.page,
             now.total = fetch.total, now.seen = fetch.seen, now.queue = fetch.queue,
             now.records = fetch.records,
             Proceeds([now EXCEPT !.seen = @ \cup {j}, !.queue = @ \ {j},
                                  !.records = @ \cup {<<j, k>>}]),
             odd' \in Nat, odd' = 0 => odd = 0, told' = told,
             sent' = sent \/ (sent' = sent + 1 /\ j \in Bare)
      PROVE  SnapInv'
  <2> DEFINE f == [now EXCEPT !.seen = @ \cup {j}, !.queue = @ \ {j},
                              !.records = @ \cup {<<j, k>>}]
  <2>1. Proceeds(f)
    BY <1>4
  <2>2. <<j, k>> \in Jobs \X Jobs /\ j \in Jobs
    BY <1>2
  <2> HIDE DEF j
  <2>3. /\ f \in Fetch /\ f.phase = "postings" /\ f.page = fetch.page /\ f.total = fetch.total
        /\ f.seen = fetch.seen \cup {j} /\ f.queue = fetch.queue \ {j}
        /\ f.records = fetch.records \cup {<<j, k>>}
    BY <1>0, <1>4, <2>2 DEF Fetch
  <2> HIDE DEF f
  <2>4. Ids(f.records) = fetch.seen \cup {j}
    <3>1. Ids(fetch.records \cup {<<j, k>>}) = Ids(fetch.records) \cup {j}
      BY IdsOfOne
    <3> QED BY <1>3, <2>3, <3>1
  <2> QED BY <1>0, <1>2, <1>4, <2>1, <2>3, <2>4, PostingIsTaken
<1>5. CASE j \notin Bare /\ Keeps(j, fetch) /\ Silent
  <2>1. sent' = sent /\ odd' = odd /\ told' = told
    BY <1>5 DEF Silent
  <2>2. CASE Raises(fetch.requests)
    BY <1>0, <1>1, <2>1, <2>2, ListingFails
  <2>3. CASE Proceeds([fetch EXCEPT !.seen = @ \cup {j}, !.queue = @ \ {j},
                                    !.records = @ \cup {<<j, j>>}])
    <3>1. j \in Jobs
      BY <1>2
    <3> HIDE DEF j
    <3> QED BY <1>1, <1>4, <2>1, <2>3, <3>1
  <2> QED BY <1>5, <2>2, <2>3 DEF Keeps
<1>6. CASE Refused(j) /\ Raises(fetch.requests + 1)
  <2>1. sent' = sent + 1 /\ odd' \in Nat /\ told' = told
    BY <1>1, <1>6 DEF Refused, Disturbed, Sends, Request
  <2> QED BY <1>0, <1>1, <1>6, <2>1, ListingFails
<1>7. ASSUME j \in Bare, NEW n \in {0, 2}, Disturbed(n), Raises(fetch.requests + n)
      PROVE  SnapInv'
  <2>1. sent' = sent + n /\ odd' \in Nat /\ told' = told
    BY <1>1, <1>7 DEF Disturbed
  <2>2. Cardinality(Bare \ fetch.seen) >= 1
    <3> DEFINE c == Cardinality(Bare \ fetch.seen)
               d == Cardinality(Bare \ (fetch.seen \cup {j}))
    <3>1. c \in Nat /\ d \in Nat /\ d = c - 1
      BY <1>0, <1>2, <1>7, BareIsLess
    <3> HIDE DEF c, d
    <3>2. c >= 1
      BY <3>1
    <3> QED BY <3>2 DEF c
  <2>3. fetch.requests + n \in Nat /\ sent' \in Nat /\ (sent' = sent \/ sent' = sent + 2)
    BY <1>1, <1>7, <2>1
  <2> QED BY <1>0, <1>1, <1>7, <2>1, <2>2, <2>3, ListingFails
<1>8. ASSUME j \in Bare, NEW k \in Ever, Sends(k = j),
             \/ Raises(fetch.requests + 1)
             \/ Proceeds([Counted EXCEPT !.seen = @ \cup {j}, !.queue = @ \ {j},
                                         !.records = @ \cup {<<j, k>>}])
      PROVE  SnapInv'
  <2>1. sent' = sent + 1 /\ odd' \in Nat /\ told' = told /\ (odd' = 0 => odd = 0)
    BY <1>1, <1>8 DEF Sends, Request
  <2>2. CASE Raises(fetch.requests + 1)
    BY <1>0, <1>1, <2>1, <2>2, ListingFails
  <2>3. CASE Proceeds([Counted EXCEPT !.seen = @ \cup {j}, !.queue = @ \ {j},
                                      !.records = @ \cup {<<j, k>>}])
    <3> DEFINE now == Counted
    <3>1. Proceeds([now EXCEPT !.seen = @ \cup {j}, !.queue = @ \ {j},
                               !.records = @ \cup {<<j, k>>}])
      BY <2>3
    <3>2. /\ now \in Fetch /\ now.phase = fetch.phase /\ now.page = fetch.page
          /\ now.total = fetch.total /\ now.seen = fetch.seen /\ now.queue = fetch.queue
          /\ now.records = fetch.records /\ k \in Jobs
      BY <1>1, CountedIsFetch
    <3> HIDE DEF now, j
    <3> QED BY <1>4, <1>8, <2>1, <3>1, <3>2
  <2> QED BY <1>8, <2>2, <2>3
<1>9. ASSUME j \in Bare, NEW k \in Ever, Sends(k = j),
             IF ~DetailIsOf(k, j) THEN Raises(fetch.requests + 1)
             ELSE IF j \in Untitled THEN Raises(fetch.requests + 1)
             ELSE Proceeds([Counted EXCEPT !.seen = @ \cup {j}, !.queue = @ \ {j},
                                           !.records = @ \cup {<<j, k>>}])
      PROVE  SnapInv'
  BY <1>8, <1>9
<1> QED BY <1>5, <1>6, <1>7, <1>9, Zenon DEF DarwinboxPosting

(* The fetch ends with as many postings as the total, which is then the    *)
(* total of every listing: another one is only at the end of the browser's *)
(* bodies, and those before it are too few.                                *)
LEMMA OneTotalIsTold ==
  ASSUME SnapInv, FetchInv, In("darwinbox", "postings"), fetch.queue = {},
         Cardinality(fetch.seen) = fetch.total
  PROVE  told = {Cardinality(Listed)}
<1>0. Running("darwinbox") /\ fetch.phase = "postings"
  BY DEF In
<1>1. ListingReads /\ Listed = fetch.seen
  BY <1>0, ListingIs DEF ListingReads
<1>2. CASE ~Offline
  BY <1>0, <1>1, <1>2 DEF ListingReads
<1>3. CASE Offline
  <2> DEFINE n == Len(browser.bodies)
             total == browser.bodies[1].total
  <2>1. /\ told = BodyTotals /\ BodiesAgree /\ fetch.page \in 1 .. PageLimit
        /\ fetch.page <= n /\ fetch.seen = Captured(fetch.page)
        /\ fetch.total = total /\ fetch.total = browser.bodies[fetch.page].total
    BY <1>0, <1>1, <1>3 DEF ListingReads
  <2>2. n \in Nat /\ fetch.page \in Nat /\ fetch.page >= 1 /\ 1 \in 1 .. n
    BY <1>0, <2>1, DarwinboxIs
  <2>3. ASSUME NEW k \in 1 .. n PROVE browser.bodies[k].total = total
    <3>1. CASE k = n /\ n > 1 /\ Cardinality(Captured(n - 1)) < total
      <4>1. CASE fetch.page = n
        BY <2>1, <3>1, <4>1
      <4>2. CASE fetch.page # n
        <5>1. fetch.page <= n - 1 /\ n - 1 \in Nat /\ n - 1 \in 0 .. n
          BY <2>1, <2>2, <4>2
        <5>2. Captured(fetch.page) \subseteq Captured(n - 1)
          BY <2>2, <5>1, CapturedIs
        <5>3. IsFiniteSet(Captured(n - 1)) /\ Cardinality(Captured(n - 1)) \in Nat
          BY <1>0, <5>1, CapturedFits
        <5>4. Cardinality(Captured(fetch.page)) <= Cardinality(Captured(n - 1))
          BY <5>2, <5>3, FS_Subset
        <5>5. Cardinality(Captured(fetch.page)) = total /\ total \in Nat
          BY <1>0, <2>1, <2>2, DarwinboxIs
        <5> QED BY <3>1, <5>3, <5>4, <5>5
      <4> QED BY <4>1, <4>2
    <3>2. CASE browser.bodies[k].total = browser.bodies[1].total
      BY <3>2
    <3> QED BY <2>1, <3>1, <3>2 DEF BodiesAgree
  <2>4. BodyTotals = {total}
    BY <2>2, <2>3 DEF BodyTotals
  <2> QED BY <1>1, <2>1, <2>4
<1> QED BY <1>2, <1>3

LEMMA DarwinboxPageEndsSnap ==
  ASSUME SnapInv, FetchInv, DarwinboxPageEnds
  PROVE  SnapInv'
<1>0. /\ In("darwinbox", "postings") /\ Running("darwinbox") /\ fetch.phase = "postings"
      /\ UNCHANGED <<adapter, site_vars, style, browser>> /\ fetch.queue = {} /\ Silent
  BY DEF DarwinboxPageEnds, In
<1>1. ListingReads /\ fetch.requests = sent /\ Ids(fetch.records) = fetch.seen
  BY <1>0, ListingIs
<1>2. sent' = sent /\ odd' = odd /\ told' = told
  BY <1>0 DEF Silent
<1>3. CASE Cardinality(fetch.seen) = fetch.total /\ Returns(fetch)
  <2>1. told = {Cardinality(Listed)}
    BY <1>0, <1>3, OneTotalIsTold
  <2> QED BY <1>0, <1>1, <1>3, <2>1, DarwinboxIs, TotalReturns
<1>4. CASE Raises(fetch.requests)
  BY <1>0, <1>2, <1>4, DarwinboxIs, ListingFails
<1>5. CASE /\ fetch.page < PageLimit
           /\ Proceeds([fetch EXCEPT !.page = @ + 1,
                !.phase = IF browser.bodies = <<>> THEN "listing" ELSE "reading"])
  <2> DEFINE p == IF Offline THEN "reading" ELSE "listing"
             m == fetch.page + 1
             f == [fetch EXCEPT !.page = m, !.phase = p]
  <2>1. Proceeds(f)
    BY <1>5 DEF Offline
  <2>2. /\ fetch.page \in Nat /\ m \in Nat /\ m \in 1 .. PageLimit /\ m - 1 = fetch.page
        /\ m > 1 /\ m # 1 /\ fetch \in Fetch /\ p \in {"reading", "listing"}
        /\ PageLimit \in Nat /\ PageLimit >= 1
    <3>1. fetch.page \in 1 .. PageLimit
      BY <1>1 DEF ListingReads
    <3>2. PageLimit \in Nat /\ PageLimit >= 1 /\ fetch.page \in Nat /\ fetch \in Fetch
      BY <1>0, DarwinboxIs
    <3> QED BY <1>5, <3>1, <3>2
  <2> HIDE DEF m, p
  <2>3. /\ f \in Fetch /\ f.phase = p /\ f.page = m /\ f.total = fetch.total
        /\ f.seen = fetch.seen /\ f.queue = fetch.queue /\ f.records = fetch.records
    BY <2>2 DEF Fetch
  <2> HIDE DEF f
  <2>4. /\ f.phase = (IF Offline THEN "reading" ELSE "listing") /\ f.phase # "postings"
        /\ f.queue = {} /\ f.seen \cup f.queue \subseteq Ever /\ f.page \in 1 .. PageLimit
        /\ Ids(f.records) = f.seen
    BY <1>0, <1>1, <2>2, <2>3, DarwinboxIs DEF p
  <2>5. /\ PagesTaken \in Nat
        /\ sent' + Cardinality(Bare \ f.seen) <= Cardinality(Bare) + PagesTaken
    BY <1>0, <1>2, <2>3, ListingIs
  <2>6. PagesTaken = IF Offline THEN 2 * PageLimit - 1
                     ELSE IF f.phase = "listing" THEN f.page - 1 ELSE f.page
    BY <1>0, <2>2, <2>3, <2>4 DEF PagesTaken
  <2>7. ~Offline => told' = {f.total} /\ f.page # 1
    BY <1>0, <1>1, <1>2, <2>2, <2>3 DEF ListingReads
  <2>8. Offline => /\ told' = BodyTotals /\ BodiesAgree
                   /\ f.seen = Captured(f.page - 1)
                   /\ f.total = browser.bodies[1].total
    BY <1>0, <1>1, <1>2, <2>2, <2>3 DEF ListingReads
  <2>9. /\ sent' \in Nat /\ odd' \in Nat /\ told' \in SUBSET Nat
        /\ Calm' => told' \subseteq {Cardinality(site)}
    BY <1>0, <1>2, DarwinboxIs, SiteStays DEF Calm
  <2> QED BY <1>0, <2>1, <2>3, <2>4, <2>5, <2>6, <2>7, <2>8, <2>9, ListingGoesOn
<1> QED BY <1>3, <1>4, <1>5 DEF DarwinboxPageEnds

LEMMA DarwinboxSnap ==
  ASSUME SnapInv, FetchInv, DarwinboxNext
  PROVE  SnapInv'
BY DarwinboxStartSnap, BrowserEmitsSnap, BrowserLooksSnap, BrowserClicksSnap, BrowserClosesSnap,
   DarwinboxPageSnap, DarwinboxReadSnap, DarwinboxPostingSnap, DarwinboxPageEndsSnap
   DEF DarwinboxNext
-----------------------------------------------------------------------------
(* The start of a fetch, and what happens beside it.                       *)
LEMMA BeginSnap ==
  ASSUME SnapInv, NEW a \in Keys \cup {"linkedin"}, a \in Adapters,
         NEW accepted \in BOOLEAN, Begin(a, accepted)
  PROVE  SnapInv'
<1>1. /\ outcome = "idle" /\ adapter' = a /\ site' \in SUBSET Jobs /\ snaps' = {site'}
      /\ style' \in StylesOf(a) /\ odd' = odd /\ sent' = sent /\ told' = told
      /\ browser' = browser /\ reported' = reported
      /\ fetch' = [fetch EXCEPT !.at = IF style'.landing THEN 0 ELSE 1]
      /\ outcome' \in {"pending", "raised"}
  BY DEF Begin
<1>2. Untouched /\ FetchTypeOK
  BY <1>1 DEF SnapInv
<1>3. style' \in [pager : Pagers, landing : BOOLEAN] /\ (a = "generic" => style'.pager # "none")
  <2>1. CASE a = "generic"
    <3>1. style' \in [pager : Pagers \ {"none"}, landing : BOOLEAN]
      BY <1>1, <2>1 DEF StylesOf
    <3> QED BY <3>1
  <2>2. CASE a # "generic"
    <3>1. style' = NoStyle
      BY <1>1, <2>2 DEF StylesOf
    <3> QED BY <2>2, <3>1 DEF NoStyle, Pagers
  <2> QED BY <2>1, <2>2
<1> DEFINE at == IF style'.landing THEN 0 ELSE 1
<1>4. /\ Cardinality(Jobs) \in Nat /\ MaxPages[a] \in Nat /\ MaxPages[a] > 0
      /\ MaxRequests \in Nat /\ MaxRequests > 0 /\ MaxDetails \in Nat /\ Cardinality(Bare) \in Nat
  BY JobsAreFinite, FetchAssumption DEF FetchAssumption
<1>5. at \in {0, 1} /\ at \in Addresses /\ (at = 0 => style'.landing)
  BY <1>3, <1>4 DEF Addresses
<1> HIDE DEF at
<1>6. fetch' = [fetch EXCEPT !.at = at]
  BY <1>1 DEF at
<1>7. /\ fetch' \in Fetch /\ fetch'.at = at /\ fetch'.phase = "start" /\ fetch'.page = 0
      /\ fetch'.skip = 0 /\ fetch'.seen = {} /\ fetch'.queue = {} /\ fetch'.records = {}
      /\ fetch'.asked = {} /\ fetch'.requests = 0
  BY <1>2, <1>5, <1>6 DEF FetchTypeOK, Untouched, Fetch
<1>8. FetchTypeOK'
  BY <1>1, <1>2, <1>3, <1>7 DEF FetchTypeOK
<1>9. PageLimit' = MaxPages[a] /\ sent' = 0 /\ odd' = 0 /\ told' = {}
      /\ browser'.bodies = <<>> /\ browser'.trouble = {}
  BY <1>1, <1>2 DEF PageLimit, Untouched
<1>10. Budget' >= 0
  <2>1. CASE a \in {"lever", "darwinbox", "dreamjobs", "jazzhr", "zoho_recruit"}
    BY <1>1, <1>4, <1>9, <2>1 DEF Budget
  <2>2. CASE a = "linkedin" \/ a = "generic"
    <3>1. Min({MaxRequests, PageLimit'}) \in Nat
      BY <1>4, <1>9, MinOfTwo
    <3> QED BY <1>1, <1>4, <2>2, <3>1 DEF Budget
  <2> QED BY <2>1, <2>2 DEF Keys, Selectable
<1>11. RequestsAreBounded'
  BY <1>9, <1>10 DEF RequestsAreBounded
<1>12. Listed' = {}
  BY <1>7 DEF Listed
<1>13. ASSUME NEW j \in site' PROVE Rank(j)' \in Nat
  <2>1. {i \in site' : i < j} \in SUBSET Jobs
    BY <1>1
  <2>2. Cardinality({i \in site' : i < j}) \in Nat
    BY <2>1, JobsAreFinite
  <2> QED BY <2>2 DEF Rank
<1>14. LeverReads'
  BY <1>4, <1>7, <1>9, <1>12, <1>13 DEF LeverReads
<1>15. DarwinboxReads'
  <2>1. Len(browser'.bodies) = 0 /\ 1 .. Len(browser'.bodies) = {}
    BY <1>9
  <2>2. BodyTotals' = {}
    BY <2>1 DEF BodyTotals
  <2>3. BrowserReads'
    BY <1>7, <1>9, <2>2 DEF BrowserReads
  <2> QED BY <1>7, <1>9, <2>1, <2>3 DEF DarwinboxReads
<1>16. DreamJobsReads' /\ JazzHRReads' /\ ZohoReads'
  BY <1>7, <1>9 DEF DreamJobsReads, JazzHRReads, ZohoReads
<1>17. LinkedInReads'
  <2>1. Offset(fetch'.requests) = 0
    BY <1>7 DEF Offset
  <2> QED BY <1>7, <1>12, <1>13, <2>1 DEF LinkedInReads
<1>18. ASSUME a = "generic" PROVE GenericReads'
  <2>1. LastPage' \in Nat
    <3>1. Cardinality(site') \in Nat
      BY <1>1, JobsAreFinite
    <3> QED BY <3>1, PagesForIs DEF LastPage
  <2>2. \A b \in 1 .. LastPage' : ~(b < fetch'.at)
    BY <1>5, <1>7, <2>1
  <2>3. GoesOnAt(fetch.at, fetch.asked, fetch.seen)'
    BY <1>5, <1>7, <2>2 DEF GoesOnAt
  <2> QED BY <1>3, <1>4, <1>7, <1>9, <1>18, <2>3 DEF GenericReads
<1>19. Progress'
  BY <1>1, <1>14, <1>15, <1>16, <1>17, <1>18 DEF Progress
<1> QED BY <1>1, <1>7, <1>8, <1>11, <1>12, <1>19 DEF SnapInv

(* The site may change while a fetch runs; nothing else does then.         *)
LEMMA OthersStay ==
  ASSUME SnapInv, site' \in SUBSET Jobs, snaps' \in SUBSET SUBSET Jobs, site' \in snaps',
         UNCHANGED <<adapter, style, odd, sent, told, fetch, browser, outcome, reported>>,
         snaps \subseteq snaps', Calm' => Calm /\ UNCHANGED site_vars,
         outcome # "pending" => UNCHANGED site_vars
  PROVE  SnapInv'
<1>1. /\ adapter' = adapter /\ style' = style /\ odd' = odd /\ sent' = sent /\ told' = told
      /\ fetch' = fetch /\ browser' = browser /\ outcome' = outcome /\ reported' = reported
      /\ Ever \subseteq Ever' /\ browser'.bodies = browser.bodies
  BY DEF Ever
<1>2. PageLimit' = PageLimit /\ Budget' = Budget /\ Listed' = Listed /\ Skipped' = Skipped
  BY <1>1, BudgetStays DEF Listed, Skipped
<1>3. FetchTypeOK' /\ RequestsAreBounded'
  BY <1>1, <1>2 DEF SnapInv, FetchTypeOK, RequestsAreBounded
<1>4. ASSUME UNCHANGED site_vars
      PROVE  /\ site' = site /\ snaps' = snaps /\ \A j : Rank(j)' = Rank(j)
  BY <1>4, SiteStays
<1>5. outcome = "idle" => Untouched'
  BY <1>1, <1>4 DEF SnapInv, Untouched
<1>6. outcome = "returned" => Complete'
  BY <1>1, <1>2, <1>4 DEF SnapInv, Complete, TotalsAreReached
<1>7. ASSUME outcome = "pending" PROVE Progress'
  <2>0. Progress
    BY <1>7 DEF SnapInv
  <2>1. LeverReads => LeverReads'
    BY <1>1, <1>2, <1>4 DEF LeverReads
  <2>2. LinkedInReads => LinkedInReads'
    BY <1>1, <1>2, <1>4 DEF LinkedInReads
  <2>3. DreamJobsReads => DreamJobsReads'
    BY <1>1, <1>2, <1>4 DEF DreamJobsReads, EveryJobIsSeen
  <2>4. JazzHRReads => JazzHRReads'
    BY <1>1, <1>2 DEF JazzHRReads
  <2>5. ZohoReads => ZohoReads'
    BY <1>1 DEF ZohoReads
  <2>6. GenericReads => GenericReads'
    <3> SUFFICES ASSUME GenericReads PROVE GenericReads'
      OBVIOUS
    <3>1. Least' = Least
      BY <1>2 DEF Least
    <3>2. UNCHANGED site_vars =>
            (GoesOnAt(fetch.at, fetch.asked, fetch.seen)' <=> GoesOnAt(fetch.at, fetch.asked, fetch.seen))
      <4> DEFINE at == fetch.at
                 asked == fetch.asked
                 seen == fetch.seen
      <4>1. ASSUME UNCHANGED site_vars, NEW x, NEW y, NEW z
            PROVE  GoesOnAt(x, y, z)' <=> GoesOnAt(x, y, z)
        BY <1>1, <4>1, GenericStays
      <4> QED BY <1>1, <4>1
    <3>3. fetch'.phase = "start" => (Calm' => GoesOnAt(fetch.at, fetch.asked, fetch.seen)')
      BY <1>1, <3>2 DEF GenericReads
    <3>4. fetch'.phase = "details" => (Calm' => fetch'.seen = site')
      BY <1>1, <1>4 DEF GenericReads
    <3> QED BY <1>1, <1>2, <3>1, <3>3, <3>4 DEF GenericReads
  <2>7. DarwinboxReads => DarwinboxReads'
    <3> SUFFICES ASSUME DarwinboxReads PROVE DarwinboxReads'
      OBVIOUS
    <3>1. BodyTotals' = BodyTotals /\ (BodiesAgree' <=> BodiesAgree) /\ (Offline' <=> Offline)
          /\ \A k : Captured(k)' = Captured(k)
      BY <1>1, BodiesStay
    <3>2. BrowserReads => BrowserReads'
      BY <1>1, <1>2, <3>1 DEF BrowserReads
    <3>3. PagesTaken' = PagesTaken
      BY <1>1, <1>2, <3>1 DEF PagesTaken
    <3>4. Captured(fetch.page)' = Captured(fetch.page) /\ Captured(fetch.page - 1)' = Captured(fetch.page - 1)
      <4>1. ASSUME NEW k PROVE Captured(k)' = Captured(k)
        BY <3>1
      <4> QED BY <1>1, <4>1
    <3>5. ListingReads => ListingReads'
      BY <1>1, <1>2, <3>1, <3>3, <3>4 DEF ListingReads
    <3>6. \A k \in 1 .. Len(browser'.bodies) : browser'.bodies[k].jobs \subseteq Ever'
      BY <1>1 DEF DarwinboxReads
    <3>7. Calm' => told' \subseteq {Cardinality(site')}
      BY <1>1, <1>4 DEF DarwinboxReads
    <3> QED BY <1>1, <3>2, <3>5, <3>6, <3>7 DEF DarwinboxReads
  <2> QED BY <1>1, <2>0, <2>1, <2>2, <2>3, <2>4, <2>5, <2>6, <2>7 DEF Progress
<1> QED BY <1>1, <1>2, <1>3, <1>5, <1>6, <1>7 DEF SnapInv

LEMMA SnapStep ==
  ASSUME SnapInv, FetchInv, DetectionInv, [Next]_vars
  PROVE  SnapInv'
<1>1. CASE UNCHANGED fetchVars
  <2>1. /\ UNCHANGED <<adapter, style, odd, sent, told, fetch, browser, outcome, reported>>
        /\ UNCHANGED site_vars /\ site' = site /\ snaps' = snaps
    BY <1>1 DEF fetchVars, site_vars
  <2>2. site \in SUBSET Jobs /\ snaps \in SUBSET SUBSET Jobs /\ site \in snaps
    BY DEF SnapInv, FetchTypeOK
  <2>3. Calm' => Calm
    BY <2>1 DEF Calm
  <2> QED BY <2>1, <2>2, <2>3, OthersStay
<1>2. CASE SiteChanges
  <2>1. /\ UNCHANGED <<adapter, style, odd, sent, told, fetch, browser, outcome, reported>>
        /\ outcome = "pending" /\ site' \in SUBSET Jobs /\ site' # site
        /\ snaps' = snaps \cup {site'}
    <3>1. outcome = "pending" /\ site' \in (SUBSET Jobs) \ {site} /\ snaps' = snaps \cup {site'}
      BY <1>2, Zenon DEF SiteChanges
    <3>2. UNCHANGED <<adapter, style, odd, sent, told, fetch, browser, outcome, reported>>
      BY <1>2, Zenon DEF SiteChanges
    <3> QED BY <3>1, <3>2
  <2>2. site \in SUBSET Jobs /\ snaps \in SUBSET SUBSET Jobs /\ site \in snaps
    BY DEF SnapInv, FetchTypeOK
  <2>3. ~Calm'
    BY <2>1, <2>2 DEF Calm
  <2> QED BY <2>1, <2>2, <2>3, OthersStay
<1>3. CASE BeginFetch
  <2>1. ASSUME NEW s \in sources, Begin(s.source, Accepts(s.source, s.url))
        PROVE  SnapInv'
    <3>1. s.source \in Keys /\ Accepts(s.source, s.url)
      BY DEF DetectionInv, SourceOK
    <3>2. s.source \in Adapters
      BY <3>1, RegistryAssumption DEF Keys
    <3>3. Begin(s.source, TRUE)
      BY <2>1, <3>1 DEF Begin
    <3> QED BY <3>1, <3>2, <3>3, BeginSnap
  <2>2. CASE "linkedin" \in Adapters /\ Begin("linkedin", TRUE)
    BY <2>2, BeginSnap
  <2> QED BY <1>3, <2>1, <2>2 DEF BeginFetch
<1>4. CASE FetchNext
  BY <1>4, LeverSnap, DarwinboxSnap, DreamJobsPageSnap, DreamJobsListedSnap, DreamJobsDetailSnap,
     DreamJobsReturnsSnap, JazzHRListingSnap, JazzHRDetailSnap, JazzHRReturnsSnap, ZohoSnap,
     LinkedInSnap, GenericPageSnap, GenericDetailSnap, GenericReturnsSnap
     DEF FetchNext, DreamJobsNext, JazzHRNext, GenericNext
<1>5. SubmitUrl \/ CrawlUrl => UNCHANGED fetchVars
  BY DEF SubmitUrl, CrawlUrl
<1> QED BY <1>1, <1>2, <1>3, <1>4, <1>5 DEF Next, Detection, vars

LEMMA SnapInit == Init => SnapInv
<1> SUFFICES ASSUME Init PROVE SnapInv
  OBVIOUS
<1>1. FetchInit
  BY DEF Init
<1>2. 1 \in Addresses
  BY JobsAreFinite DEF Addresses
<1>3. fetch \in Fetch /\ fetch.seen = {} /\ fetch.queue = {} /\ fetch.records = {}
  BY <1>1, <1>2 DEF FetchInit, Fetch
<1>4. FetchTypeOK
  BY <1>1, <1>3 DEF FetchInit, FetchTypeOK, NoStyle, Pagers
<1>5. Untouched
  BY <1>1 DEF FetchInit, Untouched
<1>6. outcome = "idle" /\ Listed = {}
  BY <1>1, <1>3 DEF FetchInit, Listed
<1> QED BY <1>3, <1>4, <1>5, <1>6 DEF SnapInv, RequestsAreBounded

LEMMA SnapAlways == Spec => [](SnapInv /\ FetchInv /\ DetectionInv)
<1>1. Spec => []SnapInv
  BY SnapInit, SnapStep, FetchAlways, DetectionAlways, PTL DEF Spec
<1> QED BY <1>1, FetchAlways, DetectionAlways, PTL

-----------------------------------------------------------------------------
(* A batch of Darwinbox or DreamJobs holds as many postings as every total *)
(* that was told while it was fetched, whatever odd pages, totals and      *)
(* changes of the site came between: none of them makes a batch look       *)
(* complete by accident.                                                   *)
THEOREM AdaptersReachTotals == Spec => []TotalsAreReached
<1>1. SnapInv => TotalsAreReached
  <2> SUFFICES ASSUME SnapInv, outcome = "returned" PROVE TotalsAreReached
    BY DEF TotalsAreReached
  <2> QED BY DEF SnapInv, Complete
<1> QED BY <1>1, SnapAlways, PTL

(* No adapter sends more requests than its limits allow, whatever the site *)
(* answers: pages, details, clicks and captured listings together stay     *)
(* within the budget of the platform.                                      *)
THEOREM AdaptersBoundRequests == Spec => []RequestsAreBounded
<1>1. SnapInv => RequestsAreBounded
  BY DEF SnapInv
<1> QED BY <1>1, SnapAlways, PTL

(* Every local variable of every adapter keeps its type.                   *)
THEOREM AdaptersType == Spec => []FetchTypeOK
<1>1. SnapInv => FetchTypeOK
  BY DEF SnapInv
<1> QED BY <1>1, SnapAlways, PTL

-----------------------------------------------------------------------------
(* What any step of any adapter does to the variables that SnapshotFetch   *)
(* sees: the site, the adapter and the style stay, an odd answer is never  *)
(* forgotten, and the fetch goes on or ends.                               *)
Moves ==
  /\ outcome = "pending" /\ UNCHANGED <<adapter, site_vars, style>>
  /\ odd' = odd \/ odd' = odd + 1
  /\ outcome' = outcome \/ outcome' = "raised" \/ outcome' = "returned"

LEMMA FollowsMoves ==
  ASSUME NEW r, NEW now, Follows(r, now)
  PROVE  outcome' = outcome \/ outcome' = "raised"
BY DEF Follows, Extracts, Proceeds, Raises

LEMMA TakePageMoves ==
  ASSUME NEW answer, NEW now, TakePage(answer, now)
  PROVE  outcome' = outcome \/ outcome' = "raised"
BY DEF TakePage, Proceeds, Raises

LEMMA GenericMoves == ASSUME GenericNext PROVE Moves
<1>1. CASE GenericPage
  <2>1. outcome = "pending" /\ UNCHANGED <<adapter, site_vars, style>>
    BY <1>1 DEF GenericPage, In, Running
  <2>2. /\ odd' = odd \/ odd' = odd + 1
        /\ outcome' = outcome \/ outcome' = "raised" \/ outcome' = "returned"
    BY <1>1, FollowsMoves
       DEF GenericPage, Disturbed, Broken, Escapes, Raises, Silent, Sends, Request
  <2> QED BY <2>1, <2>2 DEF Moves
<1>2. CASE GenericDetail
  <2>1. outcome = "pending" /\ UNCHANGED <<adapter, site_vars, style>>
    BY <1>2 DEF GenericDetail, In, Running
  <2>2. /\ odd' = odd \/ odd' = odd + 1
        /\ outcome' = outcome \/ outcome' = "raised" \/ outcome' = "returned"
    BY <1>2
       DEF GenericDetail, Disturbed, Escapes, Raises, Proceeds, Silent, Sends, Request
  <2> QED BY <2>1, <2>2 DEF Moves
<1>3. CASE GenericReturns
  BY <1>3 DEF GenericReturns, In, Running, Silent, Returns, Moves
<1> QED BY <1>1, <1>2, <1>3 DEF GenericNext

LEMMA DarwinboxMoves == ASSUME DarwinboxNext PROVE Moves
<1>1. outcome = "pending"
  BY DEF DarwinboxNext, DarwinboxStart, BrowserEmits, BrowserLooks, BrowserClicks, BrowserCloses,
         DarwinboxPage, DarwinboxRead, DarwinboxPosting, DarwinboxPageEnds, In, Running
<1>2. UNCHANGED <<adapter, site_vars, style>>
  BY DEF DarwinboxNext, DarwinboxStart, BrowserEmits, BrowserLooks, BrowserClicks, BrowserCloses,
         DarwinboxPage, DarwinboxRead, DarwinboxPosting, DarwinboxPageEnds
<1>3. odd' = odd \/ odd' = odd + 1
  <2>1. Responds \/ RespondsBadly => odd' = odd \/ odd' = odd + 1
    BY DEF Responds, RespondsBadly, Sends, Request
  <2>2. CASE DarwinboxStart \/ BrowserEmits \/ BrowserLooks \/ BrowserCloses
    BY <2>1, <2>2
       DEF DarwinboxStart, BrowserEmits, BrowserLooks, BrowserCloses, Silent, Disturbed
  <2>3. CASE BrowserClicks
    BY <2>1, <2>3 DEF BrowserClicks, Silent, Disturbed
  <2>4. CASE DarwinboxPage \/ DarwinboxRead
    BY <2>4 DEF DarwinboxPage, DarwinboxRead, Silent, Broken, Disturbed, Request
  <2>5. CASE DarwinboxPosting
    BY <2>5 DEF DarwinboxPosting, Silent, Refused, Disturbed, Sends, Request
  <2>6. CASE DarwinboxPageEnds
    BY <2>6 DEF DarwinboxPageEnds, Silent
  <2> QED BY <2>2, <2>3, <2>4, <2>5, <2>6 DEF DarwinboxNext
<1>4. outcome' = outcome \/ outcome' = "raised" \/ outcome' = "returned"
  <2>1. CASE DarwinboxStart \/ BrowserEmits \/ BrowserLooks \/ BrowserCloses
    BY <2>1 DEF DarwinboxStart, BrowserEmits, BrowserLooks, BrowserCloses, Proceeds, Raises
  <2>2. CASE BrowserClicks
    BY <2>2 DEF BrowserClicks, Stops, Proceeds
  <2>3. CASE DarwinboxPage \/ DarwinboxRead
    BY <2>3, TakePageMoves DEF DarwinboxPage, DarwinboxRead, Broken, Raises
  <2>4. CASE DarwinboxPosting
    BY <2>4 DEF DarwinboxPosting, Keeps, Proceeds, Raises
  <2>5. CASE DarwinboxPageEnds
    BY <2>5 DEF DarwinboxPageEnds, Proceeds, Raises, Returns
  <2> QED BY <2>1, <2>2, <2>3, <2>4, <2>5 DEF DarwinboxNext
<1> QED BY <1>1, <1>2, <1>3, <1>4 DEF Moves

LEMMA DreamJobsMoves == ASSUME DreamJobsNext PROVE Moves
<1>1. outcome = "pending" /\ UNCHANGED <<adapter, site_vars, style>>
  BY DEF DreamJobsNext, DreamJobsFirstPage, DreamJobsPage, DreamJobsListed, DreamJobsDetail,
         DreamJobsReturns, In, Running
<1>2. odd' = odd \/ odd' = odd + 1
  <2>1. CASE DreamJobsFirstPage \/ DreamJobsPage
    BY <2>1 DEF DreamJobsFirstPage, DreamJobsPage, NoCallLeft, Broken, Disturbed, Silent, Request
  <2>2. CASE DreamJobsDetail
    BY <2>2 DEF DreamJobsDetail, NoCallLeft, Refused, Disturbed, Silent, Sends, Request
  <2>3. CASE DreamJobsListed \/ DreamJobsReturns
    BY <2>3 DEF DreamJobsListed, DreamJobsReturns, Silent
  <2> QED BY <2>1, <2>2, <2>3 DEF DreamJobsNext
<1>3. outcome' = outcome \/ outcome' = "raised" \/ outcome' = "returned"
  <2>1. CASE DreamJobsFirstPage \/ DreamJobsPage
    BY <2>1 DEF DreamJobsFirstPage, DreamJobsPage, NoCallLeft, Broken, Raises, Proceeds
  <2>2. CASE DreamJobsDetail
    BY <2>2 DEF DreamJobsDetail, NoCallLeft, Raises, Proceeds
  <2>3. CASE DreamJobsListed \/ DreamJobsReturns
    BY <2>3 DEF DreamJobsListed, DreamJobsReturns, Raises, Proceeds, Returns
  <2> QED BY <2>1, <2>2, <2>3 DEF DreamJobsNext
<1> QED BY <1>1, <1>2, <1>3 DEF Moves

LEMMA FetchMoves == ASSUME FetchNext PROVE Moves
<1>1. CASE LeverPage
  <2>1. outcome = "pending" /\ UNCHANGED <<adapter, site_vars, style>>
    BY <1>1 DEF LeverPage, Running
  <2>2. odd' = odd \/ odd' = odd + 1
    BY <1>1 DEF LeverPage, Broken, Disturbed, Sends, Request
  <2>3. outcome' = outcome \/ outcome' = "raised" \/ outcome' = "returned"
    BY <1>1 DEF LeverPage, Broken, Raises, Proceeds, Returns
  <2> QED BY <2>1, <2>2, <2>3 DEF Moves
<1>2. CASE LinkedInBatch
  <2>1. outcome = "pending" /\ UNCHANGED <<adapter, site_vars, style>>
    BY <1>2 DEF LinkedInBatch, Running
  <2>2. odd' = odd \/ odd' = odd + 1
    BY <1>2 DEF LinkedInBatch, Broken, Silent, Disturbed, Sends, Request
  <2>3. outcome' = outcome \/ outcome' = "raised" \/ outcome' = "returned"
    BY <1>2 DEF LinkedInBatch, Broken, Raises, Proceeds, Returns
  <2> QED BY <2>1, <2>2, <2>3 DEF Moves
<1>3. CASE ZohoListing
  <2>1. outcome = "pending" /\ UNCHANGED <<adapter, site_vars, style>>
    BY <1>3 DEF ZohoListing, Running
  <2>2. odd' = odd \/ odd' = odd + 1
    BY <1>3 DEF ZohoListing, Broken, Disturbed, Sends, Request
  <2>3. outcome' = outcome \/ outcome' = "raised" \/ outcome' = "returned"
    BY <1>3 DEF ZohoListing, Broken, Raises, Returns
  <2> QED BY <2>1, <2>2, <2>3 DEF Moves
<1>4. CASE JazzHRNext
  <2>1. outcome = "pending" /\ UNCHANGED <<adapter, site_vars, style>>
    BY <1>4 DEF JazzHRNext, JazzHRListing, JazzHRDetail, JazzHRReturns, In, Running
  <2>2. odd' = odd \/ odd' = odd + 1
    BY <1>4 DEF JazzHRNext, JazzHRListing, JazzHRDetail, JazzHRReturns, Broken, Refused,
                Disturbed, Silent, Sends, Request
  <2>3. outcome' = outcome \/ outcome' = "raised" \/ outcome' = "returned"
    BY <1>4 DEF JazzHRNext, JazzHRListing, JazzHRDetail, JazzHRReturns, Broken, Raises,
                Proceeds, Returns
  <2> QED BY <2>1, <2>2, <2>3 DEF Moves
<1> QED BY <1>1, <1>2, <1>3, <1>4, DreamJobsMoves, DarwinboxMoves, GenericMoves DEF FetchNext

(* A step of an adapter is nothing, Work, Return or Raise.                 *)
LEMMA FetchImplements ==
  ASSUME SnapInv, SnapInv', FetchNext
  PROVE  Snapshot!SnapshotNext \/ UNCHANGED Snapshot!snapshotVars
<1>1. /\ outcome = "pending" /\ adapter' = adapter /\ site' = site /\ snaps' = snaps
      /\ odd' = odd \/ odd' = odd + 1
      /\ outcome' = outcome \/ outcome' = "raised" \/ outcome' = "returned"
  BY FetchMoves DEF Moves, site_vars
<1>2. odd \in Nat /\ odd' \in Nat /\ Skipped' = Skipped /\ Batch = {} /\ Ever' = Ever
  BY <1>1 DEF SnapInv, FetchTypeOK, Skipped, Batch, Ever
<1>3. odd' = 0 => odd = 0
  BY <1>1, <1>2
<1>4. CASE outcome' = "pending" /\ odd = 0 /\ odd' # 0
  <2>1. Batch' = {}
    BY <1>4 DEF Batch
  <2>2. Snapshot!Work
    BY <1>1, <1>2, <1>4, <2>1 DEF Snapshot!Work
  <2> QED BY <2>2 DEF Snapshot!SnapshotNext
<1>5. CASE outcome' = "pending" /\ (odd = 0 <=> odd' = 0)
  <2>1. Batch' = {}
    BY <1>5 DEF Batch
  <2> QED BY <1>1, <1>2, <1>5, <2>1 DEF Snapshot!snapshotVars
<1>6. CASE outcome' = "raised"
  <2>1. Batch' = {}
    BY <1>6 DEF Batch
  <2>2. Snapshot!Raise
    BY <1>1, <1>2, <1>3, <1>6, <2>1 DEF Snapshot!Raise
  <2> QED BY <2>2 DEF Snapshot!SnapshotNext
<1>7. CASE outcome' = "returned"
  <2>1. Batch' = Listed' /\ Listed' \subseteq Ever /\ Complete'
    BY <1>2, <1>7 DEF Batch, SnapInv
  <2>2. Batch' \in SUBSET UNION snaps
    BY <2>1 DEF Ever
  <2>3. ASSUME odd' = 0, adapter' \in OneListing \/ snaps' = {site'}
        PROVE  \E s \in snaps : Batch' = s \ Skipped
    BY <1>1, <1>2, <2>1, <2>3 DEF Complete
  <2>4. Snapshot!Exact' => \E s \in snaps : Batch' = s \ Skipped
    BY <2>3 DEF Snapshot!Exact
  <2>5. (odd' = 0) \in {odd = 0, FALSE}
    BY <1>2, <1>3
  <2>6. Snapshot!Return
    BY <1>1, <1>2, <1>7, <2>2, <2>4, <2>5 DEF Snapshot!Return
  <2> QED BY <2>6 DEF Snapshot!SnapshotNext
<1> QED BY <1>1, <1>3, <1>4, <1>5, <1>6, <1>7

(* A fetch that begins is Begins, a change of the site is Publish.         *)
LEMMA OthersImplement ==
  ASSUME SnapInv, SnapInv', SiteChanges \/ BeginFetch
  PROVE  Snapshot!SnapshotNext
<1>1. CASE SiteChanges
  <2>1. /\ outcome = "pending" /\ site' \in (SUBSET Jobs) \ {site} /\ snaps' = snaps \cup {site'}
        /\ UNCHANGED <<adapter, style, odd, sent, told, fetch, browser, outcome, reported>>
    BY <1>1 DEF SiteChanges
  <2>2. Skipped' = Skipped /\ Batch = {} /\ Batch' = {} /\ adapter' = adapter /\ odd' = odd
        /\ outcome' = outcome
    BY <2>1 DEF Skipped, Batch
  <2>3. Snapshot!Publish
    BY <2>1, <2>2 DEF Snapshot!Publish
  <2> QED BY <2>3 DEF Snapshot!SnapshotNext
<1>2. CASE BeginFetch
  <2>1. /\ outcome = "idle" /\ outcome' \in {"pending", "raised"}
        /\ site' \in SUBSET Jobs /\ snaps' = {site'} /\ odd' = odd
    BY <1>2 DEF BeginFetch, Begin
  <2>2. Skipped' \in SUBSET Jobs /\ Batch = {} /\ Batch' = {}
    BY <2>1, FetchAssumption DEF FetchAssumption, Skipped, Batch
  <2>3. Snapshot!Begins
    BY <2>1, <2>2 DEF Snapshot!Begins
  <2> QED BY <2>3 DEF Snapshot!SnapshotNext
<1> QED BY <1>1, <1>2

(* Every adapter implements SnapshotFetch.  A fetch ends once.  What it    *)
(* returns was published while it ran; and unless an answer was odd, or a  *)
(* listing of several pages changed meanwhile, it is exactly one           *)
(* publication of the site, less what a generic page cannot name: nothing  *)
(* that reconciliation would count as gone is missing from it.             *)
THEOREM AdaptersAreSnapshots == Spec => IsSnapshotFetch
<1>1. Init => Snapshot!SnapshotInit
  <2> SUFFICES ASSUME Init PROVE Snapshot!SnapshotInit
    OBVIOUS
  <2>1. /\ site = {} /\ snaps = {{}} /\ odd = 0 /\ adapter = "none" /\ outcome = "idle"
    BY DEF Init, FetchInit
  <2>2. Skipped = {} /\ Batch = {} /\ adapter \notin OneListing
    BY <2>1 DEF Skipped, Batch, OneListing
  <2> QED BY <2>1, <2>2 DEF Snapshot!SnapshotInit
<1>2. /\ SnapInv /\ SnapInv' /\ [Next]_vars
      => [Snapshot!SnapshotNext]_Snapshot!snapshotVars
  <2> SUFFICES ASSUME SnapInv, SnapInv', [Next]_vars
               PROVE  Snapshot!SnapshotNext \/ UNCHANGED Snapshot!snapshotVars
    OBVIOUS
  <2>1. CASE UNCHANGED fetchVars
    BY <2>1 DEF fetchVars, Snapshot!snapshotVars, Skipped, Batch, Listed
  <2>2. CASE FetchNext
    BY <2>2, FetchImplements
  <2>3. CASE SiteChanges \/ BeginFetch
    BY <2>3, OthersImplement
  <2>4. SubmitUrl \/ CrawlUrl => UNCHANGED fetchVars
    BY DEF SubmitUrl, CrawlUrl
  <2> QED BY <2>1, <2>2, <2>3, <2>4 DEF Next, Detection, vars
<1> QED BY <1>1, <1>2, SnapAlways, PTL DEF Spec, IsSnapshotFetch, Snapshot!SnapshotSpec

(***************************************************************************)
(* Why a fetch fails. As long as the answers are of one publication and    *)
(* the site serves its adapter, a fetch is never given up: the invariant   *)
(* says where each adapter is then, and that the limits which the site     *)
(* stays below leave room for the rest of it.                              *)
(***************************************************************************)
Before(n) == {j \in site : Rank(j) < n}

LeverRoom == fetch.skip = fetch.page * PageSize

DreamJobsRoom ==
  LET n == Cardinality(site) IN
  /\ fetch.phase = "start" => fetch.requests = 0
  /\ fetch.phase = "listing" =>
       /\ fetch.page \in 1 .. Needed(n) /\ fetch.requests = fetch.page
       /\ fetch.seen = Before(fetch.page * PageSize)
  /\ fetch.phase = "details" =>
       fetch.requests + Cardinality(fetch.queue) = Needed(n) + n

(* The batches so far are those of the offsets, none was empty, and a      *)
(* batch that brought nothing new comes after one with the last posting.   *)
LinkedInRoom ==
  LET r == fetch.requests
      n == Cardinality(site)
  IN
  /\ \A p \in fetch.shown : \E i \in Nat : i < r /\ p = Window(Offset(i), PageSize)
  /\ \A i \in Nat : i < r => Offset(i) < n
  /\ fetch.seen = IF r = 0 THEN {} ELSE Before(Offset(r - 1) + PageSize)
  /\ fetch.overlap > 0 =>
       \E m \in Nat : r = m + fetch.overlap + 1 /\ Offset(m) + PageSize >= n

(* Every page of a generic site is asked for once.                         *)
GenericPages == (IF style.landing THEN {0} ELSE {}) \cup 1 .. LastPage
GenericRoom ==
  fetch.phase = "start" =>
    /\ fetch.page = Cardinality(fetch.asked) /\ fetch.requests = fetch.page
    /\ fetch.asked \cup {fetch.at} \subseteq GenericPages /\ fetch.at \notin fetch.asked
    /\ fetch.at = 0 => fetch.asked = {}
    /\ fetch.seen \subseteq UNION {Shows(a) : a \in fetch.asked}

(* Every body is the page with its number, and when the browser is closed  *)
(* they are all of the listing.                                            *)
DarwinboxRoom ==
  LET n == Cardinality(site)
      bodies == Len(browser.bodies)
  IN
  /\ browser.trouble = {} /\ \A k \in 1 .. bodies : browser.bodies[k] = TrueAnswer(k)
  /\ fetch.phase = "clicking" => fetch.page <= bodies
  /\ fetch.phase = "closed" \/ (fetch.phase \notin Browsing /\ Offline) =>
       n <= bodies * PageSize /\ bodies > 0
  /\ fetch.phase \in {"listing", "reading"} =>
       /\ fetch.seen = Before((fetch.page - 1) * PageSize)
       /\ fetch.page > 1 => fetch.total = n /\ (fetch.page - 1) * PageSize < n
  /\ fetch.phase = "postings" =>
       /\ fetch.seen \cup fetch.queue = Before(fetch.page * PageSize)
       /\ fetch.total = n

Room ==
  /\ adapter = "lever" => LeverRoom
  /\ adapter = "darwinbox" => DarwinboxRoom
  /\ adapter = "dreamjobs" => DreamJobsRoom
  /\ adapter = "linkedin" => LinkedInRoom
  /\ adapter = "generic" => GenericRoom

CauseInv ==
  outcome # "idle" =>
    /\ adapter \in Keys \cup {"linkedin"}
    /\ Calm /\ Serves => outcome # "raised" /\ (outcome = "pending" => Room)
-----------------------------------------------------------------------------
(* What a step of an adapter leaves as it was.                             *)
LEMMA CalmStays ==
  ASSUME SnapInv, FetchNext, Calm'
  PROVE  /\ Calm /\ outcome = "pending" /\ odd = 0 /\ odd' = 0
         /\ adapter' = adapter /\ site' = site /\ snaps' = snaps /\ style' = style
         /\ PageLimit' = PageLimit /\ \A j : Rank(j)' = Rank(j)
         /\ outcome' \in {"pending", "raised", "returned"}
<1>1. /\ outcome = "pending" /\ UNCHANGED <<adapter, site_vars, style>>
      /\ odd' = odd \/ odd' = odd + 1
      /\ outcome' = outcome \/ outcome' = "raised" \/ outcome' = "returned"
  BY FetchMoves DEF Moves
<1>2. odd \in Nat /\ odd' = 0
  BY DEF SnapInv, FetchTypeOK, Calm
<1>3. odd = 0
  BY <1>1, <1>2
<1> QED BY <1>1, <1>2, <1>3, SiteStays, BudgetStays DEF Calm

(* So it is enough that the fetch does not fail while the site serves.     *)
LEMMA CauseKept ==
  ASSUME SnapInv, CauseInv, FetchNext,
         Calm' /\ Calm /\ Serves' /\ (Serves => Room)
           => outcome' # "raised" /\ (outcome' = "pending" => Room')
  PROVE  CauseInv'
<1>1. adapter' = adapter /\ outcome = "pending"
  BY FetchMoves DEF Moves
<1> QED BY <1>1, CalmStays DEF CauseInv

(* Postings before a rank.                                                 *)
LEMMA BeforeIs ==
  ASSUME site \in SUBSET Jobs
  PROVE  /\ \A j \in site : Rank(j) \in Nat /\ Rank(j) < Cardinality(site)
         /\ \A n \in Nat : /\ Before(n) \subseteq site
                           /\ \A j \in site : j \in Before(n) <=> Rank(j) < n
                           /\ Before(n) = site <=> Cardinality(site) <= n
         /\ Before(0) = {} /\ Cardinality(site) \in Nat
<1>1. Cardinality(site) \in Nat
  BY JobsAreFinite
<1>2. \A j \in site : Rank(j) \in Nat /\ Rank(j) < Cardinality(site)
  BY <1>1, RanksGrow
<1>3. ASSUME NEW n \in Nat
      PROVE  /\ Before(n) \subseteq site
             /\ \A j \in site : j \in Before(n) <=> Rank(j) < n
             /\ Before(n) = site <=> Cardinality(site) <= n
  <2>1. Before(n) \subseteq site /\ \A j \in site : j \in Before(n) <=> Rank(j) < n
    BY DEF Before
  <2>2. CASE Cardinality(site) <= n
    <3>1. \A j \in site : Rank(j) < n
      BY <1>1, <1>2, <2>2
    <3> QED BY <2>1, <2>2, <3>1
  <2>3. CASE n < Cardinality(site)
    <3>1. n \in 0 .. Cardinality(site) - 1
      BY <1>1, <2>3
    <3>2. PICK j \in site : Rank(j) = n
      BY <3>1, RanksAreAll
    <3> QED BY <1>1, <2>1, <2>3, <3>2
  <2> QED BY <1>1, <2>1, <2>2, <2>3
<1>4. Before(0) = {}
  <2>1. \A j \in site : ~(Rank(j) < 0)
    BY <1>2
  <2> QED BY <2>1 DEF Before
<1> QED BY <1>1, <1>2, <1>3, <1>4

(* The next page of a listing of which those before were seen.             *)
LEMMA NextWindow ==
  ASSUME site \in SUBSET Jobs, NEW skip \in Nat, NEW n \in Nat \ {0}
  PROVE  /\ Before(skip) \cup Window(skip, n) = Before(skip + n)
         /\ Before(skip) \cap Window(skip, n) = {}
         /\ Window(skip, n) = {} <=> Cardinality(site) <= skip
         /\ Cardinality(site) < skip + n => Cardinality(Window(skip, n)) < n
<1>1. /\ \A j \in site : Rank(j) \in Nat /\ Rank(j) < Cardinality(site)
      /\ Cardinality(site) \in Nat
  BY BeforeIs
<1>2. /\ Window(skip, n) \subseteq site
      /\ \A j \in site : j \in Window(skip, n) <=> skip <= Rank(j) /\ Rank(j) < skip + n
  BY WindowIs
<1>3. /\ Before(skip) \subseteq site /\ Before(skip + n) \subseteq site
      /\ \A j \in site : j \in Before(skip) <=> Rank(j) < skip
      /\ \A j \in site : j \in Before(skip + n) <=> Rank(j) < skip + n
  BY DEF Before
<1>4. Before(skip) \cup Window(skip, n) = Before(skip + n)
  <2>1. \A j \in site : Rank(j) < skip + n <=>
          Rank(j) < skip \/ (skip <= Rank(j) /\ Rank(j) < skip + n)
    BY <1>1
  <2> QED BY <1>2, <1>3, <2>1
<1>5. Before(skip) \cap Window(skip, n) = {}
  <2>1. \A j \in site : ~(Rank(j) < skip /\ skip <= Rank(j))
    BY <1>1
  <2> QED BY <1>2, <1>3, <2>1
<1>6. CASE Cardinality(site) <= skip
  <2>1. \A j \in site : ~(skip <= Rank(j))
    BY <1>1, <1>6
  <2>2. Window(skip, n) = {}
    BY <1>2, <2>1
  <2>3. Cardinality({}) = 0
    BY FS_EmptySet
  <2>4. Cardinality(Window(skip, n)) < n
    BY <2>2, <2>3
  <2> QED BY <1>4, <1>5, <1>6, <2>2, <2>4
<1>7. CASE skip < Cardinality(site)
  <2>1. skip \in 0 .. Cardinality(site) - 1
    BY <1>1, <1>7
  <2>2. PICK j \in site : Rank(j) = skip
    BY <2>1, RanksAreAll
  <2>3. Window(skip, n) # {}
    BY <1>2, <2>2
  <2>4. ASSUME Cardinality(site) < skip + n PROVE Cardinality(Window(skip, n)) < n
    <3> DEFINE m == Cardinality(site) - skip
    <3>1. m \in Nat /\ m < n
      BY <1>1, <1>7, <2>4
    <3>2. \A i \in site : Rank(i) < skip + m
      BY <1>1
    <3> HIDE DEF m
    <3>3. /\ Window(skip, m) \subseteq site
          /\ \A i \in site : i \in Window(skip, m) <=> skip <= Rank(i) /\ Rank(i) < skip + m
      BY <3>1, WindowIs
    <3>4. \A i \in site : Rank(i) < skip + n
      BY <1>1, <2>4
    <3>5. Window(skip, n) = Window(skip, m)
      BY <1>2, <3>2, <3>3, <3>4
    <3>6. Cardinality(Window(skip, m)) <= m
      BY <3>1, WindowFits
    <3>7. Cardinality(Window(skip, n)) \in Nat
      BY <1>2, JobsAreFinite
    <3> QED BY <3>1, <3>5, <3>6, <3>7
  <2> QED BY <1>1, <1>4, <1>5, <1>7, <2>3, <2>4
<1> QED BY <1>1, <1>6, <1>7

-----------------------------------------------------------------------------
(* Lever: a page brings new postings, and the last one is not full.        *)
LEMMA LeverCause ==
  ASSUME SnapInv, FetchInv, CauseInv, LeverPage
  PROVE  CauseInv'
<1>0. outcome = "pending" /\ adapter = "lever" /\ FetchNext
  BY DEF LeverPage, Running, FetchNext
<1> SUFFICES ASSUME Calm', Calm, Serves', Serves => Room
             PROVE  outcome' # "raised" /\ (outcome' = "pending" => Room')
  BY <1>0, CauseKept
<1>1. /\ odd = 0 /\ odd' = 0 /\ adapter' = adapter /\ site' = site /\ PageLimit' = PageLimit
  BY <1>0, CalmStays
<1>2. Cardinality(site) < PageSize * PageLimit /\ LeverRoom
  BY <1>0, <1>1 DEF Serves, LeverServes, Room
<1>3. /\ fetch \in Fetch /\ site \in SUBSET Jobs /\ PageSize \in Nat \ {0} /\ PageLimit \in Nat
      /\ LeverReads /\ fetch.page \in Nat /\ fetch.skip \in Nat /\ Ever = site
      /\ Cardinality(site) \in Nat /\ fetch.seen \subseteq site
  <2>1. fetch \in Fetch /\ LeverReads /\ fetch.seen \subseteq Ever
    BY <1>0, PendingIs DEF Progress
  <2> QED BY <1>0, <2>1, PendingIs, CalmSite, BeforeIs DEF Fetch
<1>4. ~Broken
  BY <1>1 DEF Broken, Disturbed
<1>5. PICK page \in Pages :
        LET new == page \ fetch.seen
            now == [Counted EXCEPT !.page = @ + 1, !.skip = @ + LeverSkips(page),
                      !.seen = @ \cup page, !.records = @ \cup LeverRecords(new)]
        IN  /\ Sends(page = Window(fetch.skip, PageSize))
            /\ CASE page = {} -> Returns(now)
                 [] page # {} /\ new = {} -> Raises(now.requests)
                 [] new # {} /\ LeverEnds(page) -> Returns(now)
                 [] new # {} /\ ~LeverEnds(page) /\ now.page < PageLimit -> Proceeds(now)
                 [] OTHER -> Raises(now.requests)
  BY <1>4, Zenon DEF LeverPage
<1> DEFINE new == page \ fetch.seen
           now == [Counted EXCEPT !.page = @ + 1, !.skip = @ + LeverSkips(page),
                     !.seen = @ \cup page, !.records = @ \cup LeverRecords(new)]
<1>6. page = Window(fetch.skip, PageSize)
  BY <1>1, <1>5 DEF Sends, Request
<1>7. page # {} => new # {}
  <2>1. fetch.seen = Before(fetch.skip)
    <3>1. \A j \in site : j \in fetch.seen <=> Rank(j) < fetch.skip
      BY <1>3 DEF LeverReads
    <3> QED BY <1>3, <3>1, BeforeIs
  <2> QED BY <1>3, <1>6, <2>1, NextWindow
<1>8. now.page = fetch.page + 1 /\ now.skip = fetch.skip + Cardinality(page)
  <2> DEFINE c == Counted
             p == c.page + 1
             n == c.skip + Cardinality(page)
             R == c.records \cup Same(new)
  <2>1. c \in Fetch /\ c.page = fetch.page /\ c.skip = fetch.skip
    BY <1>3, CountedIsFetch
  <2>2. now = [c EXCEPT !.page = p, !.skip = n, !.seen = @ \cup page, !.records = R]
    BY Zenon DEF c, p, n, R, LeverSkips, LeverRecords
  <2> HIDE DEF c, p, n, R, new, now
  <2>3. now.page = p /\ now.skip = n
    BY <2>1, <2>2 DEF Fetch
  <2> QED BY <2>1, <2>3 DEF p, n
<1>9. /\ page = {} => Returns(now)
      /\ page # {} /\ Cardinality(page) < PageSize => Returns(now)
      /\ page # {} /\ ~(Cardinality(page) < PageSize) /\ now.page < PageLimit => Proceeds(now)
  BY <1>5, <1>7 DEF LeverEnds
<1> HIDE DEF now
<1>10. CASE Cardinality(page) < PageSize \/ page = {}
  BY <1>9, <1>10 DEF Returns
<1>11. CASE ~(Cardinality(page) < PageSize) /\ page # {}
  <2>1. Cardinality(page) = PageSize
    <3>1. Cardinality(page) <= PageSize /\ Cardinality(page) \in Nat
      BY <1>3, <1>6, WindowFits, WindowIs, JobsAreFinite
    <3> QED BY <1>3, <1>11, <3>1
  <2>2. fetch.skip + PageSize <= Cardinality(site)
    BY <1>3, <1>6, <1>11, NextWindow
  <2>3. fetch.skip = fetch.page * PageSize
    BY <1>2 DEF LeverRoom
  <2>4. (fetch.page + 1) * PageSize = fetch.skip + PageSize
    BY <1>3, <2>3
  <2>5. fetch.page + 1 < PageLimit
    <3> DEFINE p == fetch.page + 1
    <3>1. p * PageSize < PageSize * PageLimit
      BY <1>2, <1>3, <2>2, <2>4
    <3>2. p >= PageLimit => p * PageSize >= PageSize * PageLimit
      BY <1>3
    <3> QED BY <1>3, <3>1, <3>2
  <2>6. Proceeds(now)
    BY <1>8, <1>9, <1>11, <2>5
  <2>7. fetch' = now /\ outcome' = "pending"
    BY <1>0, <2>6 DEF Proceeds
  <2>8. LeverRoom'
    BY <1>8, <2>1, <2>4, <2>7 DEF LeverRoom
  <2> QED BY <1>0, <1>1, <2>7, <2>8 DEF Room
<1> QED BY <1>10, <1>11

-----------------------------------------------------------------------------
(* Zoho Recruit: what is below the limit is shown as a whole.              *)
LEMMA ZohoCause ==
  ASSUME SnapInv, FetchInv, CauseInv, ZohoListing
  PROVE  CauseInv'
<1>0. outcome = "pending" /\ adapter = "zoho_recruit" /\ FetchNext
  BY DEF ZohoListing, Running, FetchNext
<1> SUFFICES ASSUME Calm', Calm, Serves', Serves => Room
             PROVE  outcome' # "raised" /\ (outcome' = "pending" => Room')
  BY <1>0, CauseKept
<1>1. /\ odd = 0 /\ odd' = 0 /\ adapter' = adapter /\ site' = site
  BY <1>0, CalmStays
<1>2. Verifiable(site) /\ site \cap Untitled = {}
  BY <1>0, <1>1 DEF Serves, ZohoServes, Verifiable
<1>3. ~Broken
  BY <1>1 DEF Broken, Disturbed
<1>4. PICK page \in SUBSET Ever :
        /\ Sends(page = Shown)
        /\ IF Verifiable(page) /\ page \cap Untitled = {}
           THEN Returns([Counted EXCEPT !.seen = page, !.records = Same(page)])
           ELSE Raises(fetch.requests + 1)
  BY <1>3, Zenon DEF ZohoListing
<1>5. page = Shown
  BY <1>1, <1>4 DEF Sends, Request
<1>6. page = site
  <2>1. /\ site \in SUBSET Jobs /\ Cardinality(site) < ListingLimit
        /\ Shown \in SUBSET site /\ (Cardinality(Shown) < ListingLimit => Shown = site)
    BY <1>0, <1>2, PendingIs, ShownIs DEF Verifiable
  <2>2. /\ Cardinality(Shown) \in Nat /\ Cardinality(Shown) <= Cardinality(site)
        /\ Cardinality(site) \in Nat /\ ListingLimit \in Nat
    BY <2>1, JobsAreFinite, FetchAssumption DEF FetchAssumption
  <2> QED BY <1>5, <2>1, <2>2
<1>7. outcome' = "returned"
  BY <1>2, <1>4, <1>6 DEF Returns
<1> QED BY <1>7

-----------------------------------------------------------------------------
(* JazzHR: every posting of the listing is there, and describes itself.    *)
LEMMA JazzHRCause ==
  ASSUME SnapInv, FetchInv, CauseInv, JazzHRNext
  PROVE  CauseInv'
<1>0. outcome = "pending" /\ adapter = "jazzhr" /\ FetchNext
  BY DEF JazzHRNext, JazzHRListing, JazzHRDetail, JazzHRReturns, In, Running, FetchNext
<1> SUFFICES ASSUME Calm', Calm, Serves', Serves => Room
             PROVE  outcome' # "raised" /\ (outcome' = "pending" => Room')
  BY <1>0, CauseKept
<1>1. /\ odd = 0 /\ odd' = 0 /\ adapter' = adapter /\ site' = site /\ Ever = site
  BY <1>0, CalmStays, CalmSite
<1>2. site \cap Untitled = {} /\ Room'
  BY <1>0, <1>1 DEF Serves, JazzHRServes, Room
<1>3. ~Broken
  BY <1>1 DEF Broken, Disturbed
<1>4. CASE JazzHRListing
  <2>1. PICK page \in SUBSET Ever :
          IF page \cap Untitled # {} THEN Raises(fetch.requests + 1)
          ELSE Proceeds([Counted EXCEPT !.phase = "details", !.seen = page, !.queue = page])
    BY <1>3, <1>4, Zenon DEF JazzHRListing
  <2>2. outcome' = outcome
    BY <1>1, <1>2, <2>1 DEF Proceeds
  <2> QED BY <1>0, <1>2, <2>2
<1>5. CASE JazzHRDetail
  <2> DEFINE j == First(fetch.queue)
  <2>1. j \in site
    <3>1. fetch.queue # {} /\ fetch.queue \subseteq site /\ site \in SUBSET Jobs
      BY <1>0, <1>1, <1>5, PendingIs DEF JazzHRDetail
    <3> QED BY <3>1, FirstIsIn
  <2>2. ~Refused(j)
    BY <1>1, <2>1 DEF Refused, Disturbed
  <2>3. PICK detail \in Details :
          /\ Sends(detail.job = j /\ detail.url = "own")
          /\ CASE Describes(detail, j) ->
                    Proceeds([Counted EXCEPT !.queue = @ \ {j},
                                !.records = @ \cup {<<j, detail.job>>}])
               [] Uncounted(detail, j) -> Raises(0)
               [] OTHER -> Raises(fetch.requests + 1)
    BY <1>5, <2>2, Zenon DEF JazzHRDetail
  <2> HIDE DEF j
  <2>4. detail.job = j /\ detail.url = "own"
    BY <1>1, <2>3 DEF Sends, Request
  <2>5. Describes(detail, j)
    BY <1>2, <2>1, <2>4 DEF Describes, TitleIsListed, Names
  <2>6. ~Uncounted(detail, j)
    BY <2>4 DEF Uncounted
  <2>7. outcome' = outcome
    BY <2>3, <2>5, <2>6 DEF Proceeds
  <2> QED BY <1>0, <1>2, <2>7
<1>6. CASE JazzHRReturns
  BY <1>6 DEF JazzHRReturns, Returns
<1> QED BY <1>4, <1>5, <1>6 DEF JazzHRNext

-----------------------------------------------------------------------------
(* DreamJobs: a page for every PageSize postings, and a detail for each.   *)
LEMMA NeededIs ==
  ASSUME NEW n \in Nat
  PROVE  /\ Needed(n) \in Nat /\ Needed(n) >= 1 /\ n <= Needed(n) * PageSize
         /\ \A p \in Nat : 1 <= p /\ p < Needed(n) => p * PageSize < n
<1> DEFINE q == PagesFor(n)
<1>1. /\ q \in Nat /\ n <= q * PageSize /\ q * PageSize < n + PageSize
      /\ PageSize \in Nat \ {0}
  BY PagesForIs, FetchAssumption DEF FetchAssumption
<1> HIDE DEF q
<1>2. Max({1, q}) = IF q >= 1 THEN q ELSE 1
  <2> DEFINE m == IF q >= 1 THEN q ELSE 1
  <2>1. m \in {1, q} /\ \A y \in {1, q} : m >= y
    BY <1>1
  <2>2. \A x \in {1, q} : (\A y \in {1, q} : x >= y) => x = m
    BY <1>1
  <2>3. Max({1, q}) \in {1, q} /\ \A y \in {1, q} : Max({1, q}) >= y
    BY <2>1 DEF Max
  <2> QED BY <2>2, <2>3
<1>3. Needed(n) = IF q >= 1 THEN q ELSE 1
  BY <1>2 DEF Needed, q
<1>4. n <= Needed(n) * PageSize
  <2>1. CASE q >= 1
    BY <1>1, <1>3, <2>1
  <2>2. CASE ~(q >= 1)
    <3>1. q = 0 /\ 0 * PageSize = 0 /\ 1 * PageSize = PageSize
      BY <1>1, <2>2
    <3> QED BY <1>1, <1>3, <3>1
  <2> QED BY <2>1, <2>2
<1>5. ASSUME NEW p \in Nat, 1 <= p, p < Needed(n) PROVE p * PageSize < n
  <2>1. p + 1 <= q
    BY <1>1, <1>3, <1>5
  <2>2. (p + 1) * PageSize <= q * PageSize /\ (p + 1) * PageSize = p * PageSize + PageSize
    BY <1>1, <2>1
  <2> QED BY <1>1, <2>2
<1> QED BY <1>1, <1>3, <1>4, <1>5

LEMMA DreamJobsCause ==
  ASSUME SnapInv, FetchInv, CauseInv, DreamJobsNext
  PROVE  CauseInv'
<1>0. Running("dreamjobs") /\ outcome = "pending" /\ adapter = "dreamjobs" /\ FetchNext
  BY DEF DreamJobsNext, DreamJobsFirstPage, DreamJobsPage, DreamJobsListed, DreamJobsDetail,
         DreamJobsReturns, In, Running, FetchNext
<1> SUFFICES ASSUME Calm', Calm, Serves', Serves => Room
             PROVE  outcome' # "raised" /\ (outcome' = "pending" => Room')
  BY <1>0, CauseKept
<1> DEFINE n == Cardinality(site)
<1>1. /\ odd = 0 /\ odd' = 0 /\ adapter' = adapter /\ site' = site /\ Ever = site
      /\ PageLimit' = PageLimit /\ \A j : Rank(j)' = Rank(j)
  BY <1>0, CalmStays, CalmSite
<1>2. /\ Needed(n) <= PageLimit /\ Needed(n) + n <= MaxRequests /\ site \cap Untitled = {}
      /\ DreamJobsRoom
  BY <1>0, <1>1 DEF Serves, DreamJobsServes, Room
<1>3. /\ fetch \in Fetch /\ site \in SUBSET Jobs /\ PageSize \in Nat \ {0} /\ n \in Nat
      /\ DreamJobsReads /\ told \subseteq {n} /\ fetch.page \in Nat /\ fetch.requests \in Nat
      /\ fetch.seen \cup fetch.queue \subseteq site /\ MaxRequests \in Nat /\ PageLimit \in Nat
  <2>1. DreamJobsReads /\ fetch \in Fetch
    BY <1>0, DreamJobsIs
  <2> QED BY <1>0, <1>1, <2>1, PendingIs, BeforeIs DEF Fetch, DreamJobsReads
<1>4. /\ Needed(n) \in Nat /\ Needed(n) >= 1 /\ n <= Needed(n) * PageSize
      /\ \A p \in Nat : 1 <= p /\ p < Needed(n) => p * PageSize < n
  BY <1>3, NeededIs
<1> HIDE DEF n
<1>5. ~Broken
  BY <1>1 DEF Broken, Disturbed
<1>6. DreamJobsRoom' => Room'
  BY <1>0, <1>1 DEF Room
<1>7. \A k : Before(k)' = Before(k)
  BY <1>1 DEF Before
<1> DEFINE c == Counted
<1>8. /\ c \in Fetch /\ c.requests = fetch.requests + 1 /\ c.seen = fetch.seen
      /\ c.queue = fetch.queue /\ c.phase = fetch.phase /\ c.page = fetch.page
      /\ c.total = fetch.total
  BY <1>3, CountedIsFetch
<1> HIDE DEF c
<1>9. CASE DreamJobsFirstPage
  <2>1. fetch.phase = "start" /\ fetch.requests = 0 /\ MayCall
    <3>1. fetch.phase = "start"
      BY <1>9 DEF DreamJobsFirstPage, In
    <3>2. fetch.requests = 0
      BY <1>2, <3>1 DEF DreamJobsRoom
    <3> QED BY <1>2, <1>3, <1>4, <3>1, <3>2 DEF MayCall
  <2>2. ~NoCallLeft
    BY <2>1 DEF NoCallLeft
  <2>3. PICK answer \in Answers :
          /\ Request(answer = TrueAnswer(1), {answer.total})
          /\ IF Needed(answer.total) > PageLimit THEN Raises(fetch.requests + 1)
             ELSE Proceeds([c EXCEPT !.phase = "listing", !.page = 1,
                            !.total = answer.total, !.seen = answer.jobs])
    BY <1>5, <1>9, <2>2, Zenon DEF DreamJobsFirstPage, c
  <2>4. answer = TrueAnswer(1)
    BY <1>1, <2>3 DEF Request
  <2>5. answer.total = n /\ answer.jobs = Window((1 - 1) * PageSize, PageSize)
    BY <2>4 DEF TrueAnswer, n
  <2>6. answer.jobs = Before(1 * PageSize)
    <3>1. (1 - 1) * PageSize = 0 /\ 0 + PageSize = 1 * PageSize
      BY <1>3
    <3>2. Before(0) \cup Window(0, PageSize) = Before(0 + PageSize) /\ Before(0) = {}
      BY <1>3, BeforeIs, NextWindow
    <3> QED BY <2>5, <3>1, <3>2
  <2> DEFINE f == [c EXCEPT !.phase = "listing", !.page = 1,
                            !.total = answer.total, !.seen = answer.jobs]
  <2>7. f.phase = "listing" /\ f.page = 1 /\ f.seen = answer.jobs /\ f.requests = c.requests
    BY <1>8 DEF Fetch
  <2>8. Proceeds(f)
    BY <1>2, <1>3, <1>4, <2>3, <2>5
  <2> HIDE DEF f
  <2>9. fetch' = f /\ outcome' = "pending"
    BY <1>0, <2>8 DEF Proceeds
  <2>10. DreamJobsRoom'
    BY <1>1, <1>3, <1>4, <1>7, <1>8, <2>1, <2>6, <2>7, <2>9 DEF DreamJobsRoom, n
  <2> QED BY <1>6, <2>9, <2>10
<1>10. CASE DreamJobsPage
  <2>1. /\ fetch.phase = "listing" /\ fetch.total = n /\ fetch.page < Needed(n)
        /\ fetch.page >= 1 /\ fetch.requests = fetch.page
        /\ fetch.seen = Before(fetch.page * PageSize)
    <3>1. fetch.phase = "listing" /\ fetch.page < Needed(fetch.total) /\ told = {fetch.total}
      BY <1>3, <1>10 DEF DreamJobsPage, In, DreamJobsReads
    <3>2. fetch.total = n
      BY <1>3, <3>1
    <3> QED BY <1>2, <1>4, <3>1, <3>2 DEF DreamJobsRoom, n
  <2>2. MayCall /\ ~NoCallLeft
    BY <1>2, <1>3, <1>4, <2>1 DEF MayCall, NoCallLeft
  <2>3. PICK answer \in Answers :
          /\ Request(answer = TrueAnswer(fetch.page + 1), {answer.total})
          /\ IF answer.total # fetch.total \/ answer.jobs \subseteq fetch.seen
             THEN Raises(fetch.requests + 1)
             ELSE Proceeds([c EXCEPT !.page = @ + 1, !.seen = @ \cup answer.jobs])
    BY <1>5, <1>10, <2>2, Zenon DEF DreamJobsPage, c
  <2>4. answer = TrueAnswer(fetch.page + 1)
    BY <1>1, <2>3 DEF Request
  <2> DEFINE skip == fetch.page * PageSize
  <2>5. /\ skip \in Nat /\ skip < n /\ (fetch.page + 1) * PageSize = skip + PageSize
        /\ ((fetch.page + 1) - 1) * PageSize = skip
    BY <1>3, <1>4, <2>1
  <2>6. answer.total = n /\ answer.jobs = Window(skip, PageSize)
    BY <2>4, <2>5 DEF TrueAnswer, n
  <2>7. /\ fetch.seen \cup answer.jobs = Before((fetch.page + 1) * PageSize)
        /\ ~(answer.jobs \subseteq fetch.seen)
    <3> HIDE DEF skip
    <3>1. /\ Before(skip) \cup Window(skip, PageSize) = Before(skip + PageSize)
          /\ Before(skip) \cap Window(skip, PageSize) = {}
          /\ Window(skip, PageSize) # {}
      <4>1. site \in SUBSET Jobs /\ skip \in Nat /\ PageSize \in Nat \ {0}
        BY <1>3, <2>5
      <4>2. ~(Cardinality(site) <= skip)
        BY <1>3, <2>5 DEF n
      <4> QED BY <4>1, <4>2, NextWindow
    <3> QED BY <2>1, <2>5, <2>6, <3>1 DEF skip
  <2> DEFINE f == [c EXCEPT !.page = @ + 1, !.seen = @ \cup answer.jobs]
  <2>8. /\ f.phase = "listing" /\ f.page = fetch.page + 1
        /\ f.seen = fetch.seen \cup answer.jobs /\ f.requests = c.requests
    BY <1>8, <2>1 DEF Fetch
  <2>9. Proceeds(f)
    BY <2>1, <2>3, <2>6, <2>7
  <2> HIDE DEF f
  <2>10. fetch' = f /\ outcome' = "pending"
    BY <1>0, <2>9 DEF Proceeds
  <2>11. /\ f.phase = "listing" /\ f.requests = f.page /\ f.page \in 1 .. Needed(n)
         /\ f.seen = Before(f.page * PageSize)
    <3>1. f.requests = fetch.page + 1 /\ f.page = fetch.page + 1
      BY <1>8, <2>1, <2>8
    <3>2. fetch.page + 1 \in 1 .. Needed(n)
      BY <1>3, <1>4, <2>1
    <3> QED BY <2>7, <2>8, <3>1, <3>2
  <2>12. DreamJobsRoom'
    BY <1>1, <1>7, <2>10, <2>11 DEF DreamJobsRoom, n
  <2> QED BY <1>6, <2>10, <2>12
<1>11. CASE DreamJobsListed
  <2>1. /\ fetch.phase = "listing" /\ fetch.total = n /\ fetch.page = Needed(n)
        /\ fetch.requests = Needed(n) /\ fetch.seen = Before(Needed(n) * PageSize)
    <3>1. fetch.phase = "listing" /\ fetch.page = Needed(fetch.total) /\ told = {fetch.total}
      BY <1>3, <1>11 DEF DreamJobsListed, In, DreamJobsReads
    <3>2. fetch.total = n
      BY <1>3, <3>1
    <3> QED BY <1>2, <3>1, <3>2 DEF DreamJobsRoom, n
  <2>2. fetch.seen = site
    <3>1. Needed(n) * PageSize \in Nat
      BY <1>3, <1>4
    <3> QED BY <1>3, <1>4, <2>1, <3>1, BeforeIs DEF n
  <2>3. EveryJobIsSeen
    BY <2>1, <2>2 DEF EveryJobIsSeen, n
  <2> DEFINE f == [fetch EXCEPT !.phase = "details", !.queue = fetch.seen]
  <2>4. Proceeds(f)
    BY <1>11, <2>3 DEF DreamJobsListed
  <2>5. f.phase = "details" /\ f.queue = site /\ f.requests = Needed(n)
    BY <1>3, <2>1, <2>2 DEF Fetch
  <2> HIDE DEF f
  <2>6. fetch' = f /\ outcome' = "pending"
    BY <1>0, <2>4 DEF Proceeds
  <2>7. DreamJobsRoom'
    BY <1>1, <2>5, <2>6 DEF DreamJobsRoom, n
  <2> QED BY <1>6, <2>6, <2>7
<1>12. CASE DreamJobsDetail
  <2> DEFINE j == First(fetch.queue)
             q == Cardinality(fetch.queue)
  <2>1. /\ fetch.phase = "details" /\ fetch.queue # {} /\ fetch.queue \in SUBSET Jobs
        /\ fetch.queue \subseteq site /\ fetch.requests + q = Needed(n) + n
    BY <1>2, <1>3, <1>12 DEF DreamJobsDetail, In, DreamJobsRoom, n
  <2>2. j \in fetch.queue /\ j \in site /\ j \notin Untitled
    BY <1>2, <2>1, FirstIsIn
  <2> HIDE DEF j
  <2>3. q \in Nat /\ q > 0 /\ Cardinality(fetch.queue \ {j}) = q - 1
    <3>1. IsFiniteSet(fetch.queue) /\ q \in Nat
      BY <2>1, JobsAreFinite
    <3>2. Cardinality(fetch.queue \ {j}) = q - 1 /\ Cardinality(fetch.queue \ {j}) \in Nat
      BY <2>1, <2>2, <3>1, FS_RemoveElement, JobsAreFinite
    <3> QED BY <3>1, <3>2
  <2> HIDE DEF q
  <2>4. MayCall /\ ~NoCallLeft /\ ~Refused(j)
    BY <1>1, <1>2, <1>3, <1>4, <2>1, <2>2, <2>3
       DEF MayCall, NoCallLeft, Refused, Disturbed
  <2>5. PICK k \in Ever :
          /\ Sends(k = j)
          /\ IF k # j \/ k \in Untitled THEN Raises(fetch.requests + 1)
             ELSE Proceeds([c EXCEPT !.queue = @ \ {j}, !.records = @ \cup {<<j, k>>}])
    BY <1>12, <2>4, Zenon DEF DreamJobsDetail, c, j
  <2>6. k = j
    BY <1>1, <2>5 DEF Sends, Request
  <2> DEFINE f == [c EXCEPT !.queue = @ \ {j}, !.records = @ \cup {<<j, k>>}]
  <2>7. f.phase = "details" /\ f.queue = fetch.queue \ {j} /\ f.requests = fetch.requests + 1
    BY <1>8, <2>1 DEF Fetch
  <2>8. Proceeds(f)
    BY <2>2, <2>5, <2>6
  <2> HIDE DEF f
  <2>9. fetch' = f /\ outcome' = "pending"
    BY <1>0, <2>8 DEF Proceeds
  <2>10. f.requests + Cardinality(f.queue) = Needed(n) + n
    BY <1>3, <1>4, <2>1, <2>3, <2>7
  <2>11. DreamJobsRoom'
    BY <1>1, <2>7, <2>9, <2>10 DEF DreamJobsRoom, n
  <2> QED BY <1>6, <2>9, <2>11
<1>13. CASE DreamJobsReturns
  BY <1>13 DEF DreamJobsReturns, Returns
<1> QED BY <1>9, <1>10, <1>11, <1>12, <1>13 DEF DreamJobsNext

-----------------------------------------------------------------------------
(* LinkedIn: no batch is asked for twice, and those that bring nothing new *)
(* come after the last posting.                                            *)
LEMMA OffsetsGrow ==
  ASSUME Start > 0
  PROVE  /\ \A i \in Nat : Offset(i) \in Nat
         /\ \A i, k \in Nat : i < k => Offset(i) < Offset(k)
         /\ \A i, k \in Nat : i <= k => Offset(i) <= Offset(k)
         /\ Offset(0) = 0
<1>1. Start \in Nat /\ Step \in Nat /\ Step > 0
  BY FetchAssumption DEF FetchAssumption
<1>2. ASSUME NEW i \in Nat PROVE Offset(i) \in Nat
  <2>1. CASE i = 0
    BY <2>1 DEF Offset
  <2>2. CASE i # 0
    <3>1. (i - 1) * Step \in Nat
      BY <1>1, <2>2
    <3> QED BY <1>1, <2>2, <3>1 DEF Offset
  <2> QED BY <2>1, <2>2
<1>3. ASSUME NEW i \in Nat, NEW k \in Nat, i < k PROVE Offset(i) < Offset(k)
  <2>1. Offset(k) = Start + (k - 1) * Step /\ (k - 1) * Step \in Nat
    BY <1>1, <1>3 DEF Offset
  <2>2. CASE i = 0
    BY <1>1, <2>1, <2>2 DEF Offset
  <2>3. CASE i # 0
    <3>1. Offset(i) = Start + (i - 1) * Step /\ (i - 1) * Step \in Nat
      BY <1>1, <2>3 DEF Offset
    <3>2. i * Step <= (k - 1) * Step /\ i * Step = (i - 1) * Step + Step
      BY <1>1, <1>3
    <3> QED BY <1>1, <2>1, <3>1, <3>2
  <2> QED BY <2>2, <2>3
<1>4. ASSUME NEW i \in Nat, NEW k \in Nat, i <= k PROVE Offset(i) <= Offset(k)
  <2>1. i = k \/ i < k
    BY <1>4
  <2>2. Offset(i) \in Nat /\ Offset(k) \in Nat
    BY <1>2
  <2> QED BY <1>3, <2>1, <2>2
<1>5. Offset(0) = 0
  BY DEF Offset
<1> QED BY <1>2, <1>3, <1>4, <1>5

LEMMA LinkedInCause ==
  ASSUME SnapInv, FetchInv, CauseInv, LinkedInBatch
  PROVE  CauseInv'
<1>0. outcome = "pending" /\ adapter = "linkedin" /\ FetchNext
  BY DEF LinkedInBatch, Running, FetchNext
<1> SUFFICES ASSUME Calm', Calm, Serves', Serves => Room
             PROVE  outcome' # "raised" /\ (outcome' = "pending" => Room')
  BY <1>0, CauseKept
<1> DEFINE n == Cardinality(site)
           r == fetch.requests
           skip == Offset(r)
           passed(i) == Offset(i) + PageSize >= n
<1>1. /\ odd = 0 /\ odd' = 0 /\ adapter' = adapter /\ site' = site
      /\ PageLimit' = PageLimit /\ \A j : Rank(j)' = Rank(j)
  BY <1>0, CalmStays
<1>2. LinkedInServes /\ LinkedInRoom
  BY <1>0, <1>1 DEF Serves, LinkedInServes, Room
<1>3. /\ fetch \in Fetch /\ site \in SUBSET Jobs /\ PageSize \in Nat \ {0} /\ n \in Nat
      /\ fetch.overlap \in Nat /\ r \in Nat /\ "linkedin" \in Adapters
      /\ MaxRequests \in Nat /\ PageLimit \in Nat /\ OverlapLimit \in Nat
  <2>1. fetch \in Fetch
    BY <1>0, PendingIs
  <2> QED BY <1>0, <2>1, PendingIs, BeforeIs, FetchAssumption DEF Fetch, FetchAssumption
<1>4. /\ \A i \in Nat : Offset(i) \in Nat
      /\ \A i, k \in Nat : i < k => Offset(i) < Offset(k)
      /\ \A i, k \in Nat : i <= k => Offset(i) <= Offset(k)
      /\ Offset(0) = 0
  BY <1>2, OffsetsGrow DEF LinkedInServes
<1>5. /\ \A p \in fetch.shown : \E i \in Nat : i < r /\ p = Window(Offset(i), PageSize)
      /\ \A i \in Nat : i < r => Offset(i) < n
      /\ fetch.seen = IF r = 0 THEN {} ELSE Before(Offset(r - 1) + PageSize)
      /\ fetch.overlap > 0 =>
           \E m \in Nat : r = m + fetch.overlap + 1 /\ Offset(m) + PageSize >= n
  BY <1>2 DEF LinkedInRoom
<1>6. r < MaxRequests /\ r < PageLimit
  <2>1. PICK e \in 0 .. MaxRequests - 1 : e < PageLimit /\ Offset(e) >= n
    BY <1>2 DEF LinkedInServes
  <2>2. ~(Offset(e) < n) /\ e \in Nat
    BY <1>3, <1>4, <2>1
  <2>3. ~(e < r)
    BY <1>5, <2>2
  <2> QED BY <1>3, <2>1, <2>3
<1>7. \A i \in 0 .. MaxRequests : passed(i) => Offset(i + OverlapLimit + 1) >= n
  BY <1>2 DEF LinkedInServes
<1> HIDE DEF n, passed
<1>8. LinkedInMayGo /\ ~Broken
  BY <1>1, <1>6 DEF LinkedInMayGo, Broken, Disturbed
<1>9. PICK page \in Pages :
        LET overlap == IF page \subseteq fetch.seen THEN fetch.overlap + 1 ELSE 0
            now == [Counted EXCEPT !.seen = @ \cup page, !.overlap = overlap,
                      !.records = @ \cup Same(page), !.shown = @ \cup {page}]
        IN  /\ Sends(page = Window(Offset(fetch.requests), PageSize))
            /\ CASE page \in fetch.shown -> Raises(now.requests)
                 [] page \notin fetch.shown /\ LinkedInEnds(page) -> Returns(now)
                 [] OTHER -> IF overlap > OverlapLimit /\ page \subseteq fetch.seen
                             THEN Raises(now.requests) ELSE Proceeds(now)
  BY <1>8, Zenon DEF LinkedInBatch
<1> DEFINE overlap == IF page \subseteq fetch.seen THEN fetch.overlap + 1 ELSE 0
           now == [Counted EXCEPT !.seen = @ \cup page, !.overlap = overlap,
                     !.records = @ \cup Same(page), !.shown = @ \cup {page}]
<1>10. page = Window(skip, PageSize) /\ skip \in Nat
  BY <1>1, <1>3, <1>4, <1>9 DEF Sends, Request
<1>11. /\ now.requests = r + 1 /\ now.seen = fetch.seen \cup page /\ now.overlap = overlap
       /\ now.shown = fetch.shown \cup {page}
  <2> DEFINE c == Counted
             R == c.records \cup Same(page)
             T == c.shown \cup {page}
  <2>1. c \in Fetch /\ c.requests = r + 1 /\ c.seen = fetch.seen /\ c.shown = fetch.shown
    BY <1>3, CountedIsFetch
  <2>2. now = [c EXCEPT !.seen = @ \cup page, !.overlap = overlap, !.records = R, !.shown = T]
    BY Zenon DEF c, R, T
  <2> HIDE DEF c, R, T, now, overlap
  <2>3. now.requests = c.requests /\ now.seen = c.seen \cup page /\ now.overlap = overlap
        /\ now.shown = T
    BY <2>1, <2>2 DEF Fetch
  <2> QED BY <2>1, <2>3 DEF T
<1>12. page \notin fetch.shown
  <2>1. ASSUME page \in fetch.shown PROVE FALSE
    <3>1. PICK i \in Nat : i < r /\ page = Window(Offset(i), PageSize)
      BY <1>5, <2>1
    <3>2. Offset(i) < n /\ Offset(i) < skip /\ Offset(i) \in Nat
      BY <1>3, <1>4, <1>5, <3>1
    <3>3. PICK j \in site : Rank(j) = Offset(i)
      <4>1. Offset(i) \in 0 .. Cardinality(site) - 1
        BY <1>3, <3>2 DEF n
      <4> QED BY <1>3, <4>1, RanksAreAll
    <3>4. j \in Window(Offset(i), PageSize)
      BY <1>3, <3>2, <3>3, WindowIs
    <3>5. skip <= Rank(j)
      BY <1>3, <1>10, <3>1, <3>4, WindowIs
    <3> QED BY <1>10, <3>2, <3>3, <3>5
  <2> QED BY <2>1
<1>13. CASE page = {}
  <2>1. Returns(now)
    BY <1>9, <1>12, <1>13 DEF LinkedInEnds
  <2> QED BY <2>1 DEF Returns
<1>14. CASE page # {}
  <2>1. skip < n
    <3>1. ~(Cardinality(site) <= skip)
      BY <1>3, <1>10, <1>14, NextWindow
    <3> QED BY <1>3, <1>10, <3>1 DEF n
  <2>2. ASSUME r # 0
        PROVE  /\ Offset(r - 1) \in Nat /\ Offset(r - 1) < skip
               /\ skip <= Offset(r - 1) + PageSize
               /\ fetch.seen = Before(Offset(r - 1) + PageSize)
    <3>1. r - 1 \in Nat /\ r - 1 < r /\ (r - 1) + 1 = r
      BY <1>3, <2>2
    <3>2. Offset((r - 1) + 1) <= Offset(r - 1) + PageSize
      BY <1>3, <3>1, OffsetIs
    <3> QED BY <1>3, <1>4, <1>5, <2>2, <3>1, <3>2
  <2>3. ASSUME page \subseteq fetch.seen
        PROVE  \E m \in Nat : r = m + (fetch.overlap + 1) /\ passed(m)
    <3>1. r # 0
      BY <1>5, <1>14, <2>3
    <3>2. CASE fetch.overlap > 0
      <4>1. PICK m \in Nat : r = m + fetch.overlap + 1 /\ Offset(m) + PageSize >= n
        BY <1>5, <3>2
      <4>2. r = m + (fetch.overlap + 1) /\ passed(m)
        BY <1>3, <4>1 DEF passed
      <4> QED BY <4>2
    <3>3. CASE ~(fetch.overlap > 0)
      <4>1. fetch.overlap = 0 /\ r - 1 \in Nat /\ r = (r - 1) + (fetch.overlap + 1)
        BY <1>3, <3>1, <3>3
      <4> DEFINE end == Offset(r - 1) + PageSize
      <4>2. end \in Nat /\ skip <= end /\ end < skip + PageSize /\ fetch.seen = Before(end)
        BY <1>3, <1>10, <2>2, <3>1
      <4> HIDE DEF end
      <4>3. ASSUME end < n PROVE FALSE
        <5>1. end \in 0 .. Cardinality(site) - 1
          BY <1>3, <4>2, <4>3 DEF n
        <5>2. PICK j \in site : Rank(j) = end
          BY <1>3, <5>1, RanksAreAll
        <5>3. j \in Window(skip, PageSize)
          BY <1>3, <1>10, <4>2, <5>2, WindowIs
        <5>4. j \notin Before(end)
          BY <1>3, <4>2, <5>2, BeforeIs
        <5> QED BY <1>10, <2>3, <4>2, <5>3, <5>4
      <4>4. passed(r - 1)
        BY <1>3, <4>2, <4>3 DEF passed, end
      <4> QED BY <4>1, <4>4
    <3> QED BY <3>2, <3>3
  <2>4. ~(page \subseteq fetch.seen /\ overlap > OverlapLimit)
    <3>1. ASSUME page \subseteq fetch.seen, overlap > OverlapLimit PROVE FALSE
      <4>1. PICK m \in Nat : r = m + (fetch.overlap + 1) /\ passed(m)
        BY <2>3, <3>1
      <4> DEFINE k == m + OverlapLimit + 1
      <4>2. k \in Nat /\ k <= r /\ m \in 0 .. MaxRequests
        BY <1>3, <1>6, <3>1, <4>1
      <4>3. Offset(k) >= n
        BY <1>7, <4>1, <4>2
      <4> HIDE DEF k
      <4>4. Offset(k) <= skip /\ Offset(k) \in Nat
        BY <1>3, <1>4, <4>2
      <4> QED BY <1>3, <1>10, <2>1, <4>3, <4>4
    <3> QED BY <3>1
  <2>5. Proceeds(now)
    BY <1>9, <1>12, <1>14, <2>4 DEF LinkedInEnds
  <2> HIDE DEF now
  <2>6. fetch' = now /\ outcome' = "pending"
    BY <1>0, <2>5 DEF Proceeds
  <2>7. fetch.seen \cup page = Before(skip + PageSize)
    <3>1. Before(skip) \cup Window(skip, PageSize) = Before(skip + PageSize)
      BY <1>3, <1>10, NextWindow
    <3>2. CASE r = 0
      BY <1>3, <1>4, <1>5, <1>10, <3>1, <3>2, BeforeIs
    <3>3. CASE r # 0
      <4> DEFINE end == Offset(r - 1) + PageSize
      <4>1. end \in Nat /\ skip <= end /\ end < skip + PageSize /\ fetch.seen = Before(end)
        BY <1>3, <1>10, <2>2, <3>3
      <4> HIDE DEF end, skip
      <4>2. \A j \in site : Rank(j) \in Nat
        BY <1>3, BeforeIs
      <4>3. Before(skip) \subseteq Before(end) /\ Before(end) \subseteq Before(skip + PageSize)
        BY <1>3, <1>10, <4>1, <4>2 DEF Before
      <4> QED BY <1>10, <3>1, <4>1, <4>3
    <3> QED BY <3>2, <3>3
  <2>8. \A k \in Nat : k < r + 1 => k < r \/ k = r
    BY <1>3
  <2>9. \A p \in now.shown : \E i \in Nat : i < r + 1 /\ p = Window(Offset(i), PageSize)
    <3> SUFFICES ASSUME NEW p \in now.shown
                 PROVE  \E i \in Nat : i < r + 1 /\ p = Window(Offset(i), PageSize)
      OBVIOUS
    <3>1. CASE p = page
      BY <1>3, <1>10, <3>1
    <3>2. CASE p \in fetch.shown
      <4>1. PICK i \in Nat : i < r /\ p = Window(Offset(i), PageSize)
        BY <1>5, <3>2
      <4>2. i < r + 1
        BY <1>3, <4>1
      <4> QED BY <4>1, <4>2
    <3> QED BY <1>11, <3>1, <3>2
  <2>10. \A i \in Nat : i < r + 1 => Offset(i) < n
    BY <1>5, <2>1, <2>8
  <2>11. now.overlap > 0 =>
           \E m \in Nat : r + 1 = m + now.overlap + 1 /\ Offset(m) + PageSize >= n
    <3> SUFFICES ASSUME now.overlap > 0
                 PROVE  \E m \in Nat : r + 1 = m + now.overlap + 1 /\ Offset(m) + PageSize >= n
      OBVIOUS
    <3>1. page \subseteq fetch.seen /\ now.overlap = fetch.overlap + 1
      BY <1>11
    <3>2. PICK m \in Nat : r = m + (fetch.overlap + 1) /\ passed(m)
      BY <2>3, <3>1
    <3>3. r + 1 = m + now.overlap + 1 /\ Offset(m) + PageSize >= n
      BY <1>3, <3>1, <3>2 DEF passed
    <3> QED BY <3>3
  <2>12. /\ now.requests = r + 1 /\ r + 1 # 0 /\ (r + 1) - 1 = r
         /\ now.seen = Before(Offset(r) + PageSize)
    BY <1>3, <1>11, <2>7
  <2>13. \A k : Before(k)' = Before(k)
    BY <1>1 DEF Before
  <2>14. \A k : Window(k, PageSize)' = Window(k, PageSize)
    BY <1>1 DEF Window
  <2>15. LinkedInRoom'
    <3>1. PICK f : f = now
      OBVIOUS
    <3>2. fetch' = f /\ Cardinality(site') = n
      BY <1>1, <2>6, <3>1 DEF n
    <3>3. \A p \in f.shown : \E i \in Nat : i < f.requests /\ p = Window(Offset(i), PageSize)'
      BY <2>9, <2>12, <2>14, <3>1
    <3>4. \A i \in Nat : i < f.requests => Offset(i) < n
      BY <2>10, <2>12, <3>1
    <3>5. f.seen = IF f.requests = 0 THEN {} ELSE Before(Offset(f.requests - 1) + PageSize)'
      BY <2>12, <2>13, <3>1
    <3>6. f.overlap > 0 =>
            \E m \in Nat : f.requests = m + f.overlap + 1 /\ Offset(m) + PageSize >= n
      BY <2>11, <2>12, <3>1
    <3> QED BY <3>2, <3>3, <3>4, <3>5, <3>6 DEF LinkedInRoom
  <2> QED BY <1>0, <1>1, <2>6, <2>15 DEF Room
<1> QED BY <1>13, <1>14

-----------------------------------------------------------------------------
(* The generic adapter: every page of the site is asked for once, each     *)
(* brings postings, and the limits are as many pages or more.              *)
LEMMA GenericPagesAre ==
  ASSUME site \in SUBSET Jobs,
         NEW asked \in SUBSET GenericPages, NEW a \in GenericPages \ asked
  PROVE  /\ Cardinality(asked) \in Nat
         /\ Cardinality(asked \cup {a}) = Cardinality(asked) + 1
         /\ Cardinality(asked) + 1 <= LastPage + (IF style.landing THEN 1 ELSE 0)
<1>1. LastPage \in Nat
  BY LastPageIs
<1>2. IsFiniteSet(1 .. LastPage) /\ Cardinality(1 .. LastPage) = LastPage
  BY <1>1, FS_Interval
<1>3. IsFiniteSet(GenericPages)
      /\ Cardinality(GenericPages) = LastPage + (IF style.landing THEN 1 ELSE 0)
  <2>1. CASE style.landing
    <3>1. 0 \notin 1 .. LastPage
      BY <1>1
    <3>2. /\ IsFiniteSet(1 .. LastPage \cup {0})
          /\ Cardinality(1 .. LastPage \cup {0}) = Cardinality(1 .. LastPage) + 1
      BY <1>2, <3>1, FS_AddElement
    <3>3. GenericPages = 1 .. LastPage \cup {0}
      BY <2>1 DEF GenericPages
    <3> QED BY <1>2, <2>1, <3>2, <3>3
  <2>2. CASE ~style.landing
    <3>1. GenericPages = 1 .. LastPage
      BY <2>2 DEF GenericPages
    <3> QED BY <1>1, <1>2, <2>2, <3>1
  <2> QED BY <2>1, <2>2
<1>4. IsFiniteSet(asked) /\ Cardinality(asked) \in Nat
  BY <1>3, FS_Subset, FS_CardinalityType
<1>5. Cardinality(asked \cup {a}) = Cardinality(asked) + 1
  BY <1>4, FS_AddElement
<1>6. asked \cup {a} \in SUBSET GenericPages
  OBVIOUS
<1>7. Cardinality(asked \cup {a}) <= Cardinality(GenericPages)
  BY <1>3, <1>6, FS_Subset
<1> QED BY <1>3, <1>4, <1>5, <1>7

(* Two pages have no posting in common, and none of them is empty.         *)
LEMMA PagesDiffer ==
  ASSUME site \in SUBSET Jobs, NEW m \in 1 .. LastPage
  PROVE  /\ PageOf(m) = m /\ Shows(m) # {} /\ Shows(m) \subseteq site
         /\ \A b \in 1 .. LastPage : b # m => Shows(b) \cap Shows(m) = {}
<1>1. /\ LastPage \in Nat /\ LastPage < Again /\ PageSize \in Nat \ {0}
      /\ Cardinality(site) \in Nat
  BY LastPageIs, JobsAreFinite, FetchAssumption DEF FetchAssumption
<1>2. \A b \in 1 .. LastPage :
        /\ PageOf(b) = b /\ Shows(b) = Window((b - 1) * PageSize, PageSize)
        /\ (b - 1) * PageSize \in Nat /\ (b - 1) * PageSize + PageSize = b * PageSize
  <2> SUFFICES ASSUME NEW b \in 1 .. LastPage
               PROVE  /\ PageOf(b) = b /\ Shows(b) = Window((b - 1) * PageSize, PageSize)
                      /\ (b - 1) * PageSize \in Nat
                      /\ (b - 1) * PageSize + PageSize = b * PageSize
    OBVIOUS
  <2>1. b \in Nat /\ b >= 1 /\ b # Again /\ b - 1 \in Nat
    BY <1>1, LastPageIs
  <2>2. PageOf(b) = b /\ Shows(b) = Window((b - 1) * PageSize, PageSize)
    BY <2>1 DEF PageOf, Shows
  <2>3. (b - 1) * PageSize \in Nat /\ (b - 1) * PageSize + PageSize = b * PageSize
    BY <1>1, <2>1
  <2> QED BY <2>2, <2>3
<1>3. \A j \in site : Rank(j) \in Nat
  BY BeforeIs
<1>4. Shows(m) # {} /\ Shows(m) \subseteq site
  <2> DEFINE skip == (m - 1) * PageSize
  <2>1. skip < Cardinality(site)
    <3>1. LastPage * PageSize < Cardinality(site) + PageSize
      BY <1>1, PagesForIs DEF LastPage
    <3>2. m * PageSize <= LastPage * PageSize
      BY <1>1
    <3>3. skip \in Nat /\ skip + PageSize = m * PageSize
      BY <1>2
    <3> HIDE DEF skip
    <3>4. m * PageSize \in Nat /\ LastPage * PageSize \in Nat
      BY <1>1
    <3> QED BY <1>1, <3>1, <3>2, <3>3, <3>4
  <2>2. skip \in Nat /\ Shows(m) = Window(skip, PageSize)
    BY <1>2
  <2> HIDE DEF skip
  <2>3. Window(skip, PageSize) # {}
    <3>1. ~(Cardinality(site) <= skip)
      BY <1>1, <2>1, <2>2
    <3> QED BY <1>1, <2>2, <3>1, NextWindow
  <2> QED BY <1>1, <2>2, <2>3, WindowIs
<1>5. ASSUME NEW b \in 1 .. LastPage, NEW d \in 1 .. LastPage, b < d,
             NEW j \in Shows(b), j \in Shows(d)
      PROVE  FALSE
  <2>1. /\ j \in site /\ Rank(j) < (b - 1) * PageSize + PageSize
        /\ (d - 1) * PageSize <= Rank(j)
    <3> DEFINE x == (b - 1) * PageSize
               y == (d - 1) * PageSize
    <3>1. /\ x \in Nat /\ Shows(b) = Window(x, PageSize)
          /\ y \in Nat /\ Shows(d) = Window(y, PageSize)
      BY <1>2, <1>5
    <3> HIDE DEF x, y
    <3>2. j \in site /\ Rank(j) < x + PageSize /\ y <= Rank(j)
      BY <1>1, <1>5, <3>1, WindowIs
    <3> QED BY <3>2 DEF x, y
  <2>2. b * PageSize <= (d - 1) * PageSize
    <3>1. b \in Nat /\ d - 1 \in Nat /\ b <= d - 1
      BY <1>1, <1>5
    <3> QED BY <1>1, <3>1
  <2>3. Rank(j) < b * PageSize /\ b * PageSize \in Nat /\ (d - 1) * PageSize \in Nat
    BY <1>1, <1>2, <2>1
  <2> QED BY <1>3, <2>1, <2>2, <2>3
<1>6. ASSUME NEW b \in 1 .. LastPage, b # m PROVE Shows(b) \cap Shows(m) = {}
  <2>1. b < m \/ m < b
    BY <1>1, <1>6
  <2> QED BY <1>5, <2>1
<1> QED BY <1>2, <1>4, <1>6

LEMMA GenericPageCause ==
  ASSUME SnapInv, FetchInv, CauseInv, GenericPage
  PROVE  CauseInv'
<1>0. /\ Running("generic") /\ outcome = "pending" /\ adapter = "generic"
      /\ fetch.phase = "start" /\ FetchNext
  BY DEF GenericPage, In, Running, FetchNext, GenericNext
<1> SUFFICES ASSUME Calm', Calm, Serves', Serves => Room
             PROVE  outcome' # "raised" /\ (outcome' = "pending" => Room')
  BY <1>0, CauseKept
<1> DEFINE at == fetch.at
           asked == fetch.asked
           n == Cardinality(site)
           pages == LastPage + (IF style.landing THEN 1 ELSE 0)
<1>1. /\ odd = 0 /\ odd' = 0 /\ adapter' = adapter /\ site' = site /\ style' = style
      /\ PageLimit' = PageLimit /\ \A j : Rank(j)' = Rank(j)
  BY <1>0, CalmStays
<1>2. GenericServes /\ GenericRoom
  <2>1. GenericServes'
    BY <1>0, <1>1 DEF Serves
  <2>2. GenericServes
    BY <1>1, <2>1 DEF GenericServes, Named, PagesFor
  <2>3. Serves
    BY <1>0, <2>2 DEF Serves
  <2> QED BY <1>0, <2>2, <2>3 DEF Room
<1>3. /\ Named(site) # {} /\ pages <= PageLimit /\ pages <= MaxRequests
      /\ style.pager = "alias" => LastPage <= 1
  BY <1>2 DEF GenericServes, LastPage
<1>4. /\ fetch \in Fetch /\ site \in SUBSET Jobs /\ Ever = site
      /\ at \in Addresses /\ asked \in SUBSET Addresses /\ fetch.seen \subseteq site
      /\ GoesOnAt(at, asked, fetch.seen)
      /\ style.pager \in {"next", "all", "alias"} /\ style.landing \in BOOLEAN
      /\ LastPage \in Nat /\ LastPage < Again /\ n \in Nat /\ PageSize \in Nat \ {0}
      /\ MaxRequests \in Nat /\ PageLimit \in Nat
  <2>1. fetch \in Fetch /\ GenericReads /\ fetch.seen \subseteq Ever /\ site \in SUBSET Jobs
    BY <1>0, GenericIs
  <2>2. style.pager \in {"next", "all", "alias"} /\ style.landing \in BOOLEAN
    BY <2>1 DEF SnapInv, FetchTypeOK, Pagers, GenericReads
  <2>3. at \in Addresses /\ asked \in SUBSET Addresses
    BY <2>1 DEF Fetch
  <2> QED BY <1>0, <2>1, <2>2, <2>3, GenericIs, PendingIs, CalmSite, LastPageIs, BeforeIs
          DEF GenericReads
<1>5. LastPage >= 1
  <2>1. site # {}
    BY <1>3 DEF Named
  <2>2. n # 0
    BY <1>4, <2>1, JobsAreFinite, FS_EmptySet
  <2>3. n <= LastPage * PageSize
    BY <1>4, PagesForIs DEF LastPage
  <2>4. LastPage = 0 => LastPage * PageSize = 0
    BY <1>4
  <2> QED BY <1>4, <2>2, <2>3, <2>4
<1>6. /\ fetch.page = Cardinality(asked) /\ fetch.requests = fetch.page
      /\ asked \in SUBSET GenericPages /\ at \in GenericPages \ asked
      /\ at = 0 => asked = {}
      /\ fetch.seen \subseteq UNION {Shows(a) : a \in asked}
  BY <1>0, <1>2 DEF GenericRoom
<1>7. /\ fetch.page \in Nat /\ Cardinality(asked \cup {at}) = fetch.page + 1
      /\ fetch.page + 1 <= pages
  BY <1>4, <1>6, GenericPagesAre
<1> HIDE DEF n, pages
<1>8. fetch.requests < MaxRequests
  <2>1. pages \in Nat
    BY <1>4 DEF pages
  <2> QED BY <1>3, <1>4, <1>6, <1>7, <2>1
<1>9. ~Broken /\ ~Escapes /\ ~Disturbed(0)
  BY <1>1 DEF Broken, Escapes, Disturbed
<1>10. PICK r \in Responses \cup {TrueResponse(fetch.at)} :
         /\ Sends(r = TrueResponse(fetch.at))
         /\ Follows(r, [Counted EXCEPT !.page = @ + 1, !.asked = @ \cup {fetch.at},
                                       !.seen = @ \cup r.jobs])
  <2>1. ~(fetch.requests >= MaxRequests)
    BY <1>4, <1>6, <1>7, <1>8
  <2> QED BY <1>9, <2>1, Zenon DEF GenericPage
<1> DEFINE now == [Counted EXCEPT !.page = @ + 1, !.asked = @ \cup {fetch.at},
                                  !.seen = @ \cup r.jobs]
<1>11. r.jobs = Shows(at) /\ r.links = Links(at)
  <2>1. r = TrueResponse(fetch.at)
    BY <1>1, <1>10 DEF Sends, Request
  <2> QED BY <2>1 DEF TrueResponse
<1>12. /\ now.page = fetch.page + 1 /\ now.asked = asked \cup {at} /\ now.phase = "start"
       /\ now.seen = fetch.seen \cup Shows(at) /\ now.requests = fetch.requests + 1
       /\ now \in Fetch
  <2> DEFINE c == Counted
             p == c.page + 1
  <2>1. /\ c \in Fetch /\ c.page = fetch.page /\ c.seen = fetch.seen /\ c.phase = "start"
        /\ c.asked = fetch.asked /\ c.requests = fetch.requests + 1
    BY <1>0, <1>4, CountedIsFetch
  <2> HIDE DEF c
  <2>2. p = fetch.page + 1 /\ p \in Nat
    BY <1>7, <2>1
  <2>3. now = [c EXCEPT !.page = p, !.asked = @ \cup {fetch.at}, !.seen = @ \cup r.jobs]
    BY Zenon DEF c, p
  <2> HIDE DEF now, p
  <2>4. r.jobs \in SUBSET Jobs /\ fetch.at \in Addresses
    BY <1>4, <1>11, LinksAre
  <2>5. /\ now.page = p /\ now.asked = c.asked \cup {fetch.at} /\ now.phase = c.phase
        /\ now.seen = c.seen \cup r.jobs /\ now.requests = c.requests
        /\ now \in Fetch
    BY <2>1, <2>2, <2>3, <2>4 DEF Fetch
  <2> QED BY <1>11, <2>1, <2>2, <2>5
<1>13. Follows(r, now)
  BY <1>10
<1> HIDE DEF now
<1>14. GenericRoom' => Room'
  BY <1>0, <1>1 DEF Room
<1>15. LastPage' = LastPage /\ GenericPages' = GenericPages /\ \A a : Shows(a)' = Shows(a)
  BY <1>1 DEF LastPage, PagesFor, GenericPages, Shows, Window, PageOf, Again
(* The next page, which was not asked for.                                 *)
<1>16. ASSUME NEW a \in GenericPages, a \notin now.asked, a # 0,
              Proceeds([now EXCEPT !.at = a])
       PROVE  outcome' # "raised" /\ (outcome' = "pending" => Room')
  <2>1. PICK f : f = [now EXCEPT !.at = a]
    OBVIOUS
  <2>2. /\ f.at = a /\ f.page = now.page /\ f.asked = now.asked /\ f.seen = now.seen
        /\ f.requests = now.requests
    BY <1>12, <2>1 DEF Fetch
  <2>3. fetch' = f /\ outcome' = "pending"
    BY <1>0, <1>16, <2>1 DEF Proceeds
  <2>4. f.page = Cardinality(f.asked) /\ f.requests = f.page
    BY <1>6, <1>7, <1>12, <2>2
  <2>5. f.asked \cup {f.at} \subseteq GenericPages /\ f.at \notin f.asked /\ f.at # 0
    BY <1>6, <1>12, <1>16, <2>2
  <2>6. f.seen \subseteq UNION {Shows(b) : b \in f.asked}
    BY <1>6, <1>12, <2>2
  <2>7. GenericRoom'
    BY <1>15, <2>3, <2>4, <2>5, <2>6 DEF GenericRoom
  <2> QED BY <1>14, <2>3, <2>7
<1>17. CASE at = 0
  <2>1. fetch.seen = {} /\ style.landing /\ asked = {}
    BY <1>4, <1>6, <1>17 DEF GoesOnAt
  <2>2. r.jobs = {} /\ HasForm
    BY <1>11, <1>17, <2>1 DEF HasForm, Shows
  <2>3. now.page = 1 /\ now.page # PageLimit
    <3>1. fetch.page = 0
      BY <1>6, <2>1, FS_EmptySet
    <3>2. pages >= 2 /\ pages \in Nat
      BY <1>4, <1>5, <2>1 DEF pages
    <3> QED BY <1>3, <1>4, <1>12, <3>1, <3>2
  <2>4. Proceeds([now EXCEPT !.at = 1])
    BY <1>13, <2>1, <2>2, <2>3 DEF Follows
  <2>5. 1 \in GenericPages /\ 1 \notin now.asked
    BY <1>4, <1>5, <1>12, <1>17, <2>1 DEF GenericPages
  <2> QED BY <1>16, <2>4, <2>5
<1>18. CASE at # 0
  <2>1. at \in 1 .. LastPage
    BY <1>6, <1>18 DEF GenericPages
  <2>2. ~BringsNothing(r)
    <3>1. ASSUME Shows(at) \subseteq fetch.seen PROVE FALSE
      <4>1. PICK j \in Shows(at) : TRUE
        BY <1>4, <2>1, PagesDiffer
      <4>2. PICK b \in asked : j \in Shows(b)
        BY <1>6, <3>1, <4>1
      <4>3. b # at /\ b # 0
        BY <1>6, <4>2 DEF Shows
      <4>4. b \in 1 .. LastPage
        BY <1>6, <4>3 DEF GenericPages
      <4> QED BY <1>4, <2>1, <4>1, <4>2, <4>3, <4>4, PagesDiffer
    <3> QED BY <1>11, <3>1 DEF BringsNothing
  <2>3. ~HasForm
    BY <1>18 DEF HasForm
  <2>4. CASE Fresh(r, now) = {}
    <3>1. Extracts(now)
      BY <1>13, <2>2, <2>3, <2>4 DEF Follows
    <3>2. Links(at) \subseteq asked \cup {at}
      BY <1>11, <1>12, <2>4 DEF Fresh
    <3>3. site \subseteq now.seen
      BY <1>4, <1>12, <1>18, <3>2, AllWasSeen
    <3>4. Named(now.seen) # {}
      BY <1>3, <3>3 DEF Named
    <3>5. PICK f : f = [now EXCEPT !.phase = "details", !.queue = Named(now.seen),
                                   !.records = Same(Named(now.seen))]
      OBVIOUS
    <3>6. fetch' = f /\ f.phase = "details" /\ outcome' = "pending"
      BY <1>0, <1>12, <3>1, <3>4, <3>5 DEF Extracts, Proceeds, Fetch
    <3>7. GenericRoom'
      BY <3>6 DEF GenericRoom
    <3> QED BY <1>14, <3>6, <3>7
  <2>5. CASE Fresh(r, now) # {}
    <3>1. Fresh(r, now) \subseteq (1 .. LastPage) \ now.asked
      <4>1. CASE LastPage <= 1
        <5>1. Links(at) = {}
          BY <4>1 DEF Links, LastPage
        <5> QED BY <1>11, <5>1 DEF Fresh
      <4>2. CASE ~(LastPage <= 1)
        <5>1. style.pager \in {"next", "all"} /\ PageOf(at) = at
          BY <1>3, <1>4, <2>1, <4>2, PagesDiffer
        <5>2. Links(at) \subseteq 1 .. LastPage
          BY <1>18, <4>2, <5>1 DEF Links, LastPage
        <5> QED BY <1>11, <5>2 DEF Fresh
      <4> QED BY <4>1, <4>2
    <3>2. PICK b \in Fresh(r, now) : TRUE
      BY <2>5
    <3>3. now.page # PageLimit
      <4>1. now.asked \in SUBSET GenericPages /\ b \in GenericPages \ now.asked
        BY <1>6, <1>12, <3>1, <3>2 DEF GenericPages
      <4>2. Cardinality(now.asked) + 1 <= pages
        BY <1>4, <4>1, GenericPagesAre DEF pages
      <4>3. Cardinality(now.asked) = now.page /\ now.page \in Nat /\ pages \in Nat
        BY <1>4, <1>7, <1>12 DEF pages
      <4> QED BY <1>3, <1>4, <4>2, <4>3
    <3>4. PICK a \in Fresh(r, now) : Proceeds([now EXCEPT !.at = a])
      BY <1>13, <2>2, <2>3, <2>5, <3>3 DEF Follows
    <3>5. a \in GenericPages /\ a \notin now.asked /\ a # 0
      BY <1>4, <3>1, <3>4 DEF GenericPages
    <3> QED BY <1>16, <3>4, <3>5
  <2> QED BY <2>4, <2>5
<1> QED BY <1>17, <1>18

LEMMA GenericCause ==
  ASSUME SnapInv, FetchInv, CauseInv, GenericNext
  PROVE  CauseInv'
<1>1. CASE GenericPage
  BY <1>1, GenericPageCause
<1>2. CASE GenericDetail
  <2>0. /\ Running("generic") /\ outcome = "pending" /\ adapter = "generic"
        /\ fetch.phase = "details" /\ FetchNext
    BY <1>2 DEF GenericDetail, In, Running, FetchNext, GenericNext
  <2> SUFFICES ASSUME Calm', Calm, Serves', Serves => Room
               PROVE  outcome' # "raised" /\ (outcome' = "pending" => Room')
    BY <2>0, CauseKept
  <2>1. odd = 0 /\ odd' = 0 /\ adapter' = adapter
    BY <2>0, CalmStays
  <2>2. fetch \in Fetch /\ Counted \in Fetch /\ Counted.phase = "details"
    BY <2>0, GenericIs, CountedIsFetch
  <2>3. ~Escapes
    BY <2>1 DEF Escapes, Disturbed
  <2> DEFINE j == First(fetch.queue)
             c == Counted
             now == [c EXCEPT !.queue = @ \ {j}, !.skip = @ + 1]
  <2>4. \/ Proceeds([fetch EXCEPT !.queue = @ \ {j}])
        \/ Proceeds(now)
        \/ \E k : Proceeds([now EXCEPT !.records = (@ \ {<<j, j>>}) \cup {<<j, k>>}])
    BY <1>2, <2>3, Zenon DEF GenericDetail
  <2> HIDE DEF j, c
  <2>5. now.phase = "details" /\ [fetch EXCEPT !.queue = @ \ {j}].phase = "details"
    BY <2>0, <2>2 DEF Fetch, c
  <2>6. \A k : [now EXCEPT !.records = (@ \ {<<j, j>>}) \cup {<<j, k>>}].phase = "details"
    BY <2>2 DEF Fetch, c
  <2> HIDE DEF now
  <2>7. fetch'.phase = "details" /\ outcome' = "pending"
    BY <2>0, <2>4, <2>5, <2>6 DEF Proceeds
  <2>8. GenericRoom'
    BY <2>7 DEF GenericRoom
  <2> QED BY <2>0, <2>1, <2>7, <2>8 DEF Room
<1>3. CASE GenericReturns
  <2>1. outcome' = "returned" /\ FetchNext /\ outcome = "pending" /\ adapter = "generic"
    BY <1>3 DEF GenericReturns, Returns, FetchNext, GenericNext, In, Running
  <2> QED BY <2>1, CauseKept
<1> QED BY <1>1, <1>2, <1>3 DEF GenericNext

-----------------------------------------------------------------------------
(* Darwinbox: true bodies are the pages in order, none of them is odd, and *)
(* they are loaded when every posting is on one.                           *)
LEMMA TrueBodies ==
  ASSUME site \in SUBSET Jobs, Len(browser.bodies) \in Nat,
         \A k \in 1 .. Len(browser.bodies) : browser.bodies[k] = TrueAnswer(k)
  PROVE  /\ \A k \in 0 .. Len(browser.bodies) :
              k * PageSize \in Nat /\ Captured(k) = Before(k * PageSize)
         /\ OddBodies = {}
         /\ Loaded /\ Len(browser.bodies) > 0
              => Cardinality(site) <= Len(browser.bodies) * PageSize
<1> DEFINE m == Len(browser.bodies)
           n == Cardinality(site)
<1>1. /\ PageSize \in Nat \ {0} /\ n \in Nat /\ m \in Nat
      /\ \A j \in site : Rank(j) \in Nat /\ Rank(j) < n
  BY BeforeIs, FetchAssumption DEF FetchAssumption
<1>2. ASSUME NEW k \in Nat
      PROVE  /\ k * PageSize \in Nat
             /\ k >= 1 => /\ (k - 1) * PageSize \in Nat
                          /\ (k - 1) * PageSize + PageSize = k * PageSize
  BY <1>1
<1>3. ASSUME NEW k \in 1 .. m
      PROVE  /\ browser.bodies[k].jobs = Window((k - 1) * PageSize, PageSize)
             /\ browser.bodies[k].total = n
  <2>1. browser.bodies[k] = TrueAnswer(k)
    BY <1>3
  <2> QED BY <2>1 DEF TrueAnswer
<1> HIDE DEF m, n
<1>4. ASSUME NEW k \in 0 .. m PROVE Captured(k) = Before(k * PageSize)
  <2>0. k \in Nat /\ k * PageSize \in Nat /\ \A i \in 1 .. k : i \in 1 .. m
    BY <1>1, <1>2
  <2>1. ASSUME NEW j \in Captured(k) PROVE j \in Before(k * PageSize)
    <3>1. PICK i \in 1 .. k : j \in browser.bodies[i].jobs
      BY <2>1 DEF Captured
    <3> DEFINE x == (i - 1) * PageSize
    <3>2. x \in Nat /\ x + PageSize = i * PageSize /\ j \in Window(x, PageSize)
      <4>1. i \in Nat /\ i >= 1 /\ i \in 1 .. m
        BY <2>0
      <4> QED BY <1>2, <1>3, <3>1, <4>1
    <3> HIDE DEF x
    <3>3. j \in site /\ Rank(j) < x + PageSize
      BY <1>1, <3>2, WindowIs
    <3>4. i * PageSize <= k * PageSize /\ i * PageSize \in Nat
      BY <1>1, <2>0
    <3>5. Rank(j) < k * PageSize
      BY <1>1, <2>0, <3>2, <3>3, <3>4
    <3> QED BY <3>3, <3>5 DEF Before
  <2>2. ASSUME NEW j \in Before(k * PageSize) PROVE j \in Captured(k)
    <3> DEFINE q == Rank(j) \div PageSize
    <3>1. j \in site /\ Rank(j) \in Nat /\ Rank(j) < k * PageSize
      BY <1>1, <2>2 DEF Before
    <3>2. q \in Nat /\ q * PageSize <= Rank(j) /\ Rank(j) < q * PageSize + PageSize
      BY <1>1, <3>1
    <3> HIDE DEF q
    <3>3. q < k
      <4>1. q >= k => q * PageSize >= k * PageSize
        BY <1>1, <2>0, <3>2
      <4>2. q * PageSize \in Nat
        BY <1>2, <3>2
      <4> QED BY <2>0, <3>1, <3>2, <4>1, <4>2
    <3>4. q + 1 \in 1 .. k /\ (q + 1) - 1 = q /\ q * PageSize \in Nat
      BY <1>2, <2>0, <3>2, <3>3
    <3>5. j \in Window(q * PageSize, PageSize)
      BY <1>1, <3>1, <3>2, <3>4, WindowIs
    <3>6. browser.bodies[q + 1].jobs = Window(q * PageSize, PageSize)
      <4>1. q + 1 \in 1 .. m
        BY <2>0, <3>4
      <4>2. browser.bodies[q + 1].jobs = Window(((q + 1) - 1) * PageSize, PageSize)
        BY <1>3, <4>1
      <4> QED BY <3>4, <4>2
    <3> QED BY <3>4, <3>5, <3>6 DEF Captured
  <2> QED BY <2>1, <2>2
<1>5. ASSUME NEW k \in 1 .. m PROVE ~BodyIsOdd(k)
  <2> DEFINE x == (k - 1) * PageSize
  <2>1. /\ k \in 0 .. m /\ k - 1 \in 0 .. m /\ k \in Nat /\ 1 \in 1 .. m
    BY <1>1
  <2>2. x \in Nat /\ x + PageSize = k * PageSize
    BY <1>2, <2>1
  <2>3. /\ Captured(k) = Before(x + PageSize) /\ Captured(k - 1) = Before(x)
        /\ browser.bodies[k].total = n /\ browser.bodies[1].total = n
    BY <1>3, <1>4, <2>1, <2>2
  <2> HIDE DEF x
  <2>4. /\ Before(x) \subseteq site /\ Before(x + PageSize) \subseteq site
        /\ Before(x) = site <=> n <= x
    BY <1>1, <2>2, BeforeIs DEF n
  <2>5. Before(x + PageSize) = Before(x) => n <= x
    BY <1>1, <2>2, NextWindow DEF n
  <2>6. Cardinality(Before(x + PageSize)) \in Nat /\ Cardinality(Before(x + PageSize)) <= n
    BY <2>4, JobsAreFinite DEF n
  <2>7. Captured(k) = Captured(k - 1) => Cardinality(Captured(k)) = n
    BY <2>3, <2>4, <2>5 DEF n
  <2> QED BY <1>1, <2>3, <2>6, <2>7 DEF BodyIsOdd
<1>6. OddBodies = {}
  BY <1>5 DEF OddBodies, m
<1>7. ASSUME Loaded, m > 0 PROVE n <= m * PageSize
  <2>1. m \in 0 .. m /\ 1 \in 1 .. m
    BY <1>1, <1>7
  <2>2. Captured(m) = Before(m * PageSize) /\ m * PageSize \in Nat /\ browser.bodies[1].total = n
    BY <1>1, <1>2, <1>3, <1>4, <2>1
  <2>3. /\ Before(m * PageSize) \in SUBSET site
        /\ Before(m * PageSize) = site <=> n <= m * PageSize
    BY <2>2, BeforeIs DEF n
  <2>4. Cardinality(Before(m * PageSize)) >= n
    BY <1>7, <2>2 DEF Loaded, m
  <2>5. Cardinality(Before(m * PageSize)) = n
    <3>1. Cardinality(Before(m * PageSize)) \in Nat /\ Cardinality(Before(m * PageSize)) <= n
      BY <2>3, JobsAreFinite DEF n
    <3> QED BY <1>1, <2>4, <3>1
  <2> QED BY <2>3, <2>5, JobsAreFinite DEF n
<1> QED BY <1>2, <1>1, <1>4, <1>6, <1>7 DEF m, n

(* A step of a calm fetch of Darwinbox.                                    *)
LEMMA CalmDarwinbox ==
  ASSUME SnapInv, FetchInv, DarwinboxNext, Calm, Calm', DarwinboxServes, DarwinboxRoom
  PROVE  /\ Running("darwinbox") /\ outcome = "pending" /\ odd = 0 /\ odd' = 0
         /\ site' = site /\ Ever = site /\ site \in SUBSET Jobs /\ Cardinality(site) \in Nat
         /\ fetch \in Fetch /\ fetch.page \in Nat /\ PageSize \in Nat \ {0}
         /\ PageLimit \in Nat /\ Cardinality(site) <= PageLimit * PageSize
         /\ site \cap Untitled = {}
         /\ Len(browser.bodies) \in Nat /\ browser.trouble = {}
         /\ \A k \in 1 .. Len(browser.bodies) : browser.bodies[k] = TrueAnswer(k)
         /\ \A k : Before(k)' = Before(k) /\ TrueAnswer(k)' = TrueAnswer(k)
         /\ ~Broken /\ ~RespondsBadly /\ \A k : ~Disturbed(k)
<1>0. Running("darwinbox") /\ FetchNext
  BY DEF DarwinboxNext, DarwinboxStart, BrowserEmits, BrowserLooks, BrowserClicks, BrowserCloses,
         DarwinboxPage, DarwinboxRead, DarwinboxPosting, DarwinboxPageEnds, In, FetchNext
<1>1. /\ outcome = "pending" /\ odd = 0 /\ odd' = 0 /\ site' = site /\ Ever = site
      /\ \A j : Rank(j)' = Rank(j)
  BY <1>0, CalmStays, CalmSite
<1>2. /\ site \in SUBSET Jobs /\ Cardinality(site) \in Nat /\ PageSize \in Nat \ {0}
      /\ fetch \in Fetch /\ fetch.page \in Nat /\ PageLimit \in Nat
      /\ Len(browser.bodies) \in Nat
  BY <1>0, DarwinboxIs, BeforeIs, FetchAssumption DEF FetchAssumption
<1>3. Cardinality(site) <= PageLimit * PageSize /\ site \cap Untitled = {}
  BY <1>2 DEF DarwinboxServes
<1>4. /\ browser.trouble = {}
      /\ \A k \in 1 .. Len(browser.bodies) : browser.bodies[k] = TrueAnswer(k)
  BY DEF DarwinboxRoom
<1>5. ASSUME NEW k PROVE Before(k)' = Before(k)
  BY <1>1 DEF Before
<1>6. ASSUME NEW k PROVE TrueAnswer(k)' = TrueAnswer(k)
  <2>1. Window((k - 1) * PageSize, PageSize)' = Window((k - 1) * PageSize, PageSize)
    BY <1>1 DEF Window
  <2> QED BY <1>1, <2>1 DEF TrueAnswer
<1>7. ~Broken /\ ~RespondsBadly /\ \A k : ~Disturbed(k)
  BY <1>1 DEF Broken, Disturbed, RespondsBadly, Sends, Request
<1> QED BY <1>0, <1>1, <1>2, <1>3, <1>4, <1>5, <1>6, <1>7

(* A listing that the browser captures then is the next page.              *)
LEMMA RespondsTruly ==
  ASSUME SnapInv, FetchInv, DarwinboxNext, Calm, Calm', DarwinboxServes, DarwinboxRoom,
         Responds
  PROVE  /\ browser'.trouble = {} /\ Len(browser'.bodies) = Len(browser.bodies) + 1
         /\ \A k \in 1 .. Len(browser'.bodies) : browser'.bodies[k] = TrueAnswer(k)
<1> DEFINE n == Len(browser.bodies)
           m == n + 1
<1>1. PICK body \in Answers : /\ Request(body = TrueAnswer(Len(browser.bodies) + 1), {body.total})
                             /\ browser' = Capture(body)
  BY DEF Responds
<1>2. /\ n \in Nat /\ odd = 0 /\ odd' = 0 /\ browser.trouble = {}
      /\ \A k \in 1 .. n : browser.bodies[k] = TrueAnswer(k)
      /\ browser \in [bodies : Seq(Answer), trouble : SUBSET Nat]
  BY CalmDarwinbox, DarwinboxIs
<1>3. body = TrueAnswer(m) /\ body \in Answer
  BY <1>1, <1>2, AnswersAreTyped DEF Request
<1>4. browser'.bodies = Append(browser.bodies, body) /\ browser'.trouble = {}
  <2> DEFINE S == Append(browser.bodies, body)
  <2>1. browser' = [browser EXCEPT !.bodies = S]
    BY <1>1 DEF Capture
  <2> HIDE DEF S
  <2>2. browser'.bodies = S /\ browser'.trouble = {}
    BY <1>2, <2>1
  <2> QED BY <2>2 DEF S
<1>5. /\ browser.bodies \in Seq(Answer) /\ Len(browser'.bodies) = m /\ browser'.bodies[m] = body
      /\ \A k \in 1 .. n : browser'.bodies[k] = browser.bodies[k]
  BY <1>2, <1>3, <1>4
<1>6. \A k \in 1 .. m : k = m \/ k \in 1 .. n
  BY <1>2
<1> QED BY <1>2, <1>3, <1>4, <1>5, <1>6

(* The browser captures page after page until it has them all.             *)
LEMMA BrowserCause ==
  ASSUME SnapInv, FetchInv, DarwinboxNext, Calm, Calm', DarwinboxServes, DarwinboxRoom,
         DarwinboxStart \/ BrowserEmits \/ BrowserLooks \/ BrowserClicks \/ BrowserCloses
  PROVE  outcome' # "raised" /\ DarwinboxRoom'
<1> DEFINE m == Len(browser.bodies)
           n == Cardinality(site)
<1>0. /\ Running("darwinbox") /\ outcome = "pending" /\ site' = site /\ site \in SUBSET Jobs
      /\ n \in Nat /\ m \in Nat /\ fetch \in Fetch /\ fetch.page \in Nat
      /\ PageSize \in Nat \ {0} /\ PageLimit \in Nat /\ n <= PageLimit * PageSize
      /\ browser.trouble = {} /\ \A k \in 1 .. m : browser.bodies[k] = TrueAnswer(k)
      /\ \A k : Before(k)' = Before(k) /\ TrueAnswer(k)' = TrueAnswer(k)
  BY CalmDarwinbox
<1>1. ~RespondsBadly /\ \A k : ~Disturbed(k)
  BY CalmDarwinbox
<1>2. browser.bodies # <<>> <=> m > 0
  <2>1. browser.bodies \in Seq(Answer)
    BY <1>0, DarwinboxIs
  <2> QED BY <1>0, <2>1, EmptySeq
<1>3. OddBodies = {} /\ (Loaded /\ m > 0 => n <= m * PageSize)
  BY <1>0, TrueBodies
<1>4. /\ fetch.phase = "clicking" => fetch.page <= m
      /\ fetch.phase = "closed" => n <= m * PageSize /\ m > 0
  BY DEF DarwinboxRoom
(* The same bodies, and another phase.                                     *)
<1>5. ASSUME UNCHANGED browser, NEW f, Proceeds(f),
             \/ f.phase = "opening"
             \/ f.phase = "clicking" /\ f.page <= m
             \/ f.phase = "closed" /\ n <= m * PageSize /\ m > 0
             \/ f.phase = "listing" /\ browser.bodies = <<>> /\ f.page = 1 /\ f.seen = {}
             \/ f.phase = "reading" /\ n <= m * PageSize /\ m > 0 /\ f.page = 1 /\ f.seen = {}
      PROVE  outcome' # "raised" /\ DarwinboxRoom'
  <2>1. outcome' = "pending" /\ fetch' = f /\ browser' = browser /\ Len(browser'.bodies) = m
    BY <1>0, <1>5 DEF Proceeds
  <2>2. f.phase \in {"listing", "reading"} => f.seen = Before((f.page - 1) * PageSize) /\ ~(f.page > 1)
    <3> SUFFICES ASSUME f.phase \in {"listing", "reading"}
                 PROVE  f.seen = Before((f.page - 1) * PageSize) /\ ~(f.page > 1)
      OBVIOUS
    <3>1. f.page = 1 /\ f.seen = {}
      BY <1>5
    <3>2. (f.page - 1) * PageSize = 0
      BY <1>0, <3>1
    <3> QED BY <1>0, <3>1, <3>2, BeforeIs
  <2>3. f.phase = "closed" \/ (f.phase \notin Browsing /\ browser.bodies # <<>>) =>
          n <= m * PageSize /\ m > 0
    BY <1>5 DEF Browsing
  <2>4. /\ f.phase = "clicking" => f.page <= m
        /\ f.phase # "postings"
    BY <1>5
  <2> QED BY <1>0, <2>1, <2>2, <2>3, <2>4 DEF DarwinboxRoom, Offline
(* One body more, while the browser is open.                               *)
<1>6. ASSUME Responds, NEW f, fetch' = f, outcome' = outcome,
             f.phase = "opening" \/ (f.phase = "clicking" /\ f.page <= m + 1)
      PROVE  outcome' # "raised" /\ DarwinboxRoom'
  <2>1. /\ browser'.trouble = {} /\ Len(browser'.bodies) = m + 1
        /\ \A k \in 1 .. Len(browser'.bodies) : browser'.bodies[k] = TrueAnswer(k)
    BY <1>6, RespondsTruly
  <2>2. f.phase \in Browsing /\ f.phase # "closed" /\ f.phase # "postings"
        /\ f.phase \notin {"listing", "reading"}
    BY <1>6 DEF Browsing
  <2> QED BY <1>0, <1>6, <2>1, <2>2 DEF DarwinboxRoom
<1>7. CASE DarwinboxStart
  <2>1. PICK p \in {"listing", "opening"} : Proceeds([fetch EXCEPT !.phase = p, !.page = 1])
    BY <1>7 DEF DarwinboxStart
  <2>2. fetch.phase = "start" /\ UNCHANGED browser
    BY <1>7 DEF DarwinboxStart, In
  <2>3. fetch.seen = {} /\ browser.bodies = <<>>
    <3>1. BrowserReads
      BY <1>0, <2>2, DarwinboxIs DEF DarwinboxReads
    <3> QED BY <2>2, <3>1 DEF BrowserReads
  <2> DEFINE f == [fetch EXCEPT !.phase = p, !.page = 1]
  <2>4. Proceeds(f) /\ f.phase = p /\ f.page = 1 /\ f.seen = {}
    BY <1>0, <2>1, <2>3 DEF Fetch
  <2> HIDE DEF f
  <2> QED BY <1>5, <2>2, <2>3, <2>4
<1>8. CASE BrowserEmits
  <2>1. Responds /\ fetch' = fetch /\ outcome' = outcome /\ fetch.phase = "opening"
    BY <1>1, <1>8 DEF BrowserEmits, In
  <2> QED BY <1>6, <2>1
<1>9. CASE BrowserLooks
  <2>1. /\ browser.bodies # <<>> /\ Proceeds([fetch EXCEPT !.phase = "clicking"])
        /\ UNCHANGED browser /\ fetch.phase = "opening"
    BY <1>0, <1>1, <1>9 DEF BrowserLooks, In
  <2>2. fetch.page = 1
    <3>1. BrowserReads
      BY <1>0, <2>1, BrowserIs DEF Browsing
    <3> QED BY <2>1, <3>1 DEF BrowserReads
  <2> DEFINE f == [fetch EXCEPT !.phase = "clicking"]
  <2>3. Proceeds(f) /\ f.phase = "clicking" /\ f.page = 1
    BY <1>0, <2>1, <2>2 DEF Fetch
  <2> HIDE DEF f
  <2>4. 1 <= m
    BY <1>0, <1>2, <2>1
  <2> QED BY <1>5, <2>1, <2>3, <2>4
<1>10. CASE BrowserClicks
  <2>1. fetch.phase = "clicking" /\ fetch.page <= m /\ fetch.page \in 1 .. PageLimit
    <3>1. fetch.phase = "clicking"
      BY <1>10 DEF BrowserClicks, In
    <3>2. BrowserReads
      BY <1>0, <3>1, BrowserIs DEF Browsing
    <3> QED BY <1>4, <3>1, <3>2 DEF BrowserReads
  <2>2. m > 0
    BY <1>0, <2>1
  <2> DEFINE f == [fetch EXCEPT !.phase = "closed"]
             g == [fetch EXCEPT !.page = @ + 1]
  <2>3. \/ Proceeds(f) /\ UNCHANGED browser /\ (fetch.page = PageLimit \/ Loaded)
        \/ Proceeds(g) /\ Responds
    BY <1>1, <1>3, <1>10 DEF BrowserClicks, Stops
  <2>4. f.phase = "closed" /\ g.phase = "clicking" /\ g.page = fetch.page + 1
    BY <1>0, <2>1 DEF Fetch
  <2> HIDE DEF f, g
  <2>5. CASE Proceeds(f) /\ UNCHANGED browser /\ (fetch.page = PageLimit \/ Loaded)
    <3>1. fetch.page = PageLimit => PageLimit * PageSize <= m * PageSize
      BY <1>0, <2>1
    <3>2. PageLimit * PageSize \in Nat /\ m * PageSize \in Nat
      BY <1>0
    <3>3. n <= m * PageSize
      BY <1>0, <1>3, <2>2, <2>5, <3>1, <3>2
    <3> QED BY <1>5, <2>2, <2>4, <2>5, <3>3
  <2>6. CASE Proceeds(g) /\ Responds
    <3>1. g.page <= m + 1
      BY <1>0, <2>1, <2>4
    <3> QED BY <1>6, <2>4, <2>6, <3>1 DEF Proceeds
  <2> QED BY <2>3, <2>5, <2>6
<1>11. CASE BrowserCloses
  <2> DEFINE f == [fetch EXCEPT !.phase = "reading", !.page = 1, !.requests = m]
  <2>1. fetch.phase = "closed" /\ Proceeds(f) /\ UNCHANGED browser
    BY <1>0, <1>1, <1>11 DEF BrowserCloses
  <2>2. fetch.seen = {}
    <3>1. BrowserReads
      BY <1>0, <2>1, BrowserIs DEF Browsing
    <3> QED BY <3>1 DEF BrowserReads
  <2>3. f.phase = "reading" /\ f.page = 1 /\ f.seen = {}
    BY <1>0, <2>2 DEF Fetch
  <2> HIDE DEF f
  <2> QED BY <1>4, <1>5, <2>1, <2>3
<1> QED BY <1>7, <1>8, <1>9, <1>10, <1>11

(* A page of the listing is the one after those that were read.            *)
LEMMA TakePageCause ==
  ASSUME SnapInv, FetchInv, DarwinboxNext, Calm, Calm', DarwinboxServes, DarwinboxRoom,
         fetch.phase \in {"listing", "reading"}, UNCHANGED browser,
         NEW now \in Fetch, now.seen = fetch.seen, now.page = fetch.page,
         TakePage(TrueAnswer(fetch.page), now)
  PROVE  outcome' # "raised" /\ DarwinboxRoom'
<1> DEFINE m == Len(browser.bodies)
           n == Cardinality(site)
           x == (fetch.page - 1) * PageSize
           new == Window(x, PageSize) \ now.seen
           f == [now EXCEPT !.phase = "postings", !.queue = new, !.total = n]
<1>0. /\ Running("darwinbox") /\ outcome = "pending" /\ site' = site /\ site \in SUBSET Jobs
      /\ n \in Nat /\ m \in Nat /\ fetch.page \in Nat
      /\ PageSize \in Nat \ {0} /\ browser.trouble = {}
      /\ \A k \in 1 .. m : browser.bodies[k] = TrueAnswer(k)
      /\ \A k : Before(k)' = Before(k) /\ TrueAnswer(k)' = TrueAnswer(k)
  BY CalmDarwinbox
<1>1. fetch.page \in 1 .. PageLimit
  BY <1>0, ListingIs DEF ListingReads
<1>2. /\ x \in Nat /\ x + PageSize = fetch.page * PageSize
      /\ fetch.page >= 1
  BY <1>0, <1>1
<1>3. /\ fetch.seen = Before(x) /\ (fetch.page > 1 => fetch.total = n)
      /\ (browser.bodies # <<>> => n <= m * PageSize /\ m > 0)
  BY DEF DarwinboxRoom, Offline, Browsing
<1>4. TrueAnswer(fetch.page).jobs = Window(x, PageSize) /\ TrueAnswer(fetch.page).total = n
  BY DEF TrueAnswer
<1>5. new = {} => Cardinality(now.seen) = n
  <2> HIDE DEF x, n
  <2>1. Before(x) \cap Window(x, PageSize) = {} /\ (Window(x, PageSize) = {} <=> n <= x)
        /\ (Before(x) = site <=> n <= x)
    BY <1>0, <1>2, NextWindow, BeforeIs DEF n
  <2> QED BY <1>3, <2>1 DEF n
<1>6. Proceeds(f)
  <2>1. TotalIsKept(TrueAnswer(fetch.page))
    BY <1>1, <1>2, <1>3, <1>4, <1>0 DEF TotalIsKept
  <2>2. ~(new = {} /\ Cardinality(now.seen) < n)
    BY <1>0, <1>5
  <2> QED BY <1>4, <2>1, <2>2 DEF TakePage
<1>7. Before(x) \cup new = Before(fetch.page * PageSize)
  <2> HIDE DEF x
  <2>1. Before(x) \cup Window(x, PageSize) = Before(x + PageSize)
    BY <1>0, <1>2, NextWindow
  <2> QED BY <1>2, <1>3, <2>1
<1> HIDE DEF x, n, new, m
<1>8. /\ f.phase = "postings" /\ f.page = fetch.page /\ f.seen = fetch.seen
      /\ f.queue = new /\ f.total = n
  BY DEF Fetch
<1> HIDE DEF f
<1>9. fetch' = f /\ outcome' = "pending"
  BY <1>0, <1>6 DEF Proceeds
<1>10. f.seen \cup f.queue = Before(f.page * PageSize)
  BY <1>3, <1>7, <1>8
<1> QED BY <1>0, <1>3, <1>8, <1>9, <1>10 DEF DarwinboxRoom, Offline, m, n

LEMMA DarwinboxPageCause ==
  ASSUME SnapInv, FetchInv, DarwinboxNext, Calm, Calm', DarwinboxServes, DarwinboxRoom,
         DarwinboxPage \/ DarwinboxRead
  PROVE  outcome' # "raised" /\ DarwinboxRoom'
<1> DEFINE m == Len(browser.bodies)
           n == Cardinality(site)
<1>0. /\ Running("darwinbox") /\ site \in SUBSET Jobs /\ n \in Nat /\ m \in Nat
      /\ fetch \in Fetch /\ fetch.page \in Nat /\ PageSize \in Nat \ {0} /\ ~Broken
      /\ odd = 0 /\ odd' = 0
      /\ \A k \in 1 .. m : browser.bodies[k] = TrueAnswer(k)
  BY CalmDarwinbox
<1>1. CASE DarwinboxPage
  <2>1. PICK answer \in Answers :
          Request(answer = TrueAnswer(fetch.page), {answer.total}) /\ TakePage(answer, Counted)
    BY <1>0, <1>1 DEF DarwinboxPage
  <2>2. answer = TrueAnswer(fetch.page) /\ TakePage(TrueAnswer(fetch.page), Counted)
    BY <1>0, <2>1 DEF Request
  <2>3. fetch.phase = "listing" /\ UNCHANGED browser
    BY <1>1 DEF DarwinboxPage, In
  <2> DEFINE now == Counted
  <2>4. now \in Fetch /\ now.seen = fetch.seen /\ now.page = fetch.page
    BY <1>0, CountedIsFetch
  <2>5. TakePage(TrueAnswer(fetch.page), now)
    BY <2>2
  <2> HIDE DEF now
  <2> QED BY <2>3, <2>4, <2>5, TakePageCause
<1>2. CASE DarwinboxRead
  <2>1. fetch.phase = "reading" /\ UNCHANGED browser
    BY <1>2 DEF DarwinboxRead, In
  <2>2. ListingReads /\ fetch.page \in 1 .. PageLimit /\ Offline
    BY <1>0, <2>1, ListingIs DEF ListingReads
  <2>3. /\ n <= m * PageSize /\ m > 0
        /\ fetch.page > 1 => (fetch.page - 1) * PageSize < n
    BY <2>1, <2>2 DEF DarwinboxRoom, Browsing
  <2>4. fetch.page <= m
    <3>1. CASE fetch.page > 1
      <4> DEFINE p == fetch.page - 1
      <4>1. p \in Nat /\ p * PageSize < n /\ fetch.page = p + 1
        BY <1>0, <2>3, <3>1
      <4> HIDE DEF p, n, m
      <4>2. p >= m => p * PageSize >= m * PageSize
        BY <1>0, <4>1
      <4>3. p * PageSize \in Nat /\ m * PageSize \in Nat
        BY <1>0, <4>1
      <4> QED BY <1>0, <2>3, <4>1, <4>2, <4>3
    <3>2. CASE ~(fetch.page > 1)
      BY <1>0, <2>3, <3>2
    <3> QED BY <3>1, <3>2
  <2>5. browser.bodies[fetch.page] = TrueAnswer(fetch.page)
    BY <1>0, <2>2, <2>4
  <2>6. TakePage(TrueAnswer(fetch.page), fetch)
    BY <1>2, <2>4, <2>5 DEF DarwinboxRead
  <2> QED BY <1>0, <2>1, <2>6, TakePageCause
<1> QED BY <1>1, <1>2

(* The postings of a page, each with a title and a detail of its own.      *)
LEMMA DarwinboxPostingCause ==
  ASSUME SnapInv, FetchInv, DarwinboxNext, Calm, Calm', DarwinboxServes, DarwinboxRoom,
         DarwinboxPosting
  PROVE  outcome' # "raised" /\ DarwinboxRoom'
<1> DEFINE j == First(fetch.queue)
           m == Len(browser.bodies)
           n == Cardinality(site)
           g(now) == [now EXCEPT !.seen = @ \cup {j}, !.queue = @ \ {j},
                                 !.records = @ \cup {<<j, j>>}]
<1>0. /\ Running("darwinbox") /\ outcome = "pending" /\ site' = site /\ site \in SUBSET Jobs
      /\ n \in Nat /\ m \in Nat /\ fetch \in Fetch /\ Ever = site /\ site \cap Untitled = {}
      /\ browser.trouble = {} /\ \A k \in 1 .. m : browser.bodies[k] = TrueAnswer(k)
      /\ \A k : Before(k)' = Before(k) /\ TrueAnswer(k)' = TrueAnswer(k)
  BY CalmDarwinbox
<1>1. odd = 0 /\ odd' = 0 /\ \A k : ~Disturbed(k)
  BY CalmDarwinbox
<1>2. fetch.phase = "postings" /\ fetch.queue # {} /\ browser' = browser
  BY DEF DarwinboxPosting, In
<1>3. j \in fetch.queue /\ j \in site /\ j \notin Untitled
  <2>1. fetch.seen \cup fetch.queue \subseteq Ever
    BY <1>0, DarwinboxIs
  <2> QED BY <1>0, <1>2, <2>1, FirstIsIn
<1>4. /\ fetch.seen \cup fetch.queue = Before(fetch.page * PageSize) /\ fetch.total = n
      /\ (browser.bodies # <<>> => n <= m * PageSize /\ m > 0)
  BY <1>2 DEF DarwinboxRoom, Offline, Browsing
<1>5. ASSUME NEW now \in Fetch, now.phase = fetch.phase, now.page = fetch.page,
             now.total = fetch.total, now.seen = fetch.seen, now.queue = fetch.queue,
             Proceeds(g(now))
      PROVE  outcome' # "raised" /\ DarwinboxRoom'
  <2> DEFINE f == g(now)
  <2> HIDE DEF j
  <2>1. /\ f.phase = "postings" /\ f.page = fetch.page /\ f.total = fetch.total
        /\ f.seen = fetch.seen \cup {j} /\ f.queue = fetch.queue \ {j}
    BY <1>2, <1>5 DEF Fetch
  <2>2. fetch' = f /\ outcome' = "pending"
    BY <1>0, <1>5 DEF Proceeds
  <2> HIDE DEF f, g
  <2>3. f.seen \cup f.queue = Before(f.page * PageSize)
    BY <1>3, <1>4, <2>1
  <2> HIDE DEF n, m
  <2> QED BY <1>0, <1>2, <1>4, <2>1, <2>2, <2>3 DEF DarwinboxRoom, Offline, m, n
<1>6. Counted \in Fetch /\ Counted.phase = fetch.phase /\ Counted.page = fetch.page
      /\ Counted.total = fetch.total /\ Counted.seen = fetch.seen /\ Counted.queue = fetch.queue
  BY <1>0, CountedIsFetch
<1>7. Proceeds(g(fetch)) \/ Proceeds(g(Counted))
  <2>1. ~Refused(j)
    BY <1>1, <1>3 DEF Refused
  <2>2. CASE j \notin Bare /\ Keeps(j, fetch)
    BY <1>3, <2>2 DEF Keeps
  <2>3. ASSUME NEW k \in Ever, Sends(k = j),
               IF ~DetailIsOf(k, j) THEN Raises(fetch.requests + 1)
               ELSE IF j \in Untitled THEN Raises(fetch.requests + 1)
               ELSE Proceeds([Counted EXCEPT !.seen = @ \cup {j}, !.queue = @ \ {j},
                                             !.records = @ \cup {<<j, k>>}])
        PROVE  Proceeds(g(Counted))
    <3>1. k = j
      BY <1>1, <2>3 DEF Sends, Request
    <3> QED BY <1>3, <2>3, <3>1 DEF DetailIsOf
  <2> QED BY <1>1, <2>1, <2>2, <2>3 DEF DarwinboxPosting
<1>8. CASE Proceeds(g(fetch))
  BY <1>0, <1>5, <1>8
<1>9. CASE Proceeds(g(Counted))
  <2> DEFINE now == Counted
  <2>1. Proceeds(g(now))
    BY <1>9
  <2> HIDE DEF g
  <2> QED BY <1>5, <1>6, <2>1
<1> QED BY <1>7, <1>8, <1>9

(* The last page leaves none of the total, another one leaves a page.      *)
LEMMA DarwinboxPageEndsCause ==
  ASSUME SnapInv, FetchInv, DarwinboxNext, Calm, Calm', DarwinboxServes, DarwinboxRoom,
         DarwinboxPageEnds
  PROVE  outcome' # "raised" /\ (outcome' = "pending" => DarwinboxRoom')
<1> DEFINE m == Len(browser.bodies)
           n == Cardinality(site)
           x == fetch.page * PageSize
           p == IF browser.bodies = <<>> THEN "listing" ELSE "reading"
           f == [fetch EXCEPT !.page = @ + 1, !.phase = p]
<1>0. /\ Running("darwinbox") /\ outcome = "pending" /\ site' = site /\ site \in SUBSET Jobs
      /\ n \in Nat /\ m \in Nat /\ fetch \in Fetch /\ fetch.page \in Nat
      /\ PageSize \in Nat \ {0} /\ PageLimit \in Nat /\ n <= PageLimit * PageSize
      /\ browser.trouble = {} /\ \A k \in 1 .. m : browser.bodies[k] = TrueAnswer(k)
      /\ \A k : Before(k)' = Before(k) /\ TrueAnswer(k)' = TrueAnswer(k)
  BY CalmDarwinbox
<1>1. fetch.phase = "postings" /\ fetch.queue = {} /\ browser' = browser
  BY DEF DarwinboxPageEnds, In
<1>2. /\ fetch.seen = Before(x) /\ fetch.total = n
      /\ (browser.bodies # <<>> => n <= m * PageSize /\ m > 0)
  BY <1>1 DEF DarwinboxRoom, Offline, Browsing
<1>3. x \in Nat /\ (fetch.page >= PageLimit => n <= x)
  <2>1. fetch.page >= PageLimit => x >= PageLimit * PageSize
    BY <1>0
  <2>2. x \in Nat /\ PageLimit * PageSize \in Nat
    BY <1>0
  <2> HIDE DEF x
  <2> QED BY <1>0, <2>1, <2>2
<1> HIDE DEF x
<1>4. /\ n <= x => Cardinality(fetch.seen) = n
      /\ Cardinality(fetch.seen) \in Nat /\ Cardinality(fetch.seen) <= n
  BY <1>0, <1>2, <1>3, BeforeIs, JobsAreFinite
<1>5. \/ Returns(fetch)
      \/ Proceeds(f) /\ Cardinality(fetch.seen) < n
  BY <1>0, <1>2, <1>3, <1>4 DEF DarwinboxPageEnds
<1>6. CASE Returns(fetch)
  BY <1>6 DEF Returns
<1>7. CASE Proceeds(f) /\ Cardinality(fetch.seen) < n
  <2>1. f.page = fetch.page + 1 /\ f.phase = p /\ f.seen = fetch.seen /\ f.total = fetch.total
    BY <1>0 DEF Fetch
  <2>2. fetch' = f /\ outcome' = "pending"
    BY <1>0, <1>7 DEF Proceeds
  <2>3. (f.page - 1) * PageSize = x /\ x < n
    <3>1. f.page - 1 = fetch.page
      BY <1>0, <2>1
    <3> QED BY <1>0, <1>3, <1>4, <1>7, <3>1 DEF x
  <2>4. f.phase \in {"listing", "reading"} /\ f.phase \notin Browsing /\ f.phase # "postings"
        /\ f.phase # "closed" /\ f.phase # "clicking"
    BY <2>1 DEF Browsing
  <2> HIDE DEF f, n, m, p
  <2>5. f.seen = Before((f.page - 1) * PageSize) /\ f.total = n
    BY <1>2, <2>1, <2>3
  <2> QED BY <1>0, <1>1, <1>2, <2>2, <2>3, <2>4, <2>5 DEF DarwinboxRoom, Offline, m, n
<1> QED BY <1>5, <1>6, <1>7

LEMMA DarwinboxCause ==
  ASSUME SnapInv, FetchInv, CauseInv, DarwinboxNext
  PROVE  CauseInv'
<1>0. outcome = "pending" /\ adapter = "darwinbox" /\ FetchNext
  BY DEF DarwinboxNext, DarwinboxStart, BrowserEmits, BrowserLooks, BrowserClicks, BrowserCloses,
         DarwinboxPage, DarwinboxRead, DarwinboxPosting, DarwinboxPageEnds, In, Running, FetchNext
<1> SUFFICES ASSUME Calm', Calm, Serves', Serves => Room
             PROVE  outcome' # "raised" /\ (outcome' = "pending" => Room')
  BY <1>0, CauseKept
<1>1. adapter' = adapter /\ site' = site /\ PageLimit' = PageLimit
  BY <1>0, CalmStays
<1>2. DarwinboxServes /\ DarwinboxRoom
  BY <1>0, <1>1 DEF Serves, DarwinboxServes, Room
<1>3. DarwinboxRoom' => Room'
  BY <1>0, <1>1 DEF Room
<1>4. outcome' # "raised" /\ (outcome' = "pending" => DarwinboxRoom')
  BY <1>2, BrowserCause, DarwinboxPageCause, DarwinboxPostingCause, DarwinboxPageEndsCause
     DEF DarwinboxNext
<1> QED BY <1>3, <1>4

-----------------------------------------------------------------------------
(* What happens beside the fetch.                                          *)
LEMMA CauseStays ==
  ASSUME CauseInv, UNCHANGED fetchVars
  PROVE  CauseInv'
<1>1. /\ adapter' = adapter /\ site' = site /\ snaps' = snaps /\ style' = style /\ odd' = odd
      /\ fetch' = fetch /\ browser' = browser /\ outcome' = outcome
      /\ UNCHANGED site_vars /\ UNCHANGED adapter
  BY DEF fetchVars, site_vars
<1>2. PageLimit' = PageLimit /\ \A j : Rank(j)' = Rank(j)
  BY <1>1, SiteStays, BudgetStays
<1>3. /\ \A k : Before(k)' = Before(k) /\ \A a, b : Window(a, b)' = Window(a, b)
      /\ LastPage' = LastPage
  BY <1>1, <1>2 DEF Before, Window, LastPage, PagesFor
<1>4. \A k : TrueAnswer(k)' = TrueAnswer(k) /\ Shows(k)' = Shows(k)
  BY <1>1, <1>3 DEF TrueAnswer, Shows, PageOf, Again
<1>5. Calm' <=> Calm
  BY <1>1 DEF Calm
<1>6. ASSUME adapter \in Keys \cup {"linkedin"} PROVE Serves' <=> Serves
  <2>1. (LeverServes' <=> LeverServes) /\ (DarwinboxServes' <=> DarwinboxServes)
    BY <1>1, <1>2 DEF LeverServes, DarwinboxServes
  <2>2. (DreamJobsServes' <=> DreamJobsServes) /\ (JazzHRServes' <=> JazzHRServes)
    BY <1>1, <1>2 DEF DreamJobsServes, Needed, PagesFor, JazzHRServes
  <2>3. (ZohoServes' <=> ZohoServes) /\ (LinkedInServes' <=> LinkedInServes)
    BY <1>1, <1>2 DEF ZohoServes, Verifiable, LinkedInServes, Offset
  <2>4. GenericServes' <=> GenericServes
    BY <1>1, <1>2 DEF GenericServes, Named, PagesFor
  <2> QED BY <1>1, <1>6, <2>1, <2>2, <2>3, <2>4 DEF Serves, Keys, Selectable
<1>7. Room' <=> Room
  <2>1. LeverRoom' <=> LeverRoom
    BY <1>1 DEF LeverRoom
  <2>2. DreamJobsRoom' <=> DreamJobsRoom
    BY <1>1, <1>3 DEF DreamJobsRoom, Needed, PagesFor
  <2>3. LinkedInRoom' <=> LinkedInRoom
    BY <1>1, <1>3 DEF LinkedInRoom, Offset
  <2>4. GenericRoom' <=> GenericRoom
    <3>1. GenericPages' = GenericPages
      BY <1>1, <1>3 DEF GenericPages
    <3>2. UNION {Shows(a) : a \in fetch.asked}' = UNION {Shows(a) : a \in fetch.asked}
      BY <1>1, <1>4
    <3> QED BY <1>1, <3>1, <3>2 DEF GenericRoom
  <2>5. DarwinboxRoom' <=> DarwinboxRoom
    BY <1>1, <1>3, <1>4 DEF DarwinboxRoom, Offline
  <2> QED BY <1>1, <2>1, <2>2, <2>3, <2>4, <2>5 DEF Room
<1> QED BY <1>1, <1>5, <1>6, <1>7 DEF CauseInv

(* A site that changes while it is read is not calm any more.              *)
LEMMA ChangesAreNotCalm ==
  ASSUME SnapInv, CauseInv, SiteChanges
  PROVE  CauseInv'
<1>1. site' # site /\ snaps' = snaps \cup {site'} /\ site \in snaps
  BY Zenon DEF SiteChanges, SnapInv, FetchTypeOK
<1>2. ~Calm'
  BY <1>1 DEF Calm
<1>3. adapter' = adapter /\ outcome = "pending"
  BY Zenon DEF SiteChanges
<1> QED BY <1>2, <1>3 DEF CauseInv

(* At the start there is room for all of the site.                         *)
LEMMA BeginCause ==
  ASSUME SnapInv, NEW a \in Keys \cup {"linkedin"}, Begin(a, TRUE)
  PROVE  CauseInv'
<1>1. /\ outcome = "idle" /\ adapter' = a /\ site' \in SUBSET Jobs /\ style' \in StylesOf(a)
      /\ browser' = browser /\ fetch' = [fetch EXCEPT !.at = IF style'.landing THEN 0 ELSE 1]
      /\ outcome' = "pending"
  BY DEF Begin
<1>2. Untouched /\ fetch \in Fetch
  BY <1>1 DEF SnapInv, FetchTypeOK
<1> DEFINE at == IF style'.landing THEN 0 ELSE 1
<1>3. /\ fetch'.phase = "start" /\ fetch'.page = 0 /\ fetch'.skip = 0 /\ fetch'.seen = {}
      /\ fetch'.asked = {} /\ fetch'.requests = 0 /\ fetch'.at = at
      /\ fetch'.shown = {} /\ fetch'.overlap = 0
      /\ browser'.bodies = <<>> /\ browser'.trouble = {}
  BY <1>1, <1>2 DEF Untouched, Fetch
<1>4. Cardinality(site') \in Nat /\ PageSize \in Nat \ {0}
  BY <1>1, JobsAreFinite, FetchAssumption DEF FetchAssumption
<1>5. LeverRoom' /\ DreamJobsRoom' /\ LinkedInRoom'
  <2>1. \A i \in Nat : ~(i < 0)
    OBVIOUS
  <2> QED BY <1>3, <1>4, <2>1 DEF LeverRoom, DreamJobsRoom, LinkedInRoom
<1>6. DarwinboxRoom'
  <2>1. Len(browser'.bodies) = 0 /\ \A k \in 1 .. 0 : FALSE
    BY <1>3
  <2> QED BY <1>3, <2>1 DEF DarwinboxRoom, Offline
<1>7. ASSUME a = "generic", GenericServes' PROVE GenericRoom'
  <2>1. LastPage' \in Nat /\ LastPage' >= 1
    <3>1. Cardinality(site') # 0
      <4>1. site' # {} /\ IsFiniteSet(site')
        BY <1>1, <1>7, JobsAreFinite DEF GenericServes, Named
      <4> QED BY <4>1, FS_EmptySet
    <3>2. /\ PagesFor(Cardinality(site')) \in Nat
          /\ Cardinality(site') <= PagesFor(Cardinality(site')) * PageSize
      BY <1>4, PagesForIs
    <3>3. PagesFor(Cardinality(site')) # 0
      <4>1. 0 * PageSize = 0
        BY <1>4
      <4> QED BY <1>4, <3>1, <3>2, <4>1
    <3> QED BY <3>2, <3>3 DEF LastPage
  <2>2. at \in GenericPages' /\ Cardinality({}) = 0
    BY <2>1, FS_EmptySet DEF GenericPages
  <2> HIDE DEF at
  <2>3. /\ fetch'.asked \cup {fetch'.at} \subseteq GenericPages' /\ fetch'.at \notin fetch'.asked
        /\ fetch'.page = Cardinality(fetch'.asked) /\ fetch'.requests = fetch'.page
    BY <1>3, <2>2
  <2> QED BY <1>3, <2>3 DEF GenericRoom
<1>8. Serves' => Room'
  BY <1>1, <1>5, <1>6, <1>7 DEF Serves, Room
<1> QED BY <1>1, <1>8 DEF CauseInv

LEMMA CauseStep ==
  ASSUME SnapInv, FetchInv, DetectionInv, CauseInv, [Next]_vars
  PROVE  CauseInv'
<1>1. CASE UNCHANGED fetchVars
  BY <1>1, CauseStays
<1>2. CASE SiteChanges
  BY <1>2, ChangesAreNotCalm
<1>3. CASE BeginFetch
  <2>1. ASSUME NEW s \in sources, Begin(s.source, Accepts(s.source, s.url))
        PROVE  CauseInv'
    <3>1. s.source \in Keys /\ Accepts(s.source, s.url)
      BY DEF DetectionInv, SourceOK
    <3>2. Begin(s.source, TRUE)
      BY <2>1, <3>1 DEF Begin
    <3> QED BY <3>1, <3>2, BeginCause
  <2>2. CASE "linkedin" \in Adapters /\ Begin("linkedin", TRUE)
    BY <2>2, BeginCause
  <2> QED BY <1>3, <2>1, <2>2 DEF BeginFetch
<1>4. CASE FetchNext
  BY <1>4, LeverCause, DarwinboxCause, DreamJobsCause, JazzHRCause, ZohoCause, LinkedInCause,
     GenericCause DEF FetchNext
<1>5. SubmitUrl \/ CrawlUrl => UNCHANGED fetchVars
  BY DEF SubmitUrl, CrawlUrl
<1> QED BY <1>1, <1>2, <1>3, <1>4, <1>5 DEF Next, Detection, vars

LEMMA CauseAlways == Spec => []CauseInv
<1>1. Init => CauseInv
  BY DEF Init, FetchInit, CauseInv
<1> QED BY <1>1, CauseStep, SnapAlways, PTL DEF Spec

(* No adapter fails for nothing.  A fetch of a site that answers truly,    *)
(* does not change meanwhile and stays below the limits of its adapter is  *)
(* not given up: neither the page limit, nor the request limit, nor the    *)
(* overlaps that LinkedIn tolerates, nor the totals that the browser       *)
(* compares stop it.  Serves excepts a generic site of several pages whose *)
(* pager names the first by a second address: that one is given up, for a  *)
(* page that was repeated (fetch of GenericSourceAdapter).                 *)
THEOREM AdaptersFailForCause == Spec => []FailureHasCause
<1>1. CauseInv => FailureHasCause
  <2> SUFFICES ASSUME CauseInv, outcome = "raised", odd = 0, Steady PROVE ~Serves
    BY DEF FailureHasCause
  <2>1. Calm
    BY DEF Calm, Steady
  <2> QED BY <2>1 DEF CauseInv
<1> QED BY <1>1, CauseAlways, PTL
=============================================================================
