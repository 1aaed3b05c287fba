---------------------------- MODULE SourceFetch ----------------------------
(***************************************************************************)
(* What the fetches of all adapters share (scraping/sources/base.py,       *)
(* registry.py): the site they read, the records they collect, how they    *)
(* end, and the requests they count.                                       *)
(*                                                                         *)
(* A posting is a number, and a site lists its postings by number. One     *)
(* step is one request with its answer and what the adapter does with it.  *)
(* Between two requests the site may publish and withdraw postings. An     *)
(* answer may also be odd: a cached page, the first page again, a wrong    *)
(* total, another posting; and it may be broken: no connection, an HTTP    *)
(* error, a challenge, a redirect away, a body of an unexpected shape.     *)
(***************************************************************************)
EXTENDS Naturals, Integers, Sequences, FiniteSets, FiniteSetsExt

CONSTANTS
  Jobs,             \* postings
  Title,            \* the title of each: some postings have the same
  Untitled,         \* postings without a title that an adapter can use
  Bare,             \* postings that Darwinbox lists without a description
  PageSize,
  MaxPages,         \* max_pages of each adapter
  MaxRequests, MaxDetails,
  ListingLimit,     \* MAX_PUBLIC_CAREER_SITE_JOBS of Zoho Recruit
  Start, Step, OverlapLimit,     \* continuation of LinkedIn
  Adapters,
  MaxChanges, MaxOdd    \* bounds of the model: changes of the site, odd answers

ASSUME FetchAssumption ==
  /\ Jobs \subseteq Nat /\ IsFiniteSet(Jobs)
  /\ DOMAIN Title = Jobs /\ Untitled \subseteq Jobs /\ Bare \subseteq Jobs
  /\ PageSize \in Nat \ {0} /\ MaxRequests \in Nat \ {0}
  /\ MaxPages \in [Adapters -> Nat \ {0}]
  /\ MaxDetails \in Nat /\ ListingLimit \in Nat /\ MaxChanges \in Nat /\ MaxOdd \in Nat
  /\ Start \in Nat /\ Step \in Nat \ {0} /\ OverlapLimit \in Nat \ {0}

VARIABLES
  adapter,    \* the adapter that the registry has chosen
  site,       \* postings that the site publishes now
  snaps,      \* history: all it has published since the start
  style,      \* how a generic site is built
  odd,        \* history: answers that were not what the site then published
  sent,       \* history: requests that were sent
  told,       \* history: totals that the site has told
  fetch,      \* the local variables of fetch
  browser,    \* what the browser of Darwinbox has captured: _Capture
  outcome,
  reported    \* requests_made of the batch, or of the error

site_vars == <<site, snaps>>
fetchVars == <<adapter, site, snaps, style, odd, sent, told, fetch, browser, outcome, reported>>

Addresses == 0 .. Cardinality(Jobs) + 1
Pagers == {"none", "next", "all", "alias"}

Fetch ==
  [phase : {"start", "opening", "clicking", "closed", "reading", "postings",
            "listing", "details"},
   page : Nat,                  \* pages taken, or the number of the next one
   at : Addresses,              \* current_url of the generic adapter
   skip : Nat,                  \* offset of Lever, detail_requests_made of generic
   total : Int,                 \* postings that the site has told
   seen : SUBSET Jobs,          \* seen_ids
   queue : SUBSET Jobs,         \* postings of this page, or of the details
   records : SUBSET (Jobs \X Jobs), \* the posting, and the one that describes it
   asked : SUBSET Addresses,    \* requested_urls
   shown : SUBSET SUBSET Jobs,  \* seen_content
   overlap : Nat, requests : Nat]

Answer == [jobs : SUBSET Jobs, total : Nat]

(* Before the fetch, nothing of it is known.                               *)
NoStyle == [pager |-> "none", landing |-> FALSE]
StylesOf(a) ==
  IF a = "generic" THEN [pager : Pagers \ {"none"}, landing : BOOLEAN] ELSE {NoStyle}

FetchInit ==
  /\ adapter = "none" /\ site = {} /\ snaps = {{}} /\ style = NoStyle
  /\ odd = 0 /\ sent = 0 /\ told = {}
  /\ fetch = [phase |-> "start", page |-> 0, at |-> 1, skip |-> 0, total |-> 0,
              seen |-> {}, queue |-> {}, records |-> {}, asked |-> {}, shown |-> {},
              overlap |-> 0, requests |-> 0]
  /\ browser = [bodies |-> <<>>, trouble |-> {}]
  /\ outcome = "idle" /\ reported = 0

-----------------------------------------------------------------------------
(* The site.                                                               *)
Rank(j) == Cardinality({i \in site : i < j})
Window(skip, n) == {j \in site : skip <= Rank(j) /\ Rank(j) < skip + n}

PageLimit == MaxPages[adapter]

Ever == UNION snaps
Pages == {p \in SUBSET Ever : Cardinality(p) <= PageSize}

PagesFor(n) == (n + PageSize - 1) \div PageSize

(* A page by number, with the total, as Darwinbox and DreamJobs serve it.  *)
TrueAnswer(n) == [jobs |-> Window((n - 1) * PageSize, PageSize), total |-> Cardinality(site)]
Answers == [jobs : Pages, total : 0 .. Cardinality(Jobs)]

SiteChanges ==
  /\ outcome = "pending" /\ Cardinality(snaps) <= MaxChanges
  /\ site' \in (SUBSET Jobs) \ {site}
  /\ snaps' = snaps \cup {site'}
  /\ UNCHANGED <<adapter, style, odd, sent, told, fetch, browser, outcome, reported>>

-----------------------------------------------------------------------------
(* The pieces that the steps of the adapters are made of.                  *)
Running(a) == adapter = a /\ outcome = "pending"
In(a, p) == Running(a) /\ fetch.phase = p

(* A request with its answer, true or odd, which may tell a total; no      *)
(* request; n requests that break.                                         *)
Request(true, totals) ==
  /\ sent' = sent + 1 /\ told' = told \cup totals
  /\ IF true THEN UNCHANGED odd ELSE odd < MaxOdd /\ odd' = odd + 1
Sends(true) == Request(true, {})
Silent == UNCHANGED <<sent, odd, told>>
Disturbed(n) == sent' = sent + n /\ odd' = odd + 1 /\ UNCHANGED told

Proceeds(f) == fetch' = f /\ UNCHANGED <<outcome, reported>>
Returns(f) == fetch' = f /\ outcome' = "returned" /\ reported' = f.requests
Raises(n) == outcome' = "raised" /\ reported' = n /\ UNCHANGED fetch

CountedOnce == [fetch EXCEPT !.requests = 1]     \* mutant: the last request only
Counted == [fetch EXCEPT !.requests = @ + 1]

(* A request that is broken ends the fetch, and counts.                    *)
Broken == Disturbed(1) /\ Raises(fetch.requests + 1)

(* The page of a posting that is withdrawn fails without being odd.        *)
Refused(j) == IF j \in site THEN Disturbed(1) ELSE Sends(TRUE)

Same(S) == {<<j, j>> : j \in S}
First(S) == Min(S)
=============================================================================
