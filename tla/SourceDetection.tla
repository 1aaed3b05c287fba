--------------------------- MODULE SourceDetection ---------------------------
(***************************************************************************)
(* How a Company gets its sources: company_source_create of                *)
(* companies/views.py with detect_company_source_url of                    *)
(* companies/source_detection.py, up to the fetch of one of them.          *)
(*                                                                         *)
(* A user enters an address. If its host and path do not tell the          *)
(* platform, one page is crawled; redirects may lead to any other address, *)
(* and the body of the page, or the jobs that it links, may tell. What is  *)
(* detected is validated, compared with the sources of the Company, and    *)
(* added, in one transaction.                                              *)
(***************************************************************************)
EXTENDS SourceFetch, SourceUrls

CONSTANTS
  PageLinks,        \* links that a crawled page may have to a platform
  MaxSources    \* bound of the model: sources that are added before the fetch

ASSUME DetectionAssumption == PageLinks \subseteq Urls /\ MaxSources \in Nat \ {0}

VARIABLES
  sources,      \* the sources of the Company; history: what each was detected on
  crawling      \* an address was entered that did not tell its platform

detectionVars == <<sources, crawling>>

DetectionInit == sources = {} /\ crawling = FALSE

Page(u, links, body) == [url |-> u, links |-> links, body |-> body]

PageWithLinks(page) == page                            \* mutant: links count as well
DetectionPage(page) == [page EXCEPT !.links = {}]

-----------------------------------------------------------------------------
(* _supported_detection: two platforms are an error, like none of them.    *)
Supported(page) == {d \in DetectPage(page) : d.source \in Selectable}

Validated(d) == Accepts(d.source, d.url)

Equivalent(d, s) == TenantIdentity(d.source, d.url) = TenantIdentity(s.source, s.url)

Evidence(d, page) == [host |-> page.url.host, signals |-> page.body \cap {d.source}]

(* Adds the source that was detected, or shows an error in the form.       *)
Detects(found, page) ==
  LET added == {d \in found : /\ found = {d} /\ Validated(d)
                              /\ ~\E s \in sources : Equivalent(d, s)}
  IN  sources' = sources \cup
        {[source |-> d.source, url |-> d.url, seen |-> Evidence(d, page)] : d \in added}

(* The address may tell the platform without a request.                    *)
SubmitUrl ==
  /\ outcome = "idle" /\ ~crawling /\ Cardinality(sources) < MaxSources
  /\ \E u \in Urls :
       LET page == Page(u, {}, {})
           found == Supported(page)
       IN  /\ Public(u)
           /\ Detects(found, page) /\ crawling' = (found = {})
  /\ UNCHANGED fetchVars

(* is_generic_fallback_eligible, for a page that links jobs: a platform    *)
(* without an adapter, or an address that says it is a listing.            *)
Excluded(u) == \E i \in DOMAIN u.path : u.path[i] = "apply"
Unsupported(page) == {d \in DetectPage(page) : d.source \notin Selectable}
GenericSource(page) ==
  LET shown == IF Unsupported(page) # {} THEN {d.url : d \in Unsupported(page)}
               ELSE {u \in {page.url} : Says(u)}
  IN  {Source("generic", u) : u \in {v \in shown : ~Excluded(v)}}

(* The crawl of one page: it fails or links no jobs, or the page tells.    *)
CrawlUrl ==
  /\ crawling /\ crawling' = FALSE
  /\ \/ UNCHANGED sources
     \/ \E u \in Urls, body \in Bodies, links \in {{}} \cup {{l} : l \in PageLinks} :
          LET page == DetectionPage(Page(u, links, body))
              found == Supported(page)
          IN  /\ Public(u)
              /\ Detects(IF found = {} THEN GenericSource(page) ELSE found, page)
  /\ UNCHANGED fetchVars

(* A fetch starts with an address that its adapter accepts, or fails. From *)
(* here on nothing of the sources but the adapter matters.                 *)
Begin(a, accepted) ==
  /\ outcome = "idle" /\ ~crawling
  /\ adapter' = a
  /\ site' \in SUBSET Jobs /\ snaps' = {site'}
  /\ style' \in StylesOf(a)
  /\ fetch' = [fetch EXCEPT !.at = IF style'.landing THEN 0 ELSE 1]
  /\ outcome' = IF accepted THEN "pending" ELSE "raised"
  /\ sources' = {} /\ UNCHANGED <<odd, sent, told, browser, reported, crawling>>

BeginFetch ==
  \/ \E s \in sources : Begin(s.source, Accepts(s.source, s.url))
  \/ "linkedin" \in Adapters /\ Begin("linkedin", TRUE)      \* by its tests only
-----------------------------------------------------------------------------

(* discovery/detectors.py: "page text is never a sole signal". A source    *)
(* whose host does not tell the platform was detected on a page of its own *)
(* host, which had the signals of that platform.                           *)
OfVendor(s) == Matches(s.source, s.url, {})
ToldByBody(s) == s.source # "generic" /\ ~OfVendor(s)
EvidenceIsOfItsHost ==
  \A s \in sources :
    IF s.source = "generic" THEN s.seen.host = s.url.host
    ELSE OfVendor(s) \/ (s.seen.host = s.url.host /\ s.source \in s.seen.signals)

ReadAlike(s, t) == Listing(s.source, s.url) = Listing(t.source, t.url)

(* A Company reads one listing by two sources only if an address is        *)
(* escaped or names the port of its scheme, or if only the body of a page  *)
(* told one platform and the other source is a generic one, from when the  *)
(* page had another body: company_source_create compares identities.       *)
(* Addresses of http and https count as two listings.                      *)
NoListingTwice ==
  \A s, t \in sources :
    s # t /\ ReadAlike(s, t) =>
      \/ ~Literal(s.url) \/ ~Literal(t.url)
      \/ \E a, b \in {s, t} : a.source = "generic" /\ ToldByBody(b)

(* docs/MULTI_SOURCE_ARCHITECTURE.md: "canonical source identity prevents  *)
(* an equivalent source from being added twice to one Company". Sources of *)
(* one platform are equivalent that read one listing.                      *)
EquivalentIsAddedOnce ==
  \A s, t \in sources : s # t /\ s.source = t.source => ~ReadAlike(s, t)
=============================================================================
