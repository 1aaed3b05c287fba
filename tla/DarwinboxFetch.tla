--------------------------- MODULE DarwinboxFetch ---------------------------
(***************************************************************************)
(* Darwinbox: scraping/sources/darwinbox.py, and the browser it reads by   *)
(* default, scraping/sources/darwinbox_browser.py.                         *)
(*                                                                         *)
(* Every page tells the total, which must not change, and the fetch ends   *)
(* when as many postings are seen. A page that is repeated has no new ids: *)
(* the two errors are one here.                                            *)
(*                                                                         *)
(* The browser opens the careers page and clicks Load More; every listing  *)
(* response, asked for or not, is captured. A response that cannot be used *)
(* is noted in trouble, the count of requests beside it, and clicking goes *)
(* on; the fetch is refused when the browser is closed.                    *)
(***************************************************************************)
EXTENDS SourceFetch

DarwinboxStart ==
  /\ In("darwinbox", "start")
  /\ \E p \in {"listing", "opening"} : Proceeds([fetch EXCEPT !.phase = p, !.page = 1])
  /\ Silent /\ UNCHANGED <<adapter, site_vars, style, browser>>

-----------------------------------------------------------------------------
(* The browser.                                                            *)
Captured(k) == UNION {browser.bodies[i].jobs : i \in 1 .. k}

BodyIsOdd(k) ==
  LET body == browser.bodies[k] IN
  \/ body.total # browser.bodies[1].total
  \/ Captured(k) = Captured(k - 1) /\ Cardinality(Captured(k)) < body.total
  \/ Cardinality(Captured(k)) > body.total

(* _listing_progress: the first odd body ends it, a changed total counts   *)
(* all the bodies.                                                         *)
OddBodies == {k \in 1 .. Len(browser.bodies) : BodyIsOdd(k)}
OddCount ==
  IF browser.bodies[First(OddBodies)].total # browser.bodies[1].total
  THEN Len(browser.bodies) ELSE First(OddBodies)
Loaded == Cardinality(Captured(Len(browser.bodies))) >= browser.bodies[1].total

Capture(body) == [browser EXCEPT !.bodies = Append(@, body)]
Trouble(n) == [browser EXCEPT !.trouble = {n}]

Responds ==
  \E body \in Answers :
    /\ Request(body = TrueAnswer(Len(browser.bodies) + 1), {body.total})
    /\ browser' = Capture(body)
RespondsBadly == Sends(FALSE) /\ browser' = Trouble(Len(browser.bodies) + 1)

(* The page asks for the first listing by itself, and may ask again.       *)
BrowserEmits ==
  /\ In("darwinbox", "opening") /\ sent < PageLimit
  /\ Responds \/ RespondsBadly
  /\ UNCHANGED <<adapter, site_vars, style, fetch, outcome, reported>>

(* The page is at rest: trouble, a challenge, or no listing end it.        *)
BrowserLooks ==
  /\ In("darwinbox", "opening")
  /\ \/ /\ browser.trouble = {} /\ browser.bodies # <<>>
        /\ Proceeds([fetch EXCEPT !.phase = "clicking"]) /\ Silent /\ UNCHANGED browser
     \/ /\ browser.trouble # {}
        /\ Proceeds([fetch EXCEPT !.phase = "closed"]) /\ Silent /\ UNCHANGED browser
     \/ /\ browser.trouble = {}
        /\ Proceeds([fetch EXCEPT !.phase = "closed"])
        /\ Disturbed(0)
        /\ browser' = Trouble(Len(browser.bodies))
  /\ UNCHANGED <<adapter, site_vars, style>>

(* One round of the Load More loop.                                        *)
Stops == Proceeds([fetch EXCEPT !.phase = "closed"])
BrowserClicks ==
  /\ In("darwinbox", "clicking")
  /\ UNCHANGED <<adapter, site_vars, style>>
  /\ \/ /\ fetch.page = PageLimit
        /\ Stops /\ Silent /\ UNCHANGED browser
     \/ /\ fetch.page < PageLimit /\ OddBodies # {}
        /\ Stops /\ Silent /\ browser' = Trouble(OddCount)
     \/ /\ fetch.page < PageLimit /\ OddBodies = {} /\ Loaded
        /\ Stops /\ Silent /\ UNCHANGED browser
     \/ /\ fetch.page < PageLimit /\ OddBodies = {} /\ ~Loaded
        /\ Proceeds([fetch EXCEPT !.page = @ + 1])
        /\ Responds \/ RespondsBadly
     \/ /\ fetch.page < PageLimit /\ OddBodies = {} /\ ~Loaded   \* no button, no response
        /\ Stops /\ browser' = Trouble(Len(browser.bodies))
        /\ \E n \in {0, 1} : Disturbed(n)

(* _fetch: the navigation may have failed; any trouble refuses the bodies. *)
BrowserCloses ==
  /\ Running("darwinbox") /\ fetch.phase \in {"opening", "clicking", "closed"}
  /\ UNCHANGED <<adapter, site_vars, style, browser>>
  /\ \/ /\ fetch.phase = "closed" /\ browser.trouble = {} /\ browser.bodies # <<>>
        /\ Proceeds([fetch EXCEPT !.phase = "reading", !.page = 1,
                                  !.requests = Len(browser.bodies)])
        /\ Silent
     \/ /\ fetch.phase = "closed" /\ browser.trouble # {}
        /\ Raises(First(browser.trouble)) /\ Silent
     \/ /\ Disturbed(0)
        /\ Raises(IF browser.trouble # {} THEN First(browser.trouble)
                                           ELSE Len(browser.bodies))

-----------------------------------------------------------------------------
(* A page of the listing, by request or out of the browser.                *)
AnyTotal(answer) == TRUE                             \* mutant: the last total counts
TotalIsKept(answer) == fetch.page = 1 \/ answer.total = fetch.total

TakePage(answer, now) ==
  LET new == answer.jobs \ now.seen IN
  IF ~TotalIsKept(answer) \/ (new = {} /\ Cardinality(now.seen) < answer.total)
  THEN Raises(now.requests)
  ELSE Proceeds([now EXCEPT !.phase = "postings", !.queue = new, !.total = answer.total])

DarwinboxPage ==
  /\ In("darwinbox", "listing")
  /\ \/ Broken
     \/ \E answer \in Answers :
          Request(answer = TrueAnswer(fetch.page), {answer.total}) /\ TakePage(answer, Counted)
  /\ UNCHANGED <<adapter, site_vars, style, browser>>

DarwinboxRead ==
  /\ In("darwinbox", "reading") /\ Silent
  /\ IF fetch.page <= Len(browser.bodies)
     THEN TakePage(browser.bodies[fetch.page], fetch)
     ELSE Raises(fetch.requests)
  /\ UNCHANGED <<adapter, site_vars, style, browser>>

(* A new posting of the page: with its description, or with a detail that  *)
(* has to have its id. The browser may capture no detail, or several.      *)
Keeps(j, now) ==
  IF j \in Untitled THEN Raises(now.requests)
  ELSE Proceeds([now EXCEPT !.seen = @ \cup {j}, !.queue = @ \ {j},
                            !.records = @ \cup {<<j, j>>}])
DetailIsOf(k, j) == k = j

DarwinboxPosting ==
  /\ In("darwinbox", "postings") /\ fetch.queue # {}
  /\ UNCHANGED <<adapter, site_vars, style, browser>>
  /\ LET j == First(fetch.queue) IN
     \/ /\ j \notin Bare /\ Keeps(j, fetch) /\ Silent
     \/ /\ j \in Bare
        /\ Refused(j) /\ Raises(fetch.requests + 1)
     \/ /\ j \in Bare /\ browser.bodies # <<>>
        /\ \E n \in {0, 2} : Disturbed(n) /\ Raises(fetch.requests + n)
     \/ /\ j \in Bare
        /\ \E k \in Ever :
             /\ Sends(k = j)
             /\ IF ~DetailIsOf(k, j) THEN Raises(fetch.requests + 1)
                ELSE IF j \in Untitled THEN Raises(fetch.requests + 1)
                ELSE Proceeds([Counted EXCEPT !.seen = @ \cup {j}, !.queue = @ \ {j},
                                              !.records = @ \cup {<<j, k>>}])

(* All postings of the page are taken.                                     *)
DarwinboxPageEnds ==
  /\ In("darwinbox", "postings") /\ fetch.queue = {} /\ Silent
  /\ LET n == Cardinality(fetch.seen) IN
     \/ n = fetch.total /\ Returns(fetch)
     \/ n > fetch.total /\ Raises(fetch.requests)
     \/ n < fetch.total /\ fetch.page >= PageLimit /\ Raises(fetch.requests)
     \/ /\ n < fetch.total /\ fetch.page < PageLimit
        /\ Proceeds([fetch EXCEPT !.page = @ + 1,
             !.phase = IF browser.bodies = <<>> THEN "listing" ELSE "reading"])
  /\ UNCHANGED <<adapter, site_vars, style, browser>>

DarwinboxNext ==
  \/ DarwinboxStart \/ BrowserEmits \/ BrowserLooks \/ BrowserClicks \/ BrowserCloses
  \/ DarwinboxPage \/ DarwinboxRead \/ DarwinboxPosting \/ DarwinboxPageEnds

DarwinboxServes == Cardinality(site) <= PageSize * PageLimit /\ site \cap Untitled = {}
=============================================================================
