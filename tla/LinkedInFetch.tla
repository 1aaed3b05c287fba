---------------------------- MODULE LinkedInFetch ----------------------------
(* LinkedIn: scraping/sources/linkedin.py, offline and not registered. It  *)
(* continues by offset until a batch is empty; batches may overlap, and    *)
(* OverlapLimit of them in a row may bring nothing new.                    *)
EXTENDS SourceFetch

(* No offset skips a posting: a batch is as long as the offsets are apart, *)
(* which the code takes for granted (DEFAULT_CONTINUATION_START and _STEP  *)
(* are fixed) and the site decides.                                        *)
ASSUME LinkedInAssumption ==
  "linkedin" \in Adapters => Start <= PageSize /\ Step <= PageSize

Offset(n) == IF n = 0 THEN 0 ELSE Start + (n - 1) * Step

LinkedInMayGo == fetch.requests < MaxRequests /\ fetch.requests < PageLimit
LinkedInEnds(page) == page = {}

LinkedInBatch ==
  /\ Running("linkedin")
  /\ UNCHANGED <<adapter, site_vars, style, browser>>
  /\ \/ ~LinkedInMayGo /\ Raises(fetch.requests) /\ Silent
     \/ LinkedInMayGo /\ Broken
     \/ /\ LinkedInMayGo
        /\ \E page \in Pages :
             LET overlap == IF page \subseteq fetch.seen THEN fetch.overlap + 1 ELSE 0
                 now == [Counted EXCEPT !.seen = @ \cup page, !.overlap = overlap,
                           !.records = @ \cup Same(page), !.shown = @ \cup {page}]
             IN  /\ Sends(page = Window(Offset(fetch.requests), PageSize))
                 /\ CASE page \in fetch.shown -> Raises(now.requests)
                      [] page \notin fetch.shown /\ LinkedInEnds(page) -> Returns(now)
                      [] OTHER -> IF overlap > OverlapLimit /\ page \subseteq fetch.seen
                                  THEN Raises(now.requests) ELSE Proceeds(now)

(* No batch is asked for twice (the code takes a continuation that starts  *)
(* at 0), the limits leave room for the empty one, and between it and the  *)
(* batch with the last posting are no more than the overlap that is        *)
(* allowed.                                                                *)
LinkedInServes ==
  LET n == Cardinality(site) IN
  /\ Start > 0
  /\ \E i \in 0 .. MaxRequests - 1 : i < PageLimit /\ Offset(i) >= n
  /\ \A i \in 0 .. MaxRequests :
       Offset(i) + PageSize >= n => Offset(i + OverlapLimit + 1) >= n
=============================================================================
