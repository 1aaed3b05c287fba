------------------------------ MODULE ZohoFetch ------------------------------
(* Zoho Recruit: scraping/sources/zoho_recruit.py. One page that embeds    *)
(* all postings; the platform shows no more than a limit, so a listing     *)
(* that reaches it may be cut, and an empty one proves nothing.            *)
EXTENDS SourceFetch

Verifiable(page) == page # {} /\ Cardinality(page) < ListingLimit
Shown == CHOOSE p \in SUBSET site :                        \* the first ones, up to the limit
           /\ Cardinality(p) = Min({Cardinality(site), ListingLimit})
           /\ \A j \in p, i \in site \ p : j < i

ZohoListing ==
  /\ Running("zoho_recruit")
  /\ UNCHANGED <<adapter, site_vars, style, browser>>
  /\ \/ Broken
     \/ \E page \in SUBSET Ever :
          /\ Sends(page = Shown)
          /\ IF Verifiable(page) /\ page \cap Untitled = {}
             THEN Returns([Counted EXCEPT !.seen = page, !.records = Same(page)])
             ELSE Raises(fetch.requests + 1)

ZohoServes == Verifiable(site) /\ site \cap Untitled = {}
=============================================================================
