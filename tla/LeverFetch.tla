----------------------------- MODULE LeverFetch -----------------------------
(* The public API of Lever: scraping/sources/lever.py. Pages are asked for *)
(* by offset; there is no total, and a posting without a title is kept.    *)
EXTENDS SourceFetch

LeverRecords(page) == Same(page)

EndsWhenEmpty(page) == page = {}                         \* mutant: no last short page
LeverEnds(page) == Cardinality(page) < PageSize

SkipsOneMore(page) == Cardinality(page) + 1               \* mutant: off by one
LeverSkips(page) == Cardinality(page)

(* One page. It ends the listing if it is empty or short; a page without   *)
(* new ids, and a page that is full where the limit is, end in an error.   *)
LeverPage ==
  /\ Running("lever")
  /\ UNCHANGED <<adapter, site_vars, style, browser>>
  /\ \/ Broken
     \/ \E page \in Pages :
          LET new == page \ fetch.seen
              now == [Counted EXCEPT !.page = @ + 1, !.skip = @ + LeverSkips(page),
                        !.seen = @ \cup page, !.records = @ \cup LeverRecords(new)]
          IN  /\ Sends(page = Window(fetch.skip, PageSize))
              /\ CASE page = {} -> Returns(now)
                   [] page # {} /\ new = {} -> Raises(now.requests)
                   [] new # {} /\ LeverEnds(page) -> Returns(now)
                   [] new # {} /\ ~LeverEnds(page) /\ now.page < PageLimit -> Proceeds(now)
                   [] OTHER -> Raises(now.requests)

LeverServes == Cardinality(site) < PageSize * PageLimit
=============================================================================
