--------------------------- MODULE MCBoundedCrawler ---------------------------
(* The site of a company, its careers page, an address of its intranet,    *)
(* an external portal, and a page of an ATS vendor. They may be found in   *)
(* any order, and a redirect may lead from each to each.                   *)
EXTENDS BoundedCrawler, TLC

CONSTANTS home, careers, portal, vendor, intranet, own, jobsHost, other

MCSeeds == <<home>>
MCHost == (home :> own) @@ (careers :> own) @@ (portal :> jobsHost) @@ (vendor :> other)
          @@ (intranet :> own)
MCRank == (home :> 4) @@ (careers :> 2) @@ (portal :> 1) @@ (vendor :> 0)
          @@ (intranet :> 2)
=============================================================================
