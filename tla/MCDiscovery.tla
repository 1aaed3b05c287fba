----------------------------- MODULE MCDiscovery -----------------------------
(* Two adapters and one inventory query, which names both, as in           *)
(* _inventory_search_queries, and one tenant, on the second adapter.       *)
EXTENDS Discovery, TLC

CONSTANTS lever, darwinbox, acuityLever, acuityDarwin, u1, u2

MCPlatform == (acuityLever :> lever) @@ (acuityDarwin :> darwinbox)
MCOne == acuityDarwin :> darwinbox
MCCovers == <<{lever, darwinbox}>>
=============================================================================
