------------------------------ MODULE MCGateway ------------------------------
(* The small components beside the payment paths, one at a time: they      *)
(* share no state, so a behaviour picks the part it is about.              *)
EXTENDS RateLimit, FeeSplit, CdpUsage, MppCharge, PayAndCall, CatalogSync,
        CatalogListing, TLC

CONSTANTS m1, m2, m3, d, h, i, k, cdp, x402, pageU, pageV, netP, netQ

Three == {m1, m2, m3}
Two == {h, i}
One == {k}
OneDirect == {m3}
ThreeAndSettle == Three \union {d}
Rows == {<<pageU, netP>>, <<pageU, netQ>>, <<pageV, netP>>}
Order == <<cdp, x402>>
FirstOf == (m1 :> netP) @@ (m2 :> netP) @@ (m3 :> netQ)
Lists == (cdp :> <<<<pageU, netP>>, <<pageV, netP>>, <<pageU, netQ>>>>) @@ (x402 :> <<<<pageV, netP>>>>)

VARIABLE part

Init ==
    /\ part \in {"rate", "fee", "cdp", "mpp", "mcp", "catalog", "listing"}
    /\ RateInit /\ CdpInit /\ MppInit /\ McpInit /\ CatalogInit /\ ListingInit
    /\ FeeInit /\ row.bps = 0

Next ==
    /\ UNCHANGED part
    /\ \/ /\ part = "rate" /\ RateNext
          /\ UNCHANGED <<row, cdpVars, mppVars, mcpVars, catalogVars, listingVars>>
       \/ /\ part = "fee" /\ FeeNext
          /\ UNCHANGED <<rateVars, cdpVars, mppVars, mcpVars, catalogVars, listingVars>>
       \/ /\ part = "cdp" /\ CdpNext
          /\ UNCHANGED <<rateVars, row, mppVars, mcpVars, catalogVars, listingVars>>
       \/ /\ part = "mpp" /\ MppNext
          /\ UNCHANGED <<rateVars, row, cdpVars, mcpVars, catalogVars, listingVars>>
       \/ /\ part = "mcp" /\ McpNext
          /\ UNCHANGED <<rateVars, row, cdpVars, mppVars, catalogVars, listingVars>>
       \/ /\ part = "catalog" /\ CatalogNext
          /\ UNCHANGED <<rateVars, row, cdpVars, mppVars, mcpVars, listingVars>>
       \/ /\ part = "listing" /\ ListingNext
          /\ UNCHANGED <<rateVars, row, cdpVars, mppVars, mcpVars, catalogVars>>

Spec == Init /\ [][Next]_<<part, rateVars, row, cdpVars, mppVars, mcpVars, catalogVars,
                           listingVars>>
=============================================================================
