--------------------------- MODULE MCProxyRequest ---------------------------
(* Two requests, of one payment or of two, with and without a transaction  *)
(* hash, at one endpoint or at two, and one refund worker that comes by at *)
(* any time.                                                               *)
EXTENDS ProxyRequest, TLC

CONSTANTS r1, r2, c1, c2, p1, p2, w1

TwoRequests == {r1, r2}
NoSwapRow == {}
TwoConfigs == {c1, c2}
TwoPayments == {p1, p2}
OneHashed == {p1}
OneWorker == {w1}
AllOnBase == [r \in TwoRequests |-> "base"]

Renamings == Permutations(TwoRequests) \union Permutations(TwoConfigs)
=============================================================================
