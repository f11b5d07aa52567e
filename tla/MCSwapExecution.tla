-------------------------- MODULE MCSwapExecution --------------------------
(* Two requests for one quote or for two, in either direction, on one      *)
(* wallet of either chain, or a request and something else that is paid    *)
(* into it. A swap buys one unit.                                          *)
EXTENDS SwapExecution, TLC

CONSTANTS q1, q2, r1, r2

TwoQuotes == {q1, q2}
TwoRequests == {r1, r2}
OneUnit == {1}
OnePayment == {[token |-> "usdc", amount |-> 1]}

(* The other payment takes the place of the second request, and a quote of *)
(* the other chain that of both quotes; one of two requests at most is hit *)
(* by a fault or a throw or loses sight of a transaction, and no quote is  *)
(* left that nobody asks for.                                              *)
FewTroubles ==
    /\ moved = {} \/ \E r \in Requests : place[r] = "idle"
    /\ \A p, q \in Quotes :
          p # q /\ dir[q] = "foreign" => quote[p] = "none"
    /\ \A q \in Quotes :
          quote[q] = "none" \/ \E r \in Requests : target[r] \in {q, None}
    /\ Cardinality({r \in Requests : place[r] = "dead" \/ hit[r] # {}}) <= 1

Renamings == Permutations(TwoQuotes) \union Permutations(TwoRequests)
=============================================================================
