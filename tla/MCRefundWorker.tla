--------------------------- MODULE MCRefundWorker ---------------------------
(* Two rows of refunds_pending, one of them on a network without a signer. *)
(* A row is tried twice where the code tries it three times; a batch is    *)
(* one row longer than the unpayable ones, or just as long.                *)
EXTENDS RefundWorker, TLC

CONSTANTS d1, d2, w1, w2

TwoRows == {d1, d2}
NoSwapRow == {}
TwoWorkers == {w1, w2}
OneWorker == {w1}
OneChain == d1 :> "none" @@ d2 :> "base"
=============================================================================
