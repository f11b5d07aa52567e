-------------------------- MODULE MCPaymentLedger --------------------------
(* Two requests under one idempotency key, and two providers: an owner and *)
(* a replay that waits for it, or overtakes its lock once that expires.    *)
EXTENDS PaymentLedger, TLC

CONSTANTS r1, r2, k1, p1, p2

TwoRequests == {r1, r2}
OneKey == {k1}
TwoProviders == {p1, p2}
=============================================================================
