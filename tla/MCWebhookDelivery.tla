------------------------- MODULE MCWebhookDelivery -------------------------
(* One delivery and two jobs, the fan-out's own and a manual retry's, with *)
(* two tries each where the code has seven: one that is not the last and   *)
(* one that is.                                                            *)
EXTENDS WebhookDelivery, TLC

CONSTANT d1

OneDelivery == {d1}
TwoJobs == 1..2
=============================================================================
