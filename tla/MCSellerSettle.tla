--------------------------- MODULE MCSellerSettle ---------------------------
(* One exchange of up to three tries, a route of one adapter and a change  *)
(* of hour: a try overlaps what the earlier ones left running.             *)
EXTENDS SellerSettle, TLC

CONSTANTS s1, x1, a1

OneSeller == {s1}
ThreeTries == {s1} \X (1..3)
OnePayload == {x1}
OneAdapter == {a1}
OnlyOne == <<a1>>
SamePayload == s1 :> x1
=============================================================================
