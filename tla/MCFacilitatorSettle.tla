------------------------ MODULE MCFacilitatorSettle ------------------------
(* Three requests of one payload, two adapters, one change of hour: every   *)
(* overlap of a settle with its replay, within the hour and across it.     *)
EXTENDS FacilitatorSettle, TLC

CONSTANTS q1, q2, q3, x1, a1, a2

ThreeRequests == {q1, q2, q3}
OnePayload == {x1}
TwoAdapters == {a1, a2}
PrimaryFirst == <<a1, a2>>

Renamings == Permutations(ThreeRequests)
=============================================================================
