------------------------- MODULE QuoteEscrow_proofs -------------------------
(* What follows from the promise of QuoteEscrow, for whatever keeps it.    *)
EXTENDS QuoteEscrow, TLAPS

Shape ==
    /\ got \in [Requests -> SUBSET {"output", "refund"}]
    /\ DOMAIN target = Requests /\ DOMAIN reply = Requests

(* Nobody has, or will have, anything before asking.                       *)
AskedFirst ==
    \A r \in Requests : target[r] = None => got[r] = {} /\ r \notin lost

(* Who has a refund was told of it, and who is refused has nothing coming. *)
RepliesAreSo ==
    \A r \in Requests :
        /\ "refund" \in got[r] => reply[r] = "failed"
        /\ reply[r] \in {"refused", "rejected"} => r \notin lost

PromiseInv == Shape /\ AskedFirst /\ RepliesAreSo /\ Fair

LEMMA PromiseInductive ==
    ASSUME PromiseInv, [Next]_vars
    PROVE  PromiseInv'
  <1> USE DEF PromiseInv, Shape, AskedFirst, RepliesAreSo, Fair
  <1>1. ASSUME NEW r \in Requests, NEW q \in Quotes, Ask(r, q)
        PROVE  PromiseInv'
    BY <1>1 DEF Ask, Tell
  <1>2. ASSUME NEW r \in Requests, Refuse(r)
        PROVE  PromiseInv'
    BY <1>2 DEF Refuse, Tell
  <1>3. ASSUME NEW r \in Requests, Deliver(r)
        PROVE  PromiseInv'
    <2>1. /\ target[r] # None /\ IsFirst(r)
          /\ got' = [got EXCEPT ![r] = @ \union {"output"}]
          /\ reply[r] = "none" \/ r \in lost
          /\ UNCHANGED <<target, reply, lost, faulty, blind>>
      BY <1>3 DEF Deliver, Give
    <2>2. reply[r] \notin {"refused", "rejected"}
      BY <2>1
    <2>3. "refund" \in got[r] => r \in lost
      BY <2>1, <2>2
    <2> QED BY <2>1, <2>2, <2>3 DEF IsFirst
  <1>4. ASSUME NEW r \in Requests, Lose(r)
        PROVE  PromiseInv'
    BY <1>4 DEF Lose
  <1>5. ASSUME NEW r \in Requests, Complete(r)
        PROVE  PromiseInv'
    BY <1>5 DEF Complete, Tell
  <1>6. ASSUME NEW r \in Requests, Refund(r)
        PROVE  PromiseInv'
    BY <1>6 DEF Refund, Give, IsFirst, Tell
  <1>7. ASSUME NEW r \in Requests, Fail(r)
        PROVE  PromiseInv'
    BY <1>7 DEF Fail, Tell
  <1>8. CASE UNCHANGED vars
    BY <1>8 DEF vars
  <1> QED BY <1>1, <1>2, <1>3, <1>4, <1>5, <1>6, <1>7, <1>8 DEF Next

(* One buyer of a quote at most is given anything, nobody gets both output *)
(* and refund unless an output was lost sight of, and replies tell it so,  *)
(* but of a faulty execution.                                              *)
THEOREM FairHolds == Spec => []Fair
  <1>1. Init => PromiseInv
    BY DEF Init, PromiseInv, Shape, AskedFirst, RepliesAreSo, Fair
  <1>2. PromiseInv => Fair
    BY DEF PromiseInv
  <1> QED BY <1>1, <1>2, PromiseInductive, PTL DEF Spec
=============================================================================
