---------------------------- MODULE SellerSettle ----------------------------
(***************************************************************************)
(* The seller's side of a settle, packages/x402-server-node: runProtocol   *)
(* sends its settle through callFacilitator, which repeats the request     *)
(* with the same Idempotency-Key after a transient failure. Composed with  *)
(* FacilitatorSettle, whose requests are the tries of the sellers: what a  *)
(* seller gave up waiting for goes on running at the facilitator.          *)
(***************************************************************************)
EXTENDS FacilitatorSettle

CONSTANTS
    Sellers,   \* runProtocol exchanges past a successful verify
    MaxTries,  \* facilitatorRetry.attempts
    PayloadOf  \* the buyer's payment each exchange settles

ASSUME SellerAssumption ==
    /\ MaxTries \in Nat \ {0}
    /\ Requests = Sellers \X (1..MaxTries)
    /\ PayloadOf \in [Sellers -> Payloads]

VARIABLES
    place,  \* where each exchange is
    tries   \* the settle requests it has sent

sellerVars == <<place, tries>>

SellerInit ==
    /\ Init
    /\ place = [s \in Sellers |-> "ready"]
    /\ tries = [s \in Sellers |-> 0]

Current(s) == <<s, tries[s]>>

-----------------------------------------------------------------------------
(* One try of attemptOnce: the request reaches the facilitator, or is lost *)
(* on the way.                                                             *)
Send(s) ==
    /\ place[s] = "ready"
    /\ place' = [place EXCEPT ![s] = "waiting"]
    /\ tries' = [tries EXCEPT ![s] = @ + 1]
    /\ \/ Receive(<<s, tries[s] + 1>>, PayloadOf[s])
       \/ UNCHANGED vars

(* Mutant: any answer that is not an error is taken for a settlement.       *)
VerdictOfAny(st) == "accepted"

(* success: true, or the buyer is asked to pay again.                      *)
Verdict(st) == IF st = "settled" THEN "accepted" ELSE "rejected"

(* The answer of the current try arrives; those of earlier ones are lost.  *)
Hear(s) ==
    /\ place[s] = "waiting"
    /\ answer[Current(s)] \in Answers
    /\ pc[Current(s)] = "done"
    /\ place' = [place EXCEPT ![s] = Verdict(answer[Current(s)].status)]
    /\ UNCHANGED <<tries, vars>>

AfterMiss(s) == IF tries[s] >= MaxTries THEN "rejected" ELSE "ready"

(* Mutant: fetch has no AbortSignal, so only an answer can end a try.       *)
MissWithoutTimeout(s) ==
    /\ place[s] = "waiting"
    /\ answer[Current(s)] = Error
    /\ place' = [place EXCEPT ![s] = AfterMiss(s)]
    /\ UNCHANGED <<tries, vars>>

(* The try ends in a transient error: unreachable, timed out after thirty  *)
(* seconds, not JSON, a 5xx or a code in the list. Sleep and retry, or     *)
(* give up.                                                                *)
Miss(s) ==
    /\ place[s] = "waiting"
    /\ place' = [place EXCEPT ![s] = AfterMiss(s)]
    /\ UNCHANGED <<tries, vars>>

(* A 4xx with any other code ends the exchange, whatever tries are left.   *)
(* The facilitator answers with one only before it has derived a key.      *)
Refused(s) ==
    /\ place[s] = "waiting"
    /\ key[Current(s)] = None
    /\ place' = [place EXCEPT ![s] = "rejected"]
    /\ UNCHANGED <<tries, vars>>

-----------------------------------------------------------------------------
Exchange(s) == Send(s) \/ Hear(s) \/ Miss(s) \/ Refused(s)

Facilitator ==
    /\ \/ \E q \in Requests : Handle(q) \/ Fault(q)
       \/ Environment
    /\ UNCHANGED sellerVars

SellerNext == Facilitator \/ \E s \in Sellers : Exchange(s)

(* The seller's process runs: each wait has its timeout. Nothing is asked  *)
(* of the facilitator, which may have died.                                *)
SellerSpec ==
    /\ SellerInit /\ [][SellerNext]_<<vars, sellerVars>>
    /\ \A s \in Sellers : WF_<<vars, sellerVars>>(Exchange(s))

-----------------------------------------------------------------------------
(* A seller serves its resource only for a payment that is settled on file *)
(* under one of its own tries' keys, however many tries crossed each other *)
(* and whichever of them the facilitator was still working on.             *)
AcceptedIsSettled ==
    \A s \in Sellers : place[s] = "accepted" =>
        \E n \in 1..tries[s] : \E p \in Rows(key[<<s, n>>]) :
            status[p] = "settled"

(* Every exchange comes to an end, whatever becomes of the facilitator: a  *)
(* buyer is never left without a verdict.                                  *)
EveryExchangeEnds ==
    \A s \in Sellers :
        place[s] = "waiting" ~> place[s] \in {"accepted", "rejected"}

(* core.ts: a settle whose broadcast succeeded but whose response was lost *)
(* is de-duplicated by the facilitator, so the tries of one exchange open  *)
(* one payment at most.                                                    *)
RetryIsDeduplicated ==
    \A s \in Sellers : \A m, n \in 1..MaxTries :
        /\ status[<<s, m>>] # "none"
        /\ status[<<s, n>>] # "none"
        => m = n
=============================================================================
