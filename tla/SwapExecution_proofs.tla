------------------------ MODULE SwapExecution_proofs ------------------------
(* An execution of a quote, for any number of quotes and requests.         *)
EXTENDS SwapExecution, TLAPS

(* Where a request is at the execution of the quote it has taken.          *)
Holding == {"approval", "requote", "pull", "pulling", "approve", "pre", "build",
            "swap", "swapping", "post", "out", "outing", "book", "fail", "refund"}

(* It is, has sent a transaction, or has left a refund.                    *)
Engaged(r) ==
    \/ place[r] \in Holding
    \/ refund[r] > 0
    \/ \E k \in Calls : tx[r][k] # "none"

Placed ==
    \A r \in Requests :
        /\ place[r] = "idle" => ~Engaged(r)
        /\ place[r] # "idle" => target[r] \in Quotes /\ quote[target[r]] # "none"

(* A request that has not looked at a quote has none.                      *)
IdleHasNone ==
    \A r \in Requests : place[r] = "idle" => target[r] = None

(* A quote that a request has taken is never for another to take.          *)
HolderTook ==
    \A r \in Requests : Engaged(r) => quote[target[r]] # "quoted"

HolderIsAlone ==
    \A q, r \in Requests :
        Engaged(q) /\ Engaged(r) /\ target[q] = target[r] => q = r

(* The transfer of the output comes last: whoever fails has not made it, or*)
(* lost sight of it.                                                       *)
TransferIsLast ==
    \A r \in Requests :
        /\ refund[r] > 0 => place[r] = "done"
        /\ place[r] \notin {"outing", "book", "fail", "refund", "done", "dead"} =>
              tx[r]["out"] = "none"
        /\ place[r] \in {"fail", "refund"} \/ refund[r] > 0 =>
              tx[r]["out"] \in {"none", "reverted"} \/ "out" \in hit[r]

(* A request is answered when it is over, and nobody but it, while it waits*)
(* for its transfer, can think that one in flight was not made.            *)
OutIsSeen ==
    \A r \in Requests :
        /\ reply[r] # "none" <=> place[r] = "done"
        /\ tx[r]["out"] = "flying" =>
              place[r] \in {"outing", "dead"} \/ "out" \in hit[r]

(* A transfer that was lost sight of had been sent.                        *)
LostWasSent ==
    \A r \in Requests :
        place[r] = "outing" \/ "out" \in hit[r] => tx[r]["out"] # "none"

Sent(r) ==
    tx[r]["out"] \in {"landed"} \union IF chain = "solana" THEN {"reverted"} ELSE {}

(* What is behind a request when it delivers.                              *)
BehindIt ==
    \A r \in Requests :
        /\ place[r] \in {"post", "out", "outing", "book"} => tx[r]["swap"] = "landed"
        /\ place[r] \in {"out", "outing", "book"} => amount[r] >= Floor
        /\ place[r] = "book" => Sent(r)

Delivered(q, r) ==
    /\ target[r] = q
    /\ place[r] = "done"
    /\ tx[r]["swap"] = "landed"
    /\ amount[r] >= Floor
    /\ Sent(r)

CompletedIsOver ==
    \A q \in Quotes : quote[q] = "completed" => \E r \in Requests : Delivered(q, r)

(* Whoever took a quote that is still in execution.                        *)
Held(q, r) ==
    /\ target[r] = q
    /\ \/ place[r] \in (Holding \ {"refund"}) \union {"dead"}
       \/ place[r] = "done" /\ Cut(r)

ExecutingIsHeld ==
    \A q \in Quotes : quote[q] = "executing" => \E r \in Requests : Held(q, r)

(* A swap has bought nothing until it lands, and the execution waits for it*)
(* before it goes on.                                                      *)
BoughtBySwap ==
    \A r \in Requests :
        /\ tx[r]["swap"] # "landed" => bought[r] = 0
        /\ place[r] \notin {"swapping", "post", "out", "outing", "book", "fail",
                            "refund", "done", "dead"} => tx[r]["swap"] = "none"
        /\ reply[r] = "ok" => place[r] = "done" /\ tx[r]["swap"] = "landed"

(* Between its two reads the output balance of a request that nothing      *)
(* crosses holds what it read and what its own swap has bought.            *)
BalanceIsExplained ==
    \A r \in Requests :
        place[r] \in {"build", "swap", "swapping", "post"} /\ ~crossed[r] =>
            wallet[OutOf(r)] = pre[r] + bought[r]

AmountIsBought ==
    \A r \in Requests :
        /\ place[r] \in {"out", "outing", "book"} \/ reply[r] = "ok"
        /\ ~crossed[r]
        => amount[r] = bought[r]

IInv ==
    /\ TypeOK /\ Placed /\ IdleHasNone /\ HolderTook /\ HolderIsAlone /\ TransferIsLast
    /\ OutIsSeen /\ LostWasSent /\ FailureIsRefunded /\ BehindIt /\ CompletedIsOver
    /\ ExecutingIsHeld /\ BoughtBySwap /\ BalanceIsExplained /\ AmountIsBought

LEMMA Amounts ==
    /\ Input \in Nat /\ Input > 0
    /\ Fee \in Nat /\ Fee > 0
    /\ Floor \in Nat
    /\ \A y \in Yields : y \in Nat
  BY AmountAssumption

-----------------------------------------------------------------------------
(* The steps of a request, each with what it leaves alone.                 *)
PayStep(r) ==
    Pay(r) /\ UNCHANGED <<chain, moved, rowVars, target, pre, amount, tx, refund, bought, hit>>
FindStep(r) ==
    /\ Find(r)
    /\ UNCHANGED <<chain, moved, rowVars, wallet, target, paid, pre, amount, tx, refund,
                   bought, crossed, hit>>
PrepareStep(r) ==
    /\ Prepare(r)
    /\ UNCHANGED <<chain, moved, rowVars, wallet, target, paid, pre, amount, tx, refund,
                   bought, crossed, hit>>
ThrowsStep(r) ==
    /\ Throws(r)
    /\ UNCHANGED <<chain, moved, rowVars, wallet, target, paid, pre, amount, reply, tx,
                   refund, bought, crossed, hit>>
EscapesStep(r) ==
    /\ Escapes(r)
    /\ UNCHANGED <<chain, moved, rowVars, wallet, target, paid, pre, amount, tx, refund,
                   bought, crossed>>
ClaimStep(r) ==
    /\ Claim(r)
    /\ UNCHANGED <<chain, moved, dir, stale, wallet, target, paid, pre, amount, tx, refund,
                   bought, crossed, hit>>
CloseStep(r) ==
    /\ Close(r)
    /\ UNCHANGED <<chain, moved, dir, stale, wallet, target, paid, pre, amount, tx, refund,
                   bought, crossed, hit>>
MarkStep(r) ==
    /\ MarkFailed(r)
    /\ UNCHANGED <<chain, moved, dir, stale, wallet, target, paid, pre, amount, tx, refund,
                   bought, crossed, hit>>
BeforeStep(r) ==
    /\ ReadBefore(r)
    /\ crossed' = [crossed EXCEPT ![r] = FALSE]
    /\ UNCHANGED <<chain, moved, rowVars, wallet, target, paid, amount, reply, tx, refund,
                   bought, hit>>
AfterStep(r) ==
    /\ ReadAfter(r)
    /\ UNCHANGED <<chain, moved, rowVars, wallet, target, paid, pre, reply, tx, refund,
                   bought, crossed, hit>>
SendStep(r, k) ==
    /\ Send(r, k)
    /\ UNCHANGED <<chain, moved, rowVars, wallet, target, paid, pre, amount, reply, refund,
                   bought, crossed>>
ReturnsStep(r, k) ==
    /\ Returns(r, k)
    /\ UNCHANGED <<chain, moved, rowVars, wallet, target, paid, pre, amount, reply, refund,
                   bought, crossed>>
LosesStep(r, k) ==
    /\ Loses(r, k)
    /\ UNCHANGED <<chain, moved, rowVars, wallet, target, paid, pre, amount, reply, refund,
                   bought, crossed>>
RefundStep(r) ==
    /\ RecordRefund(r)
    /\ UNCHANGED <<chain, moved, rowVars, wallet, target, paid, pre, amount, tx, bought,
                   crossed>>
FaultStep(r) ==
    /\ QueryFault(r)
    /\ UNCHANGED <<chain, moved, dir, stale, wallet, target, paid, pre, amount, tx, refund,
                   bought, crossed>>

StepOf(r) ==
    \/ PayStep(r) \/ FindStep(r) \/ PrepareStep(r) \/ ThrowsStep(r)
    \/ EscapesStep(r) \/ ClaimStep(r) \/ CloseStep(r) \/ MarkStep(r) \/ BeforeStep(r)
    \/ AfterStep(r) \/ RefundStep(r) \/ FaultStep(r) \/ Crash(r)
    \/ \E q \in Quotes : Look(r, q)
    \/ \E k \in Calls :
        \/ SendStep(r, k) \/ ReturnsStep(r, k) \/ LosesStep(r, k) \/ Reverts(r, k)
        \/ \E y \in Yields : Lands(r, k, y)

LEMMA StepCases ==
    ASSUME NEW r \in Requests, Step(r)
    PROVE  StepOf(r)
  <1> USE DEF rowVars
  <1>1. CASE Pay(r) /\ UNCHANGED <<chain, moved, dir, stale, target, bought, quote, pre,
                                   amount, tx, refund, hit>>
    BY <1>1, Zenon DEF StepOf, PayStep
  <1>2. CASE /\ Find(r) \/ Prepare(r) \/ (Throws(r) /\ UNCHANGED reply)
             /\ UNCHANGED <<chain, moved, dir, stale, target, bought, quote, wallet, paid,
                            pre, amount, tx, refund, crossed, hit>>
    BY <1>2, Zenon DEF StepOf, FindStep, PrepareStep, ThrowsStep
  <1>3. CASE /\ Claim(r) \/ Close(r) \/ MarkFailed(r)
             /\ UNCHANGED <<chain, moved, dir, stale, target, bought, wallet, paid, pre,
                            amount, tx, refund, crossed, hit>>
    BY <1>3, Zenon DEF StepOf, ClaimStep, CloseStep, MarkStep
  <1>4. CASE /\ ReadBefore(r)
             /\ crossed' = [crossed EXCEPT ![r] = FALSE]
             /\ UNCHANGED <<chain, moved, dir, stale, target, bought, quote, wallet, paid,
                            amount, reply, tx, refund, hit>>
    BY <1>4, Zenon DEF StepOf, BeforeStep
  <1>5. CASE /\ ReadAfter(r)
             /\ UNCHANGED <<chain, moved, dir, stale, target, bought, quote, wallet, paid,
                            pre, reply, tx, refund, crossed, hit>>
    BY <1>5, Zenon DEF StepOf, AfterStep
  <1>6. CASE /\ \E k \in Calls : Send(r, k) \/ Returns(r, k) \/ Loses(r, k)
             /\ UNCHANGED <<chain, moved, dir, stale, target, bought, quote, wallet, paid,
                            pre, amount, reply, refund, crossed>>
    BY <1>6, Zenon DEF StepOf, SendStep, ReturnsStep, LosesStep
  <1>7. CASE /\ RecordRefund(r)
             /\ UNCHANGED <<chain, moved, dir, stale, target, bought, quote, wallet, paid,
                            pre, amount, tx, crossed>>
    BY <1>7, Zenon DEF StepOf, RefundStep
  <1>8. CASE /\ QueryFault(r)
             /\ UNCHANGED <<chain, moved, dir, stale, target, bought, wallet, paid, pre,
                            amount, tx, refund, crossed>>
    BY <1>8, Zenon DEF StepOf, FaultStep
  <1>9. CASE /\ Escapes(r)
             /\ UNCHANGED <<chain, moved, dir, stale, target, bought, quote, wallet, paid,
                            pre, amount, tx, refund, crossed>>
    BY <1>9, Zenon DEF StepOf, EscapesStep
  <1> QED BY <1>1, <1>2, <1>3, <1>4, <1>5, <1>6, <1>7, <1>8, <1>9 DEF Step

(* A step of the system is one of these, or changes nothing.               *)
LEMMA NextCases ==
    ASSUME [Next]_vars
    PROVE  \/ UNCHANGED vars
           \/ \E q \in Quotes :
                Expire(q) \/ \E d \in Directions : InsertQuote(q, d)
           \/ \E m \in Others : OthersMove(m)
           \/ \E r \in Requests : StepOf(r)
  <1>1. ASSUME NEW r \in Requests,
               \/ \E q \in Quotes : Look(r, q)
               \/ Step(r) \/ Crash(r)
               \/ \E k \in Calls : Reverts(r, k) \/ \E y \in Yields : Lands(r, k, y)
        PROVE  StepOf(r)
    BY <1>1, StepCases, Zenon DEF StepOf
  <1> QED BY <1>1, Zenon DEF Next

(* The awaits before the transactions.                                     *)
LEMMA PrepareGoes ==
    ASSUME NEW r \in Requests, Prepare(r)
    PROVE  \E from \in {"approval", "requote", "approve", "build"},
              to \in {"requote", "fail", "pull", "approve", "pre", "swap"} :
                  Goto(r, from, to)
  BY DEF Prepare, AfterDrift, Ready

(* Type correctness.                                                       *)
LEMMA TypeStep ==
    ASSUME TypeOK, [Next]_vars
    PROVE  TypeOK'
  <1> USE DEF Goto, End, Hit, rowVars
  <1>1. ASSUME NEW q0 \in Quotes, NEW d0 \in Directions, InsertQuote(q0, d0)
        PROVE  TypeOK'
    BY <1>1 DEF TypeOK, Places, Tokens, InsertQuote, runVars
  <1>2. ASSUME NEW q0 \in Quotes, Expire(q0)
        PROVE  TypeOK'
    BY <1>2 DEF TypeOK, Places, Tokens, Expire, runVars
  <1>3. ASSUME NEW r0 \in Requests, NEW q0 \in Quotes, Look(r0, q0)
        PROVE  TypeOK'
    BY <1>3, ZenonT(60) DEF TypeOK, Places, Tokens, Look, Read, rowVars
  <1>4. ASSUME NEW r0 \in Requests, PayStep(r0)
        PROVE  TypeOK'
    <2>1. wallet' \in [Tokens -> Nat] /\ crossed' \in [Requests -> BOOLEAN]
      <3>1. wallet["usdc"] \in Nat
        BY DEF TypeOK, Tokens
      <3>2. Fee + (IF Reverse(r0) THEN 0 ELSE Input) \in Nat
        BY Amounts
      <3>3. CASE UNCHANGED <<wallet, crossed>>
        BY <3>3 DEF TypeOK
      <3>4. CASE /\ wallet' = [wallet EXCEPT !["usdc"] =
                       @ + Fee + IF Reverse(r0) THEN 0 ELSE Input]
                 /\ Cross(r0, {"usdc"})
        <4>1. crossed' \in [Requests -> BOOLEAN]
          BY <3>4 DEF Cross, TypeOK
        <4>2. wallet["usdc"] + Fee + (IF Reverse(r0) THEN 0 ELSE Input) \in Nat
          BY <3>1, <3>2, Amounts
        <4> QED BY <3>4, <4>1, <4>2 DEF TypeOK
      <3> QED BY <1>4, <3>3, <3>4 DEF PayStep, Pay
    <2>2. /\ place' \in [Requests -> Places]
          /\ reply' \in [Requests -> {"none", "ok", "refused", "rejected", "failed"}]
          /\ paid' \in [Requests -> BOOLEAN]
      BY <1>4, ZenonT(60) DEF PayStep, Pay, TypeOK, Places
    <2> QED BY <1>4, <2>1, <2>2 DEF PayStep, TypeOK
  <1>5. ASSUME NEW r0 \in Requests, FindStep(r0)
        PROVE  TypeOK'
    <2>1. /\ place' \in [Requests -> Places]
          /\ reply' \in [Requests -> {"none", "ok", "refused", "rejected", "failed"}]
      <3>1. CASE \E to \in {"drop", "claim"} : Goto(r0, "find", to) /\ UNCHANGED reply
        BY <3>1 DEF TypeOK, Places
      <3>2. CASE End(r0, "find", "refused")
        BY <3>2 DEF TypeOK, Places
      <3> QED BY <1>5, <3>1, <3>2 DEF FindStep, Find, Read
    <2> QED BY <1>5, <2>1 DEF FindStep, TypeOK
  <1>6. ASSUME NEW r0 \in Requests, PrepareStep(r0)
        PROVE  TypeOK'
    <2>1. PICK to \in {"requote", "fail", "pull", "approve", "pre", "swap"} :
            place' = [place EXCEPT ![r0] = to]
      BY <1>6, PrepareGoes DEF PrepareStep
    <2>2. place' \in [Requests -> Places] /\ UNCHANGED reply
      BY <1>6, <2>1 DEF PrepareStep, Prepare, TypeOK, Places
    <2> QED BY <1>6, <2>2 DEF PrepareStep, TypeOK
  <1>7. ASSUME NEW r0 \in Requests, ThrowsStep(r0)
        PROVE  TypeOK'
    BY <1>7 DEF TypeOK, Places, Tokens, ThrowsStep, Throws
  <1>8. ASSUME NEW r0 \in Requests, ClaimStep(r0)
        PROVE  TypeOK'
    BY <1>8 DEF TypeOK, Places, Tokens, ClaimStep, Claim, Taken
  <1>9. ASSUME NEW r0 \in Requests, CloseStep(r0)
        PROVE  TypeOK'
    BY <1>9 DEF TypeOK, Places, Tokens, CloseStep, Close, Write, Status
  <1>10. ASSUME NEW r0 \in Requests, MarkStep(r0)
        PROVE  TypeOK'
    BY <1>10 DEF TypeOK, Places, Tokens, MarkStep, MarkFailed, AfterMark,
       Write, Status
  <1>11. ASSUME NEW r0 \in Requests, BeforeStep(r0)
        PROVE  TypeOK'
    BY <1>11 DEF TypeOK, Places, Tokens, BeforeStep, ReadBefore, Balance,
       OutOf
  <1>12. ASSUME NEW r0 \in Requests, AfterStep(r0)
        PROVE  TypeOK'
    BY <1>12, Amounts DEF TypeOK, Places, Tokens, AfterStep, ReadAfter,
       Gain, OutOf
  <1>13. ASSUME NEW r0 \in Requests, NEW k0 \in Calls, SendStep(r0, k0)
        PROVE  TypeOK'
    BY <1>13 DEF TypeOK, Places, Tokens, SendStep, Send, Sending, Waiting,
       Calls
  <1>14. ASSUME NEW r0 \in Requests, NEW k0 \in Calls, ReturnsStep(r0, k0)
        PROVE  TypeOK'
    BY <1>14 DEF TypeOK, Places, Tokens, ReturnsStep, Returns, Confirms,
       Waiting, After, Ready, Calls
  <1>15. ASSUME NEW r0 \in Requests, NEW k0 \in Calls, LosesStep(r0, k0)
        PROVE  TypeOK'
    BY <1>15, SMTT(60) DEF TypeOK, Places, Tokens, LosesStep, Loses, Waiting, Calls
  <1>16. ASSUME NEW r0 \in Requests, RefundStep(r0)
        PROVE  TypeOK'
    <2>1. refund' \in [Requests -> Nat]
      <3>1. Input + Fee \in Nat
        BY Amounts
      <3> QED BY <1>16, <3>1 DEF RefundStep, RecordRefund, TypeOK
    <2>2. hit' \in [Requests -> SUBSET (Calls \union {"query", "throw"})]
      BY <1>16, SMTT(60) DEF RefundStep, RecordRefund, TypeOK
    <2>3. /\ place' \in [Requests -> Places]
          /\ reply' \in [Requests -> {"none", "ok", "refused", "rejected", "failed"}]
      BY <1>16 DEF RefundStep, RecordRefund, TypeOK, Places
    <2> QED BY <1>16, <2>1, <2>2, <2>3 DEF RefundStep, TypeOK
  <1>17. ASSUME NEW r0 \in Requests, FaultStep(r0)
        PROVE  TypeOK'
    BY <1>17 DEF TypeOK, Places, Tokens, FaultStep, QueryFault,
       AfterQueryFault, Taken, Write, Status
  <1>18. ASSUME NEW r0 \in Requests, Crash(r0)
        PROVE  TypeOK'
    BY <1>18 DEF TypeOK, Places, Tokens, Crash
  <1>19. ASSUME NEW r0 \in Requests, NEW k0 \in Calls, Reverts(r0, k0)
        PROVE  TypeOK'
    BY <1>19 DEF TypeOK, Places, Tokens, Reverts, runVars, Calls
  <1>20. ASSUME NEW r0 \in Requests, NEW k0 \in Calls, NEW y0 \in Yields, Lands(r0, k0, y0)
        PROVE  TypeOK'
    <2>1. /\ InOf(r0) \in Tokens /\ OutOf(r0) \in Tokens
          /\ InOf(r0) # OutOf(r0)
      BY DEF InOf, OutOf, Tokens
    <2>2. /\ wallet[InOf(r0)] \in Nat /\ wallet[OutOf(r0)] \in Nat
          /\ amount[r0] \in Nat /\ y0 \in Nat /\ Input \in Nat
      BY <2>1, Amounts DEF TypeOK
    <2>3. crossed' \in [Requests -> BOOLEAN]
      <3>1. ASSUME NEW ts, Cross(r0, ts)
            PROVE  crossed' \in [Requests -> BOOLEAN]
        BY <3>1 DEF Cross, TypeOK
      <3> QED BY <1>20, <3>1, Zenon DEF Lands
    <2>4. wallet' \in [Tokens -> Nat] /\ bought' \in [Requests -> Nat]
      <3>1. CASE k0 = "pull"
        <4>1. wallet' = [wallet EXCEPT ![InOf(r0)] = @ + Input] /\ UNCHANGED bought
          BY <1>20, <3>1 DEF Lands
        <4>2. wallet[InOf(r0)] + Input \in Nat
          BY <2>2
        <4> QED BY <2>1, <4>1, <4>2 DEF TypeOK
      <3>2. CASE k0 = "swap"
        <4>1. /\ wallet[InOf(r0)] >= Input
              /\ wallet' = [wallet EXCEPT ![InOf(r0)] = @ - Input, ![OutOf(r0)] = @ + y0]
              /\ bought' = [bought EXCEPT ![r0] = y0]
          BY <1>20, <3>2 DEF Lands
        <4>2. wallet[InOf(r0)] - Input \in Nat /\ wallet[OutOf(r0)] + y0 \in Nat
          BY <2>2, <4>1
        <4> QED BY <2>1, <2>2, <4>1, <4>2 DEF TypeOK
      <3>3. CASE k0 = "out"
        BY <1>20, <2>1, <2>2, <3>3 DEF Lands, TypeOK
      <3> QED BY <3>1, <3>2, <3>3 DEF Calls
    <2>5. tx' \in [Requests -> [Calls -> {"none", "flying", "landed", "reverted"}]]
      BY <1>20 DEF Lands, TypeOK
    <2> QED BY <1>20, <2>3, <2>4, <2>5 DEF Lands, runVars, TypeOK
  <1>21. CASE UNCHANGED vars
    BY <1>21 DEF TypeOK, Places, Tokens, vars, runVars
  <1>22. ASSUME NEW r0 \in Requests, EscapesStep(r0)
         PROVE  TypeOK'
    BY <1>22 DEF TypeOK, Places, Tokens, EscapesStep, Escapes, NoAddress
  <1>23. ASSUME NEW m0 \in Others, OthersMove(m0)
         PROVE  TypeOK'
    <2>1. m0.token \in Tokens /\ m0.amount \in Int
      BY OthersAssumption DEF Tokens
    <2>2. wallet[m0.token] + m0.amount \in Nat
      BY <1>23, <2>1 DEF OthersMove, TypeOK
    <2>3. /\ wallet' \in [Tokens -> Nat]
          /\ crossed' \in [Requests -> BOOLEAN]
          /\ moved' \subseteq Others
      BY <1>23, <2>1, <2>2 DEF OthersMove, Cross, TypeOK
    <2> QED BY <1>23, <2>3 DEF OthersMove, runVars, TypeOK
  <1> QED
    BY <1>1, <1>2, <1>3, <1>4, <1>5, <1>6, <1>7, <1>8, <1>9, <1>10, <1>11,
       <1>12, <1>13, <1>14, <1>15, <1>16, <1>17, <1>18, <1>19, <1>20,
       <1>21, <1>22, <1>23, NextCases, Zenon DEF StepOf

(* A request that has yet to look its quote up has done nothing.           *)
LEMMA PlacedStep ==
    ASSUME TypeOK, Placed, [Next]_vars
    PROVE  Placed'
  <1> USE DEF Goto, End, Hit, rowVars
  <1>1. ASSUME NEW q0 \in Quotes, NEW d0 \in Directions, InsertQuote(q0, d0)
        PROVE  Placed'
    BY <1>1 DEF TypeOK, Tokens, Placed, Engaged, Holding, InsertQuote,
       runVars
  <1>2. ASSUME NEW q0 \in Quotes, Expire(q0)
        PROVE  Placed'
    BY <1>2 DEF TypeOK, Tokens, Placed, Engaged, Holding, Expire, runVars
  <1>3. ASSUME NEW r0 \in Requests, NEW q0 \in Quotes, Look(r0, q0)
        PROVE  Placed'
    BY <1>3 DEF TypeOK, Tokens, Placed, Engaged, Holding, Look, Read,
       rowVars
  <1>4. ASSUME NEW r0 \in Requests, PayStep(r0)
        PROVE  Placed'
    BY <1>4 DEF TypeOK, Tokens, Placed, Engaged, Holding, PayStep, Pay,
       Cross, Reverse
  <1>5. ASSUME NEW r0 \in Requests, FindStep(r0)
        PROVE  Placed'
    BY <1>5 DEF TypeOK, Tokens, Placed, Engaged, Holding, FindStep, Find,
       Read
  <1>6. ASSUME NEW r0 \in Requests, PrepareStep(r0)
        PROVE  Placed'
    BY <1>6 DEF TypeOK, Tokens, Placed, Engaged, Holding, PrepareStep,
       Prepare, AfterDrift, Ready
  <1>7. ASSUME NEW r0 \in Requests, ThrowsStep(r0)
        PROVE  Placed'
    BY <1>7 DEF TypeOK, Tokens, Placed, Engaged, Holding, ThrowsStep,
       Throws
  <1>8. ASSUME NEW r0 \in Requests, ClaimStep(r0)
        PROVE  Placed'
    BY <1>8 DEF TypeOK, Tokens, Placed, Engaged, Holding, ClaimStep,
       Claim, Taken
  <1>9. ASSUME NEW r0 \in Requests, CloseStep(r0)
        PROVE  Placed'
    BY <1>9, SMTT(60) DEF TypeOK, Tokens, Placed, Engaged, Holding, CloseStep,
       Close, Write, Status
  <1>10. ASSUME NEW r0 \in Requests, MarkStep(r0)
        PROVE  Placed'
    BY <1>10 DEF TypeOK, Tokens, Placed, Engaged, Holding, MarkStep,
       MarkFailed, AfterMark, Write, Status
  <1>11. ASSUME NEW r0 \in Requests, BeforeStep(r0)
        PROVE  Placed'
    BY <1>11 DEF TypeOK, Tokens, Placed, Engaged, Holding, BeforeStep,
       ReadBefore, Balance, OutOf
  <1>12. ASSUME NEW r0 \in Requests, AfterStep(r0)
        PROVE  Placed'
    BY <1>12 DEF TypeOK, Tokens, Placed, Engaged, Holding, AfterStep,
       ReadAfter, Gain, OutOf
  <1>13. ASSUME NEW r0 \in Requests, NEW k0 \in Calls, SendStep(r0, k0)
        PROVE  Placed'
    BY <1>13 DEF TypeOK, Tokens, Placed, Engaged, Holding, SendStep, Send,
       Sending, Waiting, Calls
  <1>14. ASSUME NEW r0 \in Requests, NEW k0 \in Calls, ReturnsStep(r0, k0)
        PROVE  Placed'
    BY <1>14 DEF TypeOK, Tokens, Placed, Engaged, Holding, ReturnsStep,
       Returns, Confirms, Waiting, After, Ready, Calls
  <1>15. ASSUME NEW r0 \in Requests, NEW k0 \in Calls, LosesStep(r0, k0)
        PROVE  Placed'
    BY <1>15 DEF TypeOK, Tokens, Placed, Engaged, Holding, LosesStep,
       Loses, Waiting, Calls
  <1>16. ASSUME NEW r0 \in Requests, RefundStep(r0)
        PROVE  Placed'
    BY <1>16, Amounts DEF TypeOK, Tokens, Placed, Engaged, Holding,
       RefundStep, RecordRefund
  <1>17. ASSUME NEW r0 \in Requests, FaultStep(r0)
        PROVE  Placed'
    BY <1>17 DEF TypeOK, Tokens, Placed, Engaged, Holding, FaultStep,
       QueryFault, AfterQueryFault, Taken, Write, Status
  <1>18. ASSUME NEW r0 \in Requests, Crash(r0)
        PROVE  Placed'
    BY <1>18 DEF TypeOK, Tokens, Placed, Engaged, Holding, Crash
  <1>19. ASSUME NEW r0 \in Requests, NEW k0 \in Calls, Reverts(r0, k0)
        PROVE  Placed'
    BY <1>19 DEF TypeOK, Tokens, Placed, Engaged, Holding, Reverts,
       runVars, Calls
  <1>20. ASSUME NEW r0 \in Requests, NEW k0 \in Calls, NEW y0 \in Yields, Lands(r0, k0, y0)
        PROVE  Placed'
    BY <1>20 DEF TypeOK, Tokens, Placed, Engaged, Holding, Lands, Cross,
       InOf, OutOf, runVars, Calls
  <1>21. CASE UNCHANGED vars
    BY <1>21 DEF TypeOK, Tokens, Placed, Engaged, Holding, vars, runVars
  <1>22. ASSUME NEW r0 \in Requests, EscapesStep(r0)
         PROVE  Placed'
    BY <1>22 DEF TypeOK, Tokens, Placed, Engaged, Holding, EscapesStep, Escapes,
       NoAddress
  <1>23. ASSUME NEW m0 \in Others, OthersMove(m0)
         PROVE  Placed'
    BY <1>23 DEF TypeOK, Tokens, Placed, Engaged, Holding, OthersMove, Cross,
       runVars
  <1> QED
    BY <1>1, <1>2, <1>3, <1>4, <1>5, <1>6, <1>7, <1>8, <1>9, <1>10, <1>11,
       <1>12, <1>13, <1>14, <1>15, <1>16, <1>17, <1>18, <1>19, <1>20,
       <1>21, <1>22, <1>23, NextCases, Zenon DEF StepOf

(* Who has looked does not go back.                                        *)
LEMMA IdleStep ==
    ASSUME TypeOK, IdleHasNone, [Next]_vars
    PROVE  IdleHasNone'
  <1> USE DEF Goto, End, Hit, rowVars
  <1>1. ASSUME NEW q0 \in Quotes, NEW d0 \in Directions, InsertQuote(q0, d0)
        PROVE  IdleHasNone'
    BY <1>1 DEF TypeOK, IdleHasNone, InsertQuote, runVars
  <1>2. ASSUME NEW q0 \in Quotes, Expire(q0)
        PROVE  IdleHasNone'
    BY <1>2 DEF TypeOK, IdleHasNone, Expire, runVars
  <1>3. ASSUME NEW r0 \in Requests, NEW q0 \in Quotes, Look(r0, q0)
        PROVE  IdleHasNone'
    BY <1>3 DEF TypeOK, IdleHasNone, Look, Read, rowVars
  <1>4. ASSUME NEW r0 \in Requests, PayStep(r0)
        PROVE  IdleHasNone'
    BY <1>4 DEF TypeOK, IdleHasNone, PayStep, Pay, Cross, Reverse
  <1>5. ASSUME NEW r0 \in Requests, FindStep(r0)
        PROVE  IdleHasNone'
    BY <1>5 DEF TypeOK, IdleHasNone, FindStep, Find, Read
  <1>6. ASSUME NEW r0 \in Requests, PrepareStep(r0)
        PROVE  IdleHasNone'
    BY <1>6 DEF TypeOK, IdleHasNone, PrepareStep, Prepare, AfterDrift, Ready
  <1>7. ASSUME NEW r0 \in Requests, ThrowsStep(r0)
        PROVE  IdleHasNone'
    BY <1>7 DEF TypeOK, IdleHasNone, ThrowsStep, Throws
  <1>8. ASSUME NEW r0 \in Requests, ClaimStep(r0)
        PROVE  IdleHasNone'
    BY <1>8 DEF TypeOK, IdleHasNone, ClaimStep, Claim, Taken
  <1>9. ASSUME NEW r0 \in Requests, CloseStep(r0)
        PROVE  IdleHasNone'
    BY <1>9 DEF TypeOK, IdleHasNone, CloseStep, Close, Write, Status
  <1>10. ASSUME NEW r0 \in Requests, MarkStep(r0)
        PROVE  IdleHasNone'
    BY <1>10 DEF TypeOK, IdleHasNone, MarkStep,
       MarkFailed, AfterMark, Write, Status
  <1>11. ASSUME NEW r0 \in Requests, BeforeStep(r0)
        PROVE  IdleHasNone'
    BY <1>11 DEF TypeOK, IdleHasNone, BeforeStep, ReadBefore, Balance, OutOf
  <1>12. ASSUME NEW r0 \in Requests, AfterStep(r0)
        PROVE  IdleHasNone'
    BY <1>12 DEF TypeOK, IdleHasNone, AfterStep, ReadAfter, Gain, OutOf
  <1>13. ASSUME NEW r0 \in Requests, NEW k0 \in Calls, SendStep(r0, k0)
        PROVE  IdleHasNone'
    BY <1>13 DEF TypeOK, IdleHasNone, SendStep, Send, Sending, Waiting, Calls
  <1>14. ASSUME NEW r0 \in Requests, NEW k0 \in Calls, ReturnsStep(r0, k0)
        PROVE  IdleHasNone'
    BY <1>14 DEF TypeOK, IdleHasNone, ReturnsStep,
       Returns, Confirms, Waiting, After, Ready, Calls
  <1>15. ASSUME NEW r0 \in Requests, NEW k0 \in Calls, LosesStep(r0, k0)
        PROVE  IdleHasNone'
    BY <1>15 DEF TypeOK, IdleHasNone, LosesStep, Loses, Waiting, Calls
  <1>16. ASSUME NEW r0 \in Requests, RefundStep(r0)
        PROVE  IdleHasNone'
    BY <1>16, Amounts DEF TypeOK, IdleHasNone, RefundStep, RecordRefund
  <1>17. ASSUME NEW r0 \in Requests, FaultStep(r0)
        PROVE  IdleHasNone'
    BY <1>17 DEF TypeOK, IdleHasNone, FaultStep,
       QueryFault, AfterQueryFault, Taken, Write, Status
  <1>18. ASSUME NEW r0 \in Requests, Crash(r0)
        PROVE  IdleHasNone'
    BY <1>18 DEF TypeOK, IdleHasNone, Crash
  <1>19. ASSUME NEW r0 \in Requests, NEW k0 \in Calls, Reverts(r0, k0)
        PROVE  IdleHasNone'
    BY <1>19 DEF TypeOK, IdleHasNone, Reverts, runVars, Calls
  <1>20. ASSUME NEW r0 \in Requests, NEW k0 \in Calls, NEW y0 \in Yields, Lands(r0, k0, y0)
        PROVE  IdleHasNone'
    BY <1>20 DEF TypeOK, IdleHasNone, Lands, Cross, InOf, OutOf, runVars, Calls
  <1>21. CASE UNCHANGED vars
    BY <1>21 DEF TypeOK, IdleHasNone, vars, runVars
  <1>22. ASSUME NEW r0 \in Requests, EscapesStep(r0)
         PROVE  IdleHasNone'
    BY <1>22 DEF TypeOK, IdleHasNone, EscapesStep, Escapes, NoAddress
  <1>23. ASSUME NEW m0 \in Others, OthersMove(m0)
         PROVE  IdleHasNone'
    BY <1>23 DEF TypeOK, IdleHasNone, OthersMove, Cross, runVars
  <1> QED
    BY <1>1, <1>2, <1>3, <1>4, <1>5, <1>6, <1>7, <1>8, <1>9, <1>10, <1>11,
       <1>12, <1>13, <1>14, <1>15, <1>16, <1>17, <1>18, <1>19, <1>20,
       <1>21, <1>22, <1>23, NextCases, Zenon DEF StepOf

(* Only a quote that is quoted is taken, and none is quoted again.         *)
LEMMA TookStep ==
    ASSUME TypeOK, Placed, HolderTook, [Next]_vars
    PROVE  HolderTook'
  <1> USE DEF Goto, End, Hit, rowVars
  <1>1. ASSUME NEW q0 \in Quotes, NEW d0 \in Directions, InsertQuote(q0, d0)
        PROVE  HolderTook'
    BY <1>1 DEF TypeOK, Tokens, Placed, HolderTook, Engaged, Holding,
       InsertQuote, runVars
  <1>2. ASSUME NEW q0 \in Quotes, Expire(q0)
        PROVE  HolderTook'
    BY <1>2 DEF TypeOK, Tokens, Placed, HolderTook, Engaged, Holding,
       Expire, runVars
  <1>3. ASSUME NEW r0 \in Requests, NEW q0 \in Quotes, Look(r0, q0)
        PROVE  HolderTook'
    BY <1>3 DEF TypeOK, Tokens, Placed, HolderTook, Engaged, Holding,
       Look, Read, rowVars
  <1>4. ASSUME NEW r0 \in Requests, PayStep(r0)
        PROVE  HolderTook'
    BY <1>4 DEF TypeOK, Tokens, Placed, HolderTook, Engaged, Holding,
       PayStep, Pay, Cross, Reverse
  <1>5. ASSUME NEW r0 \in Requests, FindStep(r0)
        PROVE  HolderTook'
    BY <1>5 DEF TypeOK, Tokens, Placed, HolderTook, Engaged, Holding,
       FindStep, Find, Read
  <1>6. ASSUME NEW r0 \in Requests, PrepareStep(r0)
        PROVE  HolderTook'
    BY <1>6 DEF TypeOK, Tokens, Placed, HolderTook, Engaged, Holding,
       PrepareStep, Prepare, AfterDrift, Ready
  <1>7. ASSUME NEW r0 \in Requests, ThrowsStep(r0)
        PROVE  HolderTook'
    BY <1>7 DEF TypeOK, Tokens, Placed, HolderTook, Engaged, Holding,
       ThrowsStep, Throws
  <1>8. ASSUME NEW r0 \in Requests, ClaimStep(r0)
        PROVE  HolderTook'
    <2>1. CASE UNCHANGED quote /\ place' = [place EXCEPT ![r0] = "done"]
      BY <1>8, <2>1 DEF ClaimStep, TypeOK, HolderTook, Engaged, Holding
    <2>2. CASE quote' = [quote EXCEPT ![target[r0]] = "executing"]
      BY <1>8, <2>2 DEF ClaimStep, Claim, Taken, TypeOK, HolderTook, Placed, Engaged,
         Holding
    <2> QED BY <1>8, <2>1, <2>2 DEF ClaimStep, Claim
  <1>9. ASSUME NEW r0 \in Requests, CloseStep(r0)
        PROVE  HolderTook'
    BY <1>9 DEF TypeOK, Tokens, Placed, HolderTook, Engaged, Holding,
       CloseStep, Close, Write, Status
  <1>10. ASSUME NEW r0 \in Requests, MarkStep(r0)
        PROVE  HolderTook'
    BY <1>10 DEF TypeOK, Tokens, Placed, HolderTook, Engaged, Holding,
       MarkStep, MarkFailed, AfterMark, Write, Status
  <1>11. ASSUME NEW r0 \in Requests, BeforeStep(r0)
        PROVE  HolderTook'
    BY <1>11 DEF TypeOK, Tokens, Placed, HolderTook, Engaged, Holding,
       BeforeStep, ReadBefore, Balance, OutOf
  <1>12. ASSUME NEW r0 \in Requests, AfterStep(r0)
        PROVE  HolderTook'
    BY <1>12 DEF TypeOK, Tokens, Placed, HolderTook, Engaged, Holding,
       AfterStep, ReadAfter, Gain, OutOf
  <1>13. ASSUME NEW r0 \in Requests, NEW k0 \in Calls, SendStep(r0, k0)
        PROVE  HolderTook'
    BY <1>13 DEF TypeOK, Tokens, Placed, HolderTook, Engaged, Holding,
       SendStep, Send, Sending, Waiting, Calls
  <1>14. ASSUME NEW r0 \in Requests, NEW k0 \in Calls, ReturnsStep(r0, k0)
        PROVE  HolderTook'
    BY <1>14 DEF TypeOK, Tokens, Placed, HolderTook, Engaged, Holding,
       ReturnsStep, Returns, Confirms, Waiting, After, Ready, Calls
  <1>15. ASSUME NEW r0 \in Requests, NEW k0 \in Calls, LosesStep(r0, k0)
        PROVE  HolderTook'
    BY <1>15 DEF TypeOK, Tokens, Placed, HolderTook, Engaged, Holding,
       LosesStep, Loses, Waiting, Calls
  <1>16. ASSUME NEW r0 \in Requests, RefundStep(r0)
        PROVE  HolderTook'
    BY <1>16, Amounts DEF TypeOK, Tokens, Placed, HolderTook, Engaged,
       Holding, RefundStep, RecordRefund
  <1>17. ASSUME NEW r0 \in Requests, FaultStep(r0)
        PROVE  HolderTook'
    BY <1>17 DEF TypeOK, Tokens, Placed, HolderTook, Engaged, Holding,
       FaultStep, QueryFault, AfterQueryFault, Taken, Write, Status
  <1>18. ASSUME NEW r0 \in Requests, Crash(r0)
        PROVE  HolderTook'
    BY <1>18 DEF TypeOK, Tokens, Placed, HolderTook, Engaged, Holding,
       Crash
  <1>19. ASSUME NEW r0 \in Requests, NEW k0 \in Calls, Reverts(r0, k0)
        PROVE  HolderTook'
    BY <1>19 DEF TypeOK, Tokens, Placed, HolderTook, Engaged, Holding,
       Reverts, runVars, Calls
  <1>20. ASSUME NEW r0 \in Requests, NEW k0 \in Calls, NEW y0 \in Yields, Lands(r0, k0, y0)
        PROVE  HolderTook'
    BY <1>20 DEF TypeOK, Tokens, Placed, HolderTook, Engaged, Holding,
       Lands, Cross, InOf, OutOf, runVars, Calls
  <1>21. CASE UNCHANGED vars
    BY <1>21 DEF TypeOK, Tokens, Placed, HolderTook, Engaged, Holding,
       vars, runVars
  <1>22. ASSUME NEW r0 \in Requests, EscapesStep(r0)
         PROVE  HolderTook'
    BY <1>22 DEF TypeOK, Tokens, Placed, HolderTook, Engaged, Holding,
       EscapesStep, Escapes, NoAddress
  <1>23. ASSUME NEW m0 \in Others, OthersMove(m0)
         PROVE  HolderTook'
    BY <1>23 DEF TypeOK, Tokens, Placed, HolderTook, Engaged, Holding,
       OthersMove, Cross, runVars
  <1> QED
    BY <1>1, <1>2, <1>3, <1>4, <1>5, <1>6, <1>7, <1>8, <1>9, <1>10, <1>11,
       <1>12, <1>13, <1>14, <1>15, <1>16, <1>17, <1>18, <1>19, <1>20,
       <1>21, <1>22, <1>23, NextCases, Zenon DEF StepOf

(* ... so whoever takes it is alone.                                       *)
LEMMA AloneStep ==
    ASSUME TypeOK, Placed, HolderTook, HolderIsAlone, [Next]_vars
    PROVE  HolderIsAlone'
  <1> USE DEF Goto, End, Hit, rowVars
  <1>1. ASSUME NEW q0 \in Quotes, NEW d0 \in Directions, InsertQuote(q0, d0)
        PROVE  HolderIsAlone'
    BY <1>1, SMTT(60) DEF TypeOK, Tokens, Placed, HolderTook, HolderIsAlone,
       Engaged, Holding, InsertQuote, runVars
  <1>2. ASSUME NEW q0 \in Quotes, Expire(q0)
        PROVE  HolderIsAlone'
    BY <1>2 DEF HolderIsAlone, Engaged, Expire, runVars
  <1>3. ASSUME NEW r0 \in Requests, NEW q0 \in Quotes, Look(r0, q0)
        PROVE  HolderIsAlone'
    BY <1>3 DEF TypeOK, Tokens, Placed, HolderTook, HolderIsAlone,
       Engaged, Holding, Look, Read, rowVars
  <1>4. ASSUME NEW r0 \in Requests, PayStep(r0)
        PROVE  HolderIsAlone'
    <2>1. \A r \in Requests : Engaged(r)' => Engaged(r)
      BY <1>4 DEF PayStep, Pay, TypeOK, Engaged, Holding
    <2> QED BY <1>4, <2>1 DEF PayStep, HolderIsAlone
  <1>5. ASSUME NEW r0 \in Requests, FindStep(r0)
        PROVE  HolderIsAlone'
    BY <1>5 DEF TypeOK, Tokens, Placed, HolderTook, HolderIsAlone,
       Engaged, Holding, FindStep, Find, Read
  <1>6. ASSUME NEW r0 \in Requests, PrepareStep(r0)
        PROVE  HolderIsAlone'
    <2>1. \A r \in Requests : Engaged(r)' => Engaged(r)
      BY <1>6 DEF PrepareStep, Prepare, AfterDrift, Ready, TypeOK, Engaged, Holding
    <2> QED BY <1>6, <2>1 DEF PrepareStep, HolderIsAlone
  <1>7. ASSUME NEW r0 \in Requests, ThrowsStep(r0)
        PROVE  HolderIsAlone'
    BY <1>7 DEF TypeOK, Tokens, Placed, HolderTook, HolderIsAlone,
       Engaged, Holding, ThrowsStep, Throws
  <1>8. ASSUME NEW r0 \in Requests, ClaimStep(r0)
        PROVE  HolderIsAlone'
    BY <1>8 DEF TypeOK, Tokens, Placed, HolderTook, HolderIsAlone,
       Engaged, Holding, ClaimStep, Claim, Taken
  <1>9. ASSUME NEW r0 \in Requests, CloseStep(r0)
        PROVE  HolderIsAlone'
    BY <1>9 DEF TypeOK, Tokens, Placed, HolderTook, HolderIsAlone,
       Engaged, Holding, CloseStep, Close, Write, Status
  <1>10. ASSUME NEW r0 \in Requests, MarkStep(r0)
        PROVE  HolderIsAlone'
    BY <1>10, SMTT(60) DEF TypeOK, Tokens, Placed, HolderTook, HolderIsAlone,
       Engaged, Holding, MarkStep, MarkFailed, AfterMark, Write, Status
  <1>11. ASSUME NEW r0 \in Requests, BeforeStep(r0)
        PROVE  HolderIsAlone'
    BY <1>11, SMTT(60) DEF TypeOK, Tokens, Placed, HolderTook, HolderIsAlone,
       Engaged, Holding, BeforeStep, ReadBefore, Balance, OutOf
  <1>12. ASSUME NEW r0 \in Requests, AfterStep(r0)
        PROVE  HolderIsAlone'
    BY <1>12, SMTT(60) DEF TypeOK, Tokens, Placed, HolderTook, HolderIsAlone,
       Engaged, Holding, AfterStep, ReadAfter, Gain, OutOf
  <1>13. ASSUME NEW r0 \in Requests, NEW k0 \in Calls, SendStep(r0, k0)
        PROVE  HolderIsAlone'
    BY <1>13 DEF TypeOK, Tokens, Placed, HolderTook, HolderIsAlone,
       Engaged, Holding, SendStep, Send, Sending, Waiting, Calls
  <1>14. ASSUME NEW r0 \in Requests, NEW k0 \in Calls, ReturnsStep(r0, k0)
        PROVE  HolderIsAlone'
    BY <1>14 DEF TypeOK, Tokens, Placed, HolderTook, HolderIsAlone,
       Engaged, Holding, ReturnsStep, Returns, Confirms, Waiting, After,
       Ready, Calls
  <1>15. ASSUME NEW r0 \in Requests, NEW k0 \in Calls, LosesStep(r0, k0)
        PROVE  HolderIsAlone'
    BY <1>15 DEF TypeOK, Tokens, Placed, HolderTook, HolderIsAlone,
       Engaged, Holding, LosesStep, Loses, Waiting, Calls
  <1>16. ASSUME NEW r0 \in Requests, RefundStep(r0)
        PROVE  HolderIsAlone'
    BY <1>16, Amounts DEF TypeOK, Tokens, Placed, HolderTook,
       HolderIsAlone, Engaged, Holding, RefundStep, RecordRefund
  <1>17. ASSUME NEW r0 \in Requests, FaultStep(r0)
        PROVE  HolderIsAlone'
    BY <1>17 DEF TypeOK, Tokens, Placed, HolderTook, HolderIsAlone,
       Engaged, Holding, FaultStep, QueryFault, AfterQueryFault, Taken,
       Write, Status
  <1>18. ASSUME NEW r0 \in Requests, Crash(r0)
        PROVE  HolderIsAlone'
    BY <1>18 DEF TypeOK, Tokens, Placed, HolderTook, HolderIsAlone,
       Engaged, Holding, Crash
  <1>19. ASSUME NEW r0 \in Requests, NEW k0 \in Calls, Reverts(r0, k0)
        PROVE  HolderIsAlone'
    BY <1>19 DEF TypeOK, Tokens, Placed, HolderTook, HolderIsAlone,
       Engaged, Holding, Reverts, runVars, Calls
  <1>20. ASSUME NEW r0 \in Requests, NEW k0 \in Calls, NEW y0 \in Yields, Lands(r0, k0, y0)
        PROVE  HolderIsAlone'
    BY <1>20 DEF TypeOK, Tokens, Placed, HolderTook, HolderIsAlone,
       Engaged, Holding, Lands, Cross, InOf, OutOf, runVars, Calls
  <1>21. CASE UNCHANGED vars
    BY <1>21, SMTT(60) DEF TypeOK, Tokens, Placed, HolderTook, HolderIsAlone,
       Engaged, Holding, vars, runVars
  <1>22. ASSUME NEW r0 \in Requests, EscapesStep(r0)
         PROVE  HolderIsAlone'
    BY <1>22 DEF TypeOK, Tokens, Placed, HolderTook, HolderIsAlone, Engaged,
       Holding, EscapesStep, Escapes, NoAddress
  <1>23. ASSUME NEW m0 \in Others, OthersMove(m0)
         PROVE  HolderIsAlone'
    BY <1>23, SMTT(60) DEF TypeOK, Tokens, Placed, HolderTook, HolderIsAlone, Engaged,
       Holding, OthersMove, Cross, runVars
  <1> QED
    BY <1>1, <1>2, <1>3, <1>4, <1>5, <1>6, <1>7, <1>8, <1>9, <1>10, <1>11,
       <1>12, <1>13, <1>14, <1>15, <1>16, <1>17, <1>18, <1>19, <1>20,
       <1>21, <1>22, <1>23, NextCases, Zenon DEF StepOf

(* The transfer is the last transaction.                                   *)
LEMMA TransferStep ==
    ASSUME TypeOK, Placed, TransferIsLast, [Next]_vars
    PROVE  TransferIsLast'
  <1> USE DEF Goto, End, Hit, rowVars
  <1>1. ASSUME NEW q0 \in Quotes, NEW d0 \in Directions, InsertQuote(q0, d0)
        PROVE  TransferIsLast'
    BY <1>1 DEF TypeOK, Tokens, Placed, Engaged, Holding, TransferIsLast,
       InsertQuote, runVars
  <1>2. ASSUME NEW q0 \in Quotes, Expire(q0)
        PROVE  TransferIsLast'
    BY <1>2 DEF TypeOK, Tokens, Placed, Engaged, Holding, TransferIsLast,
       Expire, runVars
  <1>3. ASSUME NEW r0 \in Requests, NEW q0 \in Quotes, Look(r0, q0)
        PROVE  TransferIsLast'
    <2>1. place[r0] = "idle" /\ ~Engaged(r0)
      BY <1>3 DEF Look, Read, Placed
    <2>2. place'[r0] \in {"drop", "pay", "done"}
          /\ \A r \in Requests \ {r0} : place'[r] = place[r]
      BY <1>3 DEF Look, Read, TypeOK
    <2> QED BY <1>3, <2>1, <2>2 DEF Look, Engaged, Calls, TransferIsLast
  <1>4. ASSUME NEW r0 \in Requests, PayStep(r0)
        PROVE  TransferIsLast'
    BY <1>4 DEF TypeOK, Tokens, Placed, Engaged, Holding, TransferIsLast,
       PayStep, Pay, Cross, Reverse
  <1>5. ASSUME NEW r0 \in Requests, FindStep(r0)
        PROVE  TransferIsLast'
    <2>1. place[r0] = "find" /\ place'[r0] \in {"drop", "claim", "done"}
          /\ \A r \in Requests \ {r0} : place'[r] = place[r]
      BY <1>5 DEF FindStep, Find, Read, TypeOK
    <2> QED BY <1>5, <2>1 DEF FindStep, TransferIsLast
  <1>6. ASSUME NEW r0 \in Requests, PrepareStep(r0)
        PROVE  TransferIsLast'
    BY <1>6 DEF TypeOK, Tokens, Placed, Engaged, Holding, TransferIsLast,
       PrepareStep, Prepare, AfterDrift, Ready
  <1>7. ASSUME NEW r0 \in Requests, ThrowsStep(r0)
        PROVE  TransferIsLast'
    BY <1>7 DEF TypeOK, Tokens, Placed, Engaged, Holding, TransferIsLast,
       ThrowsStep, Throws
  <1>8. ASSUME NEW r0 \in Requests, ClaimStep(r0)
        PROVE  TransferIsLast'
    BY <1>8 DEF TypeOK, Tokens, Placed, Engaged, Holding, TransferIsLast,
       ClaimStep, Claim, Taken
  <1>9. ASSUME NEW r0 \in Requests, CloseStep(r0)
        PROVE  TransferIsLast'
    BY <1>9 DEF TypeOK, Tokens, Placed, Engaged, Holding, TransferIsLast,
       CloseStep, Close, Write, Status
  <1>10. ASSUME NEW r0 \in Requests, MarkStep(r0)
        PROVE  TransferIsLast'
    BY <1>10 DEF TypeOK, Tokens, Placed, Engaged, Holding, TransferIsLast,
       MarkStep, MarkFailed, AfterMark, Write, Status
  <1>11. ASSUME NEW r0 \in Requests, BeforeStep(r0)
        PROVE  TransferIsLast'
    BY <1>11 DEF TypeOK, Tokens, Placed, Engaged, Holding, TransferIsLast,
       BeforeStep, ReadBefore, Balance, OutOf
  <1>12. ASSUME NEW r0 \in Requests, AfterStep(r0)
        PROVE  TransferIsLast'
    BY <1>12 DEF TypeOK, Tokens, Placed, Engaged, Holding, TransferIsLast,
       AfterStep, ReadAfter, Gain, OutOf
  <1>13. ASSUME NEW r0 \in Requests, NEW k0 \in Calls, SendStep(r0, k0)
        PROVE  TransferIsLast'
    BY <1>13 DEF TypeOK, Tokens, Placed, Engaged, Holding, TransferIsLast,
       SendStep, Send, Sending, Waiting, Calls
  <1>14. ASSUME NEW r0 \in Requests, NEW k0 \in Calls, ReturnsStep(r0, k0)
        PROVE  TransferIsLast'
    BY <1>14 DEF TypeOK, Tokens, Placed, Engaged, Holding, TransferIsLast,
       ReturnsStep, Returns, Confirms, Waiting, After, Ready, Calls
  <1>15. ASSUME NEW r0 \in Requests, NEW k0 \in Calls, LosesStep(r0, k0)
        PROVE  TransferIsLast'
    BY <1>15 DEF TypeOK, Tokens, Placed, Engaged, Holding, TransferIsLast,
       LosesStep, Loses, Waiting, Calls
  <1>16. ASSUME NEW r0 \in Requests, RefundStep(r0)
        PROVE  TransferIsLast'
    BY <1>16, Amounts DEF TypeOK, Tokens, Placed, Engaged, Holding,
       TransferIsLast, RefundStep, RecordRefund
  <1>17. ASSUME NEW r0 \in Requests, FaultStep(r0)
        PROVE  TransferIsLast'
    BY <1>17 DEF TypeOK, Tokens, Placed, Engaged, Holding, TransferIsLast,
       FaultStep, QueryFault, AfterQueryFault, Taken, Write, Status
  <1>18. ASSUME NEW r0 \in Requests, Crash(r0)
        PROVE  TransferIsLast'
    BY <1>18 DEF TypeOK, Tokens, Placed, Engaged, Holding, TransferIsLast,
       Crash
  <1>19. ASSUME NEW r0 \in Requests, NEW k0 \in Calls, Reverts(r0, k0)
        PROVE  TransferIsLast'
    BY <1>19 DEF TypeOK, Tokens, Placed, Engaged, Holding, TransferIsLast,
       Reverts, runVars, Calls
  <1>20. ASSUME NEW r0 \in Requests, NEW k0 \in Calls, NEW y0 \in Yields, Lands(r0, k0, y0)
        PROVE  TransferIsLast'
    BY <1>20 DEF TypeOK, Tokens, Placed, Engaged, Holding, TransferIsLast,
       Lands, Cross, InOf, OutOf, runVars, Calls
  <1>21. CASE UNCHANGED vars
    BY <1>21 DEF TypeOK, Tokens, Placed, Engaged, Holding, TransferIsLast,
       vars, runVars
  <1>22. ASSUME NEW r0 \in Requests, EscapesStep(r0)
         PROVE  TransferIsLast'
    BY <1>22 DEF TypeOK, Tokens, Placed, Engaged, Holding, TransferIsLast,
       EscapesStep, Escapes, NoAddress
  <1>23. ASSUME NEW m0 \in Others, OthersMove(m0)
         PROVE  TransferIsLast'
    BY <1>23 DEF TypeOK, Tokens, Placed, Engaged, Holding, TransferIsLast,
       OthersMove, Cross, runVars
  <1> QED
    BY <1>1, <1>2, <1>3, <1>4, <1>5, <1>6, <1>7, <1>8, <1>9, <1>10, <1>11,
       <1>12, <1>13, <1>14, <1>15, <1>16, <1>17, <1>18, <1>19, <1>20,
       <1>21, <1>22, <1>23, NextCases, Zenon DEF StepOf

(* Who has ended, and what may still be in flight.                         *)
LEMMA SeenEnds ==
    ASSUME TypeOK, OutIsSeen, NEW r \in Requests, UNCHANGED <<tx, hit>>,
           NEW from \in {"pay", "claim", "drop", "reject", "book"},
           NEW res \in {"ok", "refused", "rejected"}, End(r, from, res)
    PROVE  OutIsSeen'
  BY DEF End, Goto, OutIsSeen, TypeOK

LEMMA SeenGoes ==
    ASSUME TypeOK, OutIsSeen, NEW r \in Requests, UNCHANGED <<reply, tx, hit>>,
           NEW from \in {"pay", "claim"},
           NEW to \in {"find", "reject", "approval", "requote"}, Goto(r, from, to)
    PROVE  OutIsSeen'
  BY DEF Goto, OutIsSeen, TypeOK

LEMMA SeenStep ==
    ASSUME TypeOK, Placed, OutIsSeen, [Next]_vars
    PROVE  OutIsSeen'
  <1> USE DEF Goto, End, Hit, rowVars
  <1>1. ASSUME NEW q0 \in Quotes, NEW d0 \in Directions, InsertQuote(q0, d0)
        PROVE  OutIsSeen'
    BY <1>1 DEF TypeOK, Tokens, Placed, Engaged, Holding, OutIsSeen,
       InsertQuote, runVars
  <1>2. ASSUME NEW q0 \in Quotes, Expire(q0)
        PROVE  OutIsSeen'
    BY <1>2 DEF TypeOK, Tokens, Placed, Engaged, Holding, OutIsSeen,
       Expire, runVars
  <1>3. ASSUME NEW r0 \in Requests, NEW q0 \in Quotes, Look(r0, q0)
        PROVE  OutIsSeen'
    BY <1>3 DEF TypeOK, Tokens, Placed, Engaged, Holding, OutIsSeen,
       Look, Read, rowVars
  <1>4. ASSUME NEW r0 \in Requests, PayStep(r0)
        PROVE  OutIsSeen'
    <2>1. \/ End(r0, "pay", "refused")
          \/ UNCHANGED reply /\ \E to \in {"find", "reject"} : Goto(r0, "pay", to)
      BY <1>4 DEF PayStep, Pay
    <2>2. UNCHANGED <<tx, hit>>
      BY <1>4 DEF PayStep
    <2> HIDE DEF End, Goto
    <2> QED BY <2>1, <2>2, SeenEnds, SeenGoes
  <1>5. ASSUME NEW r0 \in Requests, FindStep(r0)
        PROVE  OutIsSeen'
    BY <1>5 DEF TypeOK, Tokens, Placed, Engaged, Holding, OutIsSeen,
       FindStep, Find, Read
  <1>6. ASSUME NEW r0 \in Requests, PrepareStep(r0)
        PROVE  OutIsSeen'
    <2>1. UNCHANGED <<reply, tx, hit>>
      BY <1>6 DEF PrepareStep, Prepare
    <2> QED BY <1>6, <2>1, PrepareGoes DEF PrepareStep, OutIsSeen, TypeOK
  <1>7. ASSUME NEW r0 \in Requests, ThrowsStep(r0)
        PROVE  OutIsSeen'
    BY <1>7 DEF TypeOK, Tokens, Placed, Engaged, Holding, OutIsSeen,
       ThrowsStep, Throws
  <1>8. ASSUME NEW r0 \in Requests, ClaimStep(r0)
        PROVE  OutIsSeen'
    <2>1. \/ End(r0, "claim", "refused")
          \/ UNCHANGED reply /\ \E to \in {"approval", "requote"} : Goto(r0, "claim", to)
      BY <1>8 DEF ClaimStep, Claim
    <2>2. UNCHANGED <<tx, hit>>
      BY <1>8 DEF ClaimStep
    <2> HIDE DEF End, Goto
    <2> QED BY <2>1, <2>2, SeenEnds, SeenGoes
  <1>9. ASSUME NEW r0 \in Requests, CloseStep(r0)
        PROVE  OutIsSeen'
    <2>1. End(r0, "drop", "refused") \/ End(r0, "reject", "rejected") \/ End(r0, "book", "ok")
      BY <1>9 DEF CloseStep, Close
    <2>2. UNCHANGED <<tx, hit>>
      BY <1>9 DEF CloseStep
    <2> HIDE DEF End, Goto
    <2> QED BY <2>1, <2>2, SeenEnds
  <1>10. ASSUME NEW r0 \in Requests, MarkStep(r0)
        PROVE  OutIsSeen'
    BY <1>10 DEF TypeOK, Tokens, Placed, Engaged, Holding, OutIsSeen,
       MarkStep, MarkFailed, AfterMark, Write, Status
  <1>11. ASSUME NEW r0 \in Requests, BeforeStep(r0)
        PROVE  OutIsSeen'
    BY <1>11 DEF TypeOK, Tokens, Placed, Engaged, Holding, OutIsSeen,
       BeforeStep, ReadBefore, Balance, OutOf
  <1>12. ASSUME NEW r0 \in Requests, AfterStep(r0)
        PROVE  OutIsSeen'
    BY <1>12 DEF TypeOK, Tokens, Placed, Engaged, Holding, OutIsSeen,
       AfterStep, ReadAfter, Gain, OutOf
  <1>13. ASSUME NEW r0 \in Requests, NEW k0 \in Calls, SendStep(r0, k0)
        PROVE  OutIsSeen'
    BY <1>13 DEF TypeOK, Tokens, Placed, Engaged, Holding, OutIsSeen,
       SendStep, Send, Sending, Waiting, Calls
  <1>14. ASSUME NEW r0 \in Requests, NEW k0 \in Calls, ReturnsStep(r0, k0)
        PROVE  OutIsSeen'
    BY <1>14 DEF TypeOK, Tokens, Placed, Engaged, Holding, OutIsSeen,
       ReturnsStep, Returns, Confirms, Waiting, After, Ready, Calls
  <1>15. ASSUME NEW r0 \in Requests, NEW k0 \in Calls, LosesStep(r0, k0)
        PROVE  OutIsSeen'
    BY <1>15 DEF TypeOK, Tokens, Placed, Engaged, Holding, OutIsSeen,
       LosesStep, Loses, Waiting, Calls
  <1>16. ASSUME NEW r0 \in Requests, RefundStep(r0)
        PROVE  OutIsSeen'
    BY <1>16, Amounts DEF TypeOK, Tokens, Placed, Engaged, Holding,
       OutIsSeen, RefundStep, RecordRefund
  <1>17. ASSUME NEW r0 \in Requests, FaultStep(r0)
        PROVE  OutIsSeen'
    BY <1>17 DEF TypeOK, Tokens, Placed, Engaged, Holding, OutIsSeen,
       FaultStep, QueryFault, AfterQueryFault, Taken, Write, Status
  <1>18. ASSUME NEW r0 \in Requests, Crash(r0)
        PROVE  OutIsSeen'
    BY <1>18 DEF TypeOK, Tokens, Placed, Engaged, Holding, OutIsSeen,
       Crash
  <1>19. ASSUME NEW r0 \in Requests, NEW k0 \in Calls, Reverts(r0, k0)
        PROVE  OutIsSeen'
    BY <1>19 DEF TypeOK, Tokens, Placed, Engaged, Holding, OutIsSeen,
       Reverts, runVars, Calls
  <1>20. ASSUME NEW r0 \in Requests, NEW k0 \in Calls, NEW y0 \in Yields, Lands(r0, k0, y0)
        PROVE  OutIsSeen'
    BY <1>20 DEF TypeOK, Tokens, Placed, Engaged, Holding, OutIsSeen,
       Lands, Cross, InOf, OutOf, runVars, Calls
  <1>21. CASE UNCHANGED vars
    BY <1>21 DEF TypeOK, Tokens, Placed, Engaged, Holding, OutIsSeen,
       vars, runVars
  <1>22. ASSUME NEW r0 \in Requests, EscapesStep(r0)
         PROVE  OutIsSeen'
    BY <1>22 DEF TypeOK, Tokens, Placed, Engaged, Holding, OutIsSeen,
       EscapesStep, Escapes, NoAddress
  <1>23. ASSUME NEW m0 \in Others, OthersMove(m0)
         PROVE  OutIsSeen'
    BY <1>23 DEF TypeOK, Tokens, Placed, Engaged, Holding, OutIsSeen,
       OthersMove, Cross, runVars
  <1> QED
    BY <1>1, <1>2, <1>3, <1>4, <1>5, <1>6, <1>7, <1>8, <1>9, <1>10, <1>11,
       <1>12, <1>13, <1>14, <1>15, <1>16, <1>17, <1>18, <1>19, <1>20,
       <1>21, <1>22, <1>23, NextCases, Zenon DEF StepOf

(* What is sent is not unsent.                                             *)
LEMMA LostStep ==
    ASSUME TypeOK, LostWasSent, [Next]_vars
    PROVE  LostWasSent'
  <1> USE DEF Goto, End, Hit, rowVars
  <1>1. ASSUME NEW q0 \in Quotes, NEW d0 \in Directions, InsertQuote(q0, d0)
        PROVE  LostWasSent'
    BY <1>1 DEF TypeOK, LostWasSent, InsertQuote, runVars
  <1>2. ASSUME NEW q0 \in Quotes, Expire(q0)
        PROVE  LostWasSent'
    BY <1>2 DEF TypeOK, LostWasSent, Expire, runVars
  <1>3. ASSUME NEW r0 \in Requests, NEW q0 \in Quotes, Look(r0, q0)
        PROVE  LostWasSent'
    BY <1>3 DEF TypeOK, LostWasSent, Look, Read, rowVars
  <1>4. ASSUME NEW r0 \in Requests, PayStep(r0)
        PROVE  LostWasSent'
    BY <1>4 DEF TypeOK, LostWasSent, PayStep, Pay, Cross, Reverse
  <1>5. ASSUME NEW r0 \in Requests, FindStep(r0)
        PROVE  LostWasSent'
    BY <1>5 DEF TypeOK, LostWasSent, FindStep, Find, Read
  <1>6. ASSUME NEW r0 \in Requests, PrepareStep(r0)
        PROVE  LostWasSent'
    BY <1>6 DEF TypeOK, LostWasSent, PrepareStep, Prepare, AfterDrift, Ready
  <1>7. ASSUME NEW r0 \in Requests, ThrowsStep(r0)
        PROVE  LostWasSent'
    BY <1>7 DEF TypeOK, LostWasSent, ThrowsStep, Throws
  <1>8. ASSUME NEW r0 \in Requests, ClaimStep(r0)
        PROVE  LostWasSent'
    BY <1>8 DEF TypeOK, LostWasSent, ClaimStep, Claim, Taken
  <1>9. ASSUME NEW r0 \in Requests, CloseStep(r0)
        PROVE  LostWasSent'
    BY <1>9 DEF TypeOK, LostWasSent, CloseStep, Close, Write, Status
  <1>10. ASSUME NEW r0 \in Requests, MarkStep(r0)
        PROVE  LostWasSent'
    BY <1>10 DEF TypeOK, LostWasSent, MarkStep,
       MarkFailed, AfterMark, Write, Status
  <1>11. ASSUME NEW r0 \in Requests, BeforeStep(r0)
        PROVE  LostWasSent'
    BY <1>11 DEF TypeOK, LostWasSent, BeforeStep, ReadBefore, Balance, OutOf
  <1>12. ASSUME NEW r0 \in Requests, AfterStep(r0)
        PROVE  LostWasSent'
    BY <1>12 DEF TypeOK, LostWasSent, AfterStep, ReadAfter, Gain, OutOf
  <1>13. ASSUME NEW r0 \in Requests, NEW k0 \in Calls, SendStep(r0, k0)
        PROVE  LostWasSent'
    BY <1>13 DEF TypeOK, LostWasSent, SendStep, Send, Sending, Waiting, Calls
  <1>14. ASSUME NEW r0 \in Requests, NEW k0 \in Calls, ReturnsStep(r0, k0)
        PROVE  LostWasSent'
    BY <1>14 DEF TypeOK, LostWasSent, ReturnsStep,
       Returns, Confirms, Waiting, After, Ready, Calls
  <1>15. ASSUME NEW r0 \in Requests, NEW k0 \in Calls, LosesStep(r0, k0)
        PROVE  LostWasSent'
    BY <1>15 DEF TypeOK, LostWasSent, LosesStep, Loses, Waiting, Calls
  <1>16. ASSUME NEW r0 \in Requests, RefundStep(r0)
        PROVE  LostWasSent'
    BY <1>16, Amounts DEF TypeOK, LostWasSent, RefundStep, RecordRefund
  <1>17. ASSUME NEW r0 \in Requests, FaultStep(r0)
        PROVE  LostWasSent'
    BY <1>17 DEF TypeOK, LostWasSent, FaultStep,
       QueryFault, AfterQueryFault, Taken, Write, Status
  <1>18. ASSUME NEW r0 \in Requests, Crash(r0)
        PROVE  LostWasSent'
    BY <1>18 DEF TypeOK, LostWasSent, Crash
  <1>19. ASSUME NEW r0 \in Requests, NEW k0 \in Calls, Reverts(r0, k0)
        PROVE  LostWasSent'
    BY <1>19 DEF TypeOK, LostWasSent, Reverts, runVars, Calls
  <1>20. ASSUME NEW r0 \in Requests, NEW k0 \in Calls, NEW y0 \in Yields, Lands(r0, k0, y0)
        PROVE  LostWasSent'
    BY <1>20 DEF TypeOK, LostWasSent, Lands, Cross, InOf, OutOf, runVars, Calls
  <1>21. CASE UNCHANGED vars
    BY <1>21 DEF TypeOK, LostWasSent, vars, runVars
  <1>22. ASSUME NEW r0 \in Requests, EscapesStep(r0)
         PROVE  LostWasSent'
    BY <1>22 DEF TypeOK, LostWasSent, EscapesStep, Escapes, NoAddress
  <1>23. ASSUME NEW m0 \in Others, OthersMove(m0)
         PROVE  LostWasSent'
    BY <1>23 DEF TypeOK, LostWasSent, OthersMove, Cross, runVars
  <1> QED
    BY <1>1, <1>2, <1>3, <1>4, <1>5, <1>6, <1>7, <1>8, <1>9, <1>10, <1>11,
       <1>12, <1>13, <1>14, <1>15, <1>16, <1>17, <1>18, <1>19, <1>20,
       <1>21, <1>22, <1>23, NextCases, Zenon DEF StepOf

(* An execution is told of its failure when the refund is on file.         *)
LEMMA FailureStep ==
    ASSUME TypeOK, FailureIsRefunded, [Next]_vars
    PROVE  FailureIsRefunded'
  <1> USE DEF Goto, End, Hit, rowVars, Cut
  <1>1. ASSUME NEW q0 \in Quotes, NEW d0 \in Directions, InsertQuote(q0, d0)
        PROVE  FailureIsRefunded'
    BY <1>1 DEF TypeOK, FailureIsRefunded, InsertQuote, runVars
  <1>2. ASSUME NEW q0 \in Quotes, Expire(q0)
        PROVE  FailureIsRefunded'
    BY <1>2 DEF TypeOK, FailureIsRefunded, Expire, runVars
  <1>3. ASSUME NEW r0 \in Requests, NEW q0 \in Quotes, Look(r0, q0)
        PROVE  FailureIsRefunded'
    BY <1>3 DEF TypeOK, FailureIsRefunded, Look, Read, rowVars
  <1>4. ASSUME NEW r0 \in Requests, PayStep(r0)
        PROVE  FailureIsRefunded'
    BY <1>4 DEF TypeOK, FailureIsRefunded, PayStep, Pay, Cross, Reverse
  <1>5. ASSUME NEW r0 \in Requests, FindStep(r0)
        PROVE  FailureIsRefunded'
    BY <1>5 DEF TypeOK, FailureIsRefunded, FindStep, Find, Read
  <1>6. ASSUME NEW r0 \in Requests, PrepareStep(r0)
        PROVE  FailureIsRefunded'
    BY <1>6 DEF TypeOK, FailureIsRefunded, PrepareStep, Prepare,
       AfterDrift, Ready
  <1>7. ASSUME NEW r0 \in Requests, ThrowsStep(r0)
        PROVE  FailureIsRefunded'
    BY <1>7 DEF TypeOK, FailureIsRefunded, ThrowsStep, Throws
  <1>8. ASSUME NEW r0 \in Requests, ClaimStep(r0)
        PROVE  FailureIsRefunded'
    BY <1>8 DEF TypeOK, FailureIsRefunded, ClaimStep, Claim, Taken
  <1>9. ASSUME NEW r0 \in Requests, CloseStep(r0)
        PROVE  FailureIsRefunded'
    BY <1>9 DEF TypeOK, FailureIsRefunded, CloseStep, Close, Write, Status
  <1>10. ASSUME NEW r0 \in Requests, MarkStep(r0)
        PROVE  FailureIsRefunded'
    BY <1>10 DEF TypeOK, FailureIsRefunded, MarkStep, MarkFailed,
       AfterMark, Write, Status
  <1>11. ASSUME NEW r0 \in Requests, BeforeStep(r0)
        PROVE  FailureIsRefunded'
    BY <1>11 DEF TypeOK, FailureIsRefunded, BeforeStep, ReadBefore,
       Balance, OutOf
  <1>12. ASSUME NEW r0 \in Requests, AfterStep(r0)
        PROVE  FailureIsRefunded'
    BY <1>12 DEF TypeOK, FailureIsRefunded, AfterStep, ReadAfter, Gain,
       OutOf
  <1>13. ASSUME NEW r0 \in Requests, NEW k0 \in Calls, SendStep(r0, k0)
        PROVE  FailureIsRefunded'
    BY <1>13 DEF TypeOK, FailureIsRefunded, SendStep, Send, Sending,
       Waiting, Calls
  <1>14. ASSUME NEW r0 \in Requests, NEW k0 \in Calls, ReturnsStep(r0, k0)
        PROVE  FailureIsRefunded'
    BY <1>14 DEF TypeOK, FailureIsRefunded, ReturnsStep, Returns,
       Confirms, Waiting, After, Ready, Calls
  <1>15. ASSUME NEW r0 \in Requests, NEW k0 \in Calls, LosesStep(r0, k0)
        PROVE  FailureIsRefunded'
    <2>1. \A r \in Requests : Cut(r) => Cut(r)'
      <3>1. CASE UNCHANGED hit
        BY <3>1
      <3>2. CASE Hit(r0, k0)
        BY <3>2 DEF TypeOK
      <3> QED BY <1>15, <3>1, <3>2 DEF LosesStep, Loses
    <2> QED BY <1>15, <2>1 DEF LosesStep, FailureIsRefunded
  <1>16. ASSUME NEW r0 \in Requests, RefundStep(r0)
        PROVE  FailureIsRefunded'
    BY <1>16, Amounts DEF TypeOK, FailureIsRefunded, RefundStep,
       RecordRefund
  <1>17. ASSUME NEW r0 \in Requests, FaultStep(r0)
        PROVE  FailureIsRefunded'
    BY <1>17 DEF TypeOK, FailureIsRefunded, FaultStep, QueryFault,
       AfterQueryFault, Taken, Write, Status
  <1>18. ASSUME NEW r0 \in Requests, Crash(r0)
        PROVE  FailureIsRefunded'
    BY <1>18 DEF TypeOK, FailureIsRefunded, Crash
  <1>19. ASSUME NEW r0 \in Requests, NEW k0 \in Calls, Reverts(r0, k0)
        PROVE  FailureIsRefunded'
    BY <1>19 DEF TypeOK, FailureIsRefunded, Reverts, runVars, Calls
  <1>20. ASSUME NEW r0 \in Requests, NEW k0 \in Calls, NEW y0 \in Yields, Lands(r0, k0, y0)
        PROVE  FailureIsRefunded'
    BY <1>20 DEF TypeOK, FailureIsRefunded, Lands, Cross, InOf, OutOf,
       runVars, Calls
  <1>21. CASE UNCHANGED vars
    BY <1>21 DEF TypeOK, FailureIsRefunded, vars, runVars
  <1>22. ASSUME NEW r0 \in Requests, EscapesStep(r0)
         PROVE  FailureIsRefunded'
    BY <1>22 DEF TypeOK, FailureIsRefunded, EscapesStep, Escapes, NoAddress
  <1>23. ASSUME NEW m0 \in Others, OthersMove(m0)
         PROVE  FailureIsRefunded'
    BY <1>23 DEF TypeOK, FailureIsRefunded, OthersMove, Cross, runVars
  <1> QED
    BY <1>1, <1>2, <1>3, <1>4, <1>5, <1>6, <1>7, <1>8, <1>9, <1>10, <1>11,
       <1>12, <1>13, <1>14, <1>15, <1>16, <1>17, <1>18, <1>19, <1>20,
       <1>21, <1>22, <1>23, NextCases, Zenon DEF StepOf

(* What a delivery has behind it.                                          *)
LEMMA BehindStep ==
    ASSUME TypeOK, Placed, TransferIsLast, BehindIt, [Next]_vars
    PROVE  BehindIt'
  <1> USE DEF Goto, End, Hit, rowVars
  <1>1. ASSUME NEW q0 \in Quotes, NEW d0 \in Directions, InsertQuote(q0, d0)
        PROVE  BehindIt'
    BY <1>1 DEF TypeOK, Tokens, Placed, Engaged, Holding, TransferIsLast,
       BehindIt, Sent, InsertQuote, runVars
  <1>2. ASSUME NEW q0 \in Quotes, Expire(q0)
        PROVE  BehindIt'
    BY <1>2 DEF TypeOK, Tokens, Placed, Engaged, Holding, TransferIsLast,
       BehindIt, Sent, Expire, runVars
  <1>3. ASSUME NEW r0 \in Requests, NEW q0 \in Quotes, Look(r0, q0)
        PROVE  BehindIt'
    BY <1>3 DEF TypeOK, Tokens, Placed, Engaged, Holding, TransferIsLast,
       BehindIt, Sent, Look, Read, rowVars
  <1>4. ASSUME NEW r0 \in Requests, PayStep(r0)
        PROVE  BehindIt'
    BY <1>4 DEF TypeOK, Tokens, Placed, Engaged, Holding, TransferIsLast,
       BehindIt, Sent, PayStep, Pay, Cross, Reverse
  <1>5. ASSUME NEW r0 \in Requests, FindStep(r0)
        PROVE  BehindIt'
    BY <1>5 DEF TypeOK, Tokens, Placed, Engaged, Holding, TransferIsLast,
       BehindIt, Sent, FindStep, Find, Read
  <1>6. ASSUME NEW r0 \in Requests, PrepareStep(r0)
        PROVE  BehindIt'
    BY <1>6 DEF TypeOK, Tokens, Placed, Engaged, Holding, TransferIsLast,
       BehindIt, Sent, PrepareStep, Prepare, AfterDrift, Ready
  <1>7. ASSUME NEW r0 \in Requests, ThrowsStep(r0)
        PROVE  BehindIt'
    BY <1>7 DEF TypeOK, Tokens, Placed, Engaged, Holding, TransferIsLast,
       BehindIt, Sent, ThrowsStep, Throws
  <1>8. ASSUME NEW r0 \in Requests, ClaimStep(r0)
        PROVE  BehindIt'
    BY <1>8 DEF TypeOK, Tokens, Placed, Engaged, Holding, TransferIsLast,
       BehindIt, Sent, ClaimStep, Claim, Taken
  <1>9. ASSUME NEW r0 \in Requests, CloseStep(r0)
        PROVE  BehindIt'
    BY <1>9 DEF TypeOK, Tokens, Placed, Engaged, Holding, TransferIsLast,
       BehindIt, Sent, CloseStep, Close, Write, Status
  <1>10. ASSUME NEW r0 \in Requests, MarkStep(r0)
        PROVE  BehindIt'
    BY <1>10 DEF TypeOK, Tokens, Placed, Engaged, Holding, TransferIsLast,
       BehindIt, Sent, MarkStep, MarkFailed, AfterMark, Write, Status
  <1>11. ASSUME NEW r0 \in Requests, BeforeStep(r0)
        PROVE  BehindIt'
    BY <1>11 DEF TypeOK, Tokens, Placed, Engaged, Holding, TransferIsLast,
       BehindIt, Sent, BeforeStep, ReadBefore, Balance, OutOf
  <1>12. ASSUME NEW r0 \in Requests, AfterStep(r0)
        PROVE  BehindIt'
    BY <1>12, Amounts DEF TypeOK, Tokens, Placed, Engaged, Holding,
       TransferIsLast, BehindIt, Sent, AfterStep, ReadAfter, Gain, OutOf
  <1>13. ASSUME NEW r0 \in Requests, NEW k0 \in Calls, SendStep(r0, k0)
        PROVE  BehindIt'
    BY <1>13 DEF TypeOK, Tokens, Placed, Engaged, Holding, TransferIsLast,
       BehindIt, Sent, SendStep, Send, Sending, Waiting, Calls
  <1>14. ASSUME NEW r0 \in Requests, NEW k0 \in Calls, ReturnsStep(r0, k0)
        PROVE  BehindIt'
    BY <1>14 DEF TypeOK, Tokens, Placed, Engaged, Holding, TransferIsLast,
       BehindIt, Sent, ReturnsStep, Returns, Confirms, Waiting, After,
       Ready, Calls
  <1>15. ASSUME NEW r0 \in Requests, NEW k0 \in Calls, LosesStep(r0, k0)
        PROVE  BehindIt'
    BY <1>15 DEF TypeOK, Tokens, Placed, Engaged, Holding, TransferIsLast,
       BehindIt, Sent, LosesStep, Loses, Waiting, Calls
  <1>16. ASSUME NEW r0 \in Requests, RefundStep(r0)
        PROVE  BehindIt'
    BY <1>16 DEF TypeOK, Tokens, Placed, Engaged, Holding, TransferIsLast,
       BehindIt, Sent, RefundStep, RecordRefund
  <1>17. ASSUME NEW r0 \in Requests, FaultStep(r0)
        PROVE  BehindIt'
    BY <1>17 DEF TypeOK, Tokens, Placed, Engaged, Holding, TransferIsLast,
       BehindIt, Sent, FaultStep, QueryFault, AfterQueryFault, Taken,
       Write, Status
  <1>18. ASSUME NEW r0 \in Requests, Crash(r0)
        PROVE  BehindIt'
    BY <1>18 DEF TypeOK, Tokens, Placed, Engaged, Holding, TransferIsLast,
       BehindIt, Sent, Crash
  <1>19. ASSUME NEW r0 \in Requests, NEW k0 \in Calls, Reverts(r0, k0)
        PROVE  BehindIt'
    BY <1>19 DEF TypeOK, Tokens, Placed, Engaged, Holding, TransferIsLast,
       BehindIt, Sent, Reverts, runVars, Calls
  <1>20. ASSUME NEW r0 \in Requests, NEW k0 \in Calls, NEW y0 \in Yields, Lands(r0, k0, y0)
        PROVE  BehindIt'
    BY <1>20 DEF TypeOK, Tokens, Placed, Engaged, Holding, TransferIsLast,
       BehindIt, Sent, Lands, Cross, InOf, OutOf, runVars, Calls
  <1>21. CASE UNCHANGED vars
    BY <1>21 DEF TypeOK, Tokens, Placed, Engaged, Holding, TransferIsLast,
       BehindIt, Sent, vars, runVars
  <1>22. ASSUME NEW r0 \in Requests, EscapesStep(r0)
         PROVE  BehindIt'
    BY <1>22 DEF TypeOK, Tokens, Placed, Engaged, Holding, TransferIsLast,
       BehindIt, Sent, EscapesStep, Escapes, NoAddress
  <1>23. ASSUME NEW m0 \in Others, OthersMove(m0)
         PROVE  BehindIt'
    BY <1>23 DEF TypeOK, Tokens, Placed, Engaged, Holding, TransferIsLast,
       BehindIt, Sent, OthersMove, Cross, runVars
  <1> QED
    BY <1>1, <1>2, <1>3, <1>4, <1>5, <1>6, <1>7, <1>8, <1>9, <1>10, <1>11,
       <1>12, <1>13, <1>14, <1>15, <1>16, <1>17, <1>18, <1>19, <1>20,
       <1>21, <1>22, <1>23, NextCases, Zenon DEF StepOf

(* A completed quote keeps the delivery that completed it.                 *)
LEMMA CompletedStep ==
    ASSUME TypeOK, Placed, BehindIt, CompletedIsOver, [Next]_vars
    PROVE  CompletedIsOver'
  <1> USE DEF Goto, End, Hit, rowVars
  <1>1. ASSUME NEW q0 \in Quotes, NEW d0 \in Directions, InsertQuote(q0, d0)
        PROVE  CompletedIsOver'
    BY <1>1 DEF TypeOK, Tokens, Placed, BehindIt, CompletedIsOver,
       Delivered, Sent, InsertQuote, runVars
  <1>2. ASSUME NEW q0 \in Quotes, Expire(q0)
        PROVE  CompletedIsOver'
    BY <1>2 DEF TypeOK, Tokens, Placed, BehindIt, CompletedIsOver,
       Delivered, Sent, Expire, runVars
  <1>3. ASSUME NEW r0 \in Requests, NEW q0 \in Quotes, Look(r0, q0)
        PROVE  CompletedIsOver'
    <2>1. \A q \in Quotes, r \in Requests : Delivered(q, r) => Delivered(q, r)'
      BY <1>3 DEF TypeOK, Tokens, Placed, Delivered, Sent, Engaged, Look,
         Read
    <2> QED BY <1>3, <2>1 DEF CompletedIsOver, Look
  <1>4. ASSUME NEW r0 \in Requests, PayStep(r0)
        PROVE  CompletedIsOver'
    BY <1>4 DEF TypeOK, Tokens, Placed, BehindIt, CompletedIsOver,
       Delivered, Sent, PayStep, Pay, Cross, Reverse
  <1>5. ASSUME NEW r0 \in Requests, FindStep(r0)
        PROVE  CompletedIsOver'
    BY <1>5 DEF TypeOK, Tokens, Placed, BehindIt, CompletedIsOver,
       Delivered, Sent, FindStep, Find, Read
  <1>6. ASSUME NEW r0 \in Requests, PrepareStep(r0)
        PROVE  CompletedIsOver'
    BY <1>6 DEF TypeOK, Tokens, Placed, BehindIt, CompletedIsOver,
       Delivered, Sent, PrepareStep, Prepare, AfterDrift, Ready
  <1>7. ASSUME NEW r0 \in Requests, ThrowsStep(r0)
        PROVE  CompletedIsOver'
    BY <1>7 DEF TypeOK, Tokens, Placed, BehindIt, CompletedIsOver,
       Delivered, Sent, ThrowsStep, Throws
  <1>8. ASSUME NEW r0 \in Requests, ClaimStep(r0)
        PROVE  CompletedIsOver'
    BY <1>8 DEF TypeOK, Tokens, Placed, BehindIt, CompletedIsOver,
       Delivered, Sent, ClaimStep, Claim, Taken
  <1>9. ASSUME NEW r0 \in Requests, CloseStep(r0)
        PROVE  CompletedIsOver'
    BY <1>9 DEF TypeOK, Tokens, Placed, BehindIt, CompletedIsOver,
       Delivered, Sent, CloseStep, Close, Write, Status
  <1>10. ASSUME NEW r0 \in Requests, MarkStep(r0)
        PROVE  CompletedIsOver'
    BY <1>10 DEF TypeOK, Tokens, Placed, BehindIt, CompletedIsOver,
       Delivered, Sent, MarkStep, MarkFailed, AfterMark, Write, Status
  <1>11. ASSUME NEW r0 \in Requests, BeforeStep(r0)
        PROVE  CompletedIsOver'
    BY <1>11 DEF TypeOK, Tokens, Placed, BehindIt, CompletedIsOver,
       Delivered, Sent, BeforeStep, ReadBefore, Balance, OutOf
  <1>12. ASSUME NEW r0 \in Requests, AfterStep(r0)
        PROVE  CompletedIsOver'
    <2>1. \A q \in Quotes, r \in Requests : Delivered(q, r) => Delivered(q, r)'
      BY <1>12 DEF TypeOK, Tokens, Placed, Delivered, Sent, AfterStep,
         ReadAfter
    <2> QED BY <1>12, <2>1 DEF CompletedIsOver, AfterStep
  <1>13. ASSUME NEW r0 \in Requests, NEW k0 \in Calls, SendStep(r0, k0)
        PROVE  CompletedIsOver'
    BY <1>13 DEF TypeOK, Tokens, Placed, BehindIt, CompletedIsOver,
       Delivered, Sent, SendStep, Send, Sending, Waiting, Calls
  <1>14. ASSUME NEW r0 \in Requests, NEW k0 \in Calls, ReturnsStep(r0, k0)
        PROVE  CompletedIsOver'
    BY <1>14 DEF TypeOK, Tokens, Placed, BehindIt, CompletedIsOver,
       Delivered, Sent, ReturnsStep, Returns, Confirms, Waiting, After,
       Ready, Calls
  <1>15. ASSUME NEW r0 \in Requests, NEW k0 \in Calls, LosesStep(r0, k0)
        PROVE  CompletedIsOver'
    BY <1>15 DEF TypeOK, Tokens, Placed, BehindIt, CompletedIsOver,
       Delivered, Sent, LosesStep, Loses, Waiting, Calls
  <1>16. ASSUME NEW r0 \in Requests, RefundStep(r0)
        PROVE  CompletedIsOver'
    BY <1>16, Amounts DEF TypeOK, Tokens, Placed, BehindIt,
       CompletedIsOver, Delivered, Sent, RefundStep, RecordRefund
  <1>17. ASSUME NEW r0 \in Requests, FaultStep(r0)
        PROVE  CompletedIsOver'
    BY <1>17 DEF TypeOK, Tokens, Placed, BehindIt, CompletedIsOver,
       Delivered, Sent, FaultStep, QueryFault, AfterQueryFault, Taken,
       Write, Status
  <1>18. ASSUME NEW r0 \in Requests, Crash(r0)
        PROVE  CompletedIsOver'
    BY <1>18 DEF TypeOK, Tokens, Placed, BehindIt, CompletedIsOver,
       Delivered, Sent, Crash
  <1>19. ASSUME NEW r0 \in Requests, NEW k0 \in Calls, Reverts(r0, k0)
        PROVE  CompletedIsOver'
    BY <1>19 DEF TypeOK, Tokens, Placed, BehindIt, CompletedIsOver,
       Delivered, Sent, Reverts, runVars, Calls
  <1>20. ASSUME NEW r0 \in Requests, NEW k0 \in Calls, NEW y0 \in Yields, Lands(r0, k0, y0)
        PROVE  CompletedIsOver'
    BY <1>20 DEF TypeOK, Tokens, Placed, BehindIt, CompletedIsOver,
       Delivered, Sent, Lands, Cross, InOf, OutOf, runVars, Calls
  <1>21. CASE UNCHANGED vars
    BY <1>21 DEF TypeOK, Tokens, Placed, BehindIt, CompletedIsOver,
       Delivered, Sent, vars, runVars
  <1>22. ASSUME NEW r0 \in Requests, EscapesStep(r0)
         PROVE  CompletedIsOver'
    BY <1>22 DEF TypeOK, Tokens, Placed, BehindIt, CompletedIsOver, Delivered,
       Sent, EscapesStep, Escapes, NoAddress
  <1>23. ASSUME NEW m0 \in Others, OthersMove(m0)
         PROVE  CompletedIsOver'
    BY <1>23 DEF TypeOK, Tokens, Placed, BehindIt, CompletedIsOver, Delivered,
       Sent, OthersMove, Cross, runVars
  <1> QED
    BY <1>1, <1>2, <1>3, <1>4, <1>5, <1>6, <1>7, <1>8, <1>9, <1>10, <1>11,
       <1>12, <1>13, <1>14, <1>15, <1>16, <1>17, <1>18, <1>19, <1>20,
       <1>21, <1>22, <1>23, NextCases, Zenon DEF StepOf

(* A quote in execution keeps whoever took it.                             *)
LEMMA ExecutingStep ==
    ASSUME TypeOK, Placed, ExecutingIsHeld, [Next]_vars
    PROVE  ExecutingIsHeld'
  <1> USE DEF Goto, End, Hit, rowVars, Cut
  <1>1. ASSUME NEW q0 \in Quotes, NEW d0 \in Directions, InsertQuote(q0, d0)
        PROVE  ExecutingIsHeld'
    BY <1>1 DEF TypeOK, Tokens, Placed, ExecutingIsHeld, Held, Engaged,
       Holding, InsertQuote, runVars
  <1>2. ASSUME NEW q0 \in Quotes, Expire(q0)
        PROVE  ExecutingIsHeld'
    BY <1>2 DEF TypeOK, Tokens, Placed, ExecutingIsHeld, Held, Engaged,
       Holding, Expire, runVars
  <1>3. ASSUME NEW r0 \in Requests, NEW q0 \in Quotes, Look(r0, q0)
        PROVE  ExecutingIsHeld'
    BY <1>3, SMTT(60) DEF TypeOK, Tokens, Placed, ExecutingIsHeld, Held, Engaged,
       Holding, Look, Read, rowVars
  <1>4. ASSUME NEW r0 \in Requests, PayStep(r0)
        PROVE  ExecutingIsHeld'
    <2>1. \A q \in Quotes, r \in Requests : Held(q, r) => Held(q, r)'
      BY <1>4 DEF TypeOK, Tokens, Placed, Held, Holding, PayStep, Pay, Cross,
         Reverse
    <2> QED BY <1>4, <2>1 DEF ExecutingIsHeld, PayStep, Pay, Cross, Reverse
  <1>5. ASSUME NEW r0 \in Requests, FindStep(r0)
        PROVE  ExecutingIsHeld'
    <2>1. \A q \in Quotes, r \in Requests : Held(q, r) => Held(q, r)'
      BY <1>5 DEF TypeOK, Tokens, Placed, Held, Holding, FindStep, Find, Read
    <2> QED BY <1>5, <2>1 DEF ExecutingIsHeld, FindStep, Find, Read
  <1>6. ASSUME NEW r0 \in Requests, PrepareStep(r0)
        PROVE  ExecutingIsHeld'
    <2>1. \A q \in Quotes, r \in Requests : Held(q, r) => Held(q, r)'
      BY <1>6 DEF TypeOK, Tokens, Placed, Held, Holding, PrepareStep,
         Prepare, AfterDrift, Ready
    <2> QED BY <1>6, <2>1 DEF ExecutingIsHeld, PrepareStep, Prepare, AfterDrift, Ready
  <1>7. ASSUME NEW r0 \in Requests, ThrowsStep(r0)
        PROVE  ExecutingIsHeld'
    BY <1>7 DEF TypeOK, Tokens, Placed, ExecutingIsHeld, Held, Engaged,
       Holding, ThrowsStep, Throws
  <1>8. ASSUME NEW r0 \in Requests, ClaimStep(r0)
        PROVE  ExecutingIsHeld'
    <2>1. CASE UNCHANGED quote /\ End(r0, "claim", "refused")
      <3>1. \A q \in Quotes, r \in Requests : Held(q, r) => Held(q, r)'
        BY <1>8, <2>1 DEF TypeOK, Held, Holding, ClaimStep
      <3> QED BY <2>1, <3>1 DEF ExecutingIsHeld
    <2>2. CASE quote' = [quote EXCEPT ![target[r0]] = "executing"]
               /\ Goto(r0, "claim", IF Reverse(r0) THEN "approval" ELSE "requote")
      <3>1. \A q \in Quotes, r \in Requests : Held(q, r) => Held(q, r)'
        BY <1>8, <2>2 DEF TypeOK, Held, Holding, ClaimStep
      <3>2. \A q \in Quotes : q = target[r0] => Held(q, r0)'
        BY <1>8, <2>2 DEF TypeOK, Held, Holding, ClaimStep
      <3>3. \A q \in Quotes : q # target[r0] => quote'[q] = quote[q]
        BY <2>2 DEF TypeOK
      <3>4. ASSUME NEW q \in Quotes, quote'[q] = "executing"
            PROVE  \E r \in Requests : Held(q, r)'
        <4>1. CASE q = target[r0]
          BY <3>2, <4>1
        <4>2. CASE q # target[r0]
          BY <3>1, <3>3, <3>4, <4>2 DEF ExecutingIsHeld
        <4> QED BY <4>1, <4>2
      <3> QED BY <3>4, Zenon DEF ExecutingIsHeld
    <2> QED BY <1>8, <2>1, <2>2 DEF ClaimStep, Claim
  <1>9. ASSUME NEW r0 \in Requests, CloseStep(r0)
        PROVE  ExecutingIsHeld'
    <2>1. \A q \in Quotes, r \in Requests :
            q # target[r0] /\ Held(q, r) => Held(q, r)'
      BY <1>9 DEF TypeOK, Held, Holding, CloseStep, Close
    <2>2. /\ \A q \in Quotes : q # target[r0] => quote'[q] = quote[q]
          /\ target[r0] \in Quotes => quote'[target[r0]] # "executing"
      BY <1>9 DEF TypeOK, CloseStep, Close, Write, Status
    <2> QED BY <1>9, <2>1, <2>2 DEF ExecutingIsHeld
  <1>10. ASSUME NEW r0 \in Requests, MarkStep(r0)
        PROVE  ExecutingIsHeld'
    BY <1>10 DEF TypeOK, Tokens, Placed, ExecutingIsHeld, Held, Engaged,
       Holding, MarkStep, MarkFailed, AfterMark, Write, Status
  <1>11. ASSUME NEW r0 \in Requests, BeforeStep(r0)
        PROVE  ExecutingIsHeld'
    BY <1>11 DEF TypeOK, Tokens, Placed, ExecutingIsHeld, Held, Engaged,
       Holding, BeforeStep, ReadBefore, Balance, OutOf
  <1>12. ASSUME NEW r0 \in Requests, AfterStep(r0)
        PROVE  ExecutingIsHeld'
    BY <1>12 DEF TypeOK, Tokens, Placed, ExecutingIsHeld, Held, Engaged,
       Holding, AfterStep, ReadAfter, Gain, OutOf
  <1>13. ASSUME NEW r0 \in Requests, NEW k0 \in Calls, SendStep(r0, k0)
        PROVE  ExecutingIsHeld'
    <2>1. \A q \in Quotes, r \in Requests : Held(q, r) => Held(q, r)'
      BY <1>13 DEF TypeOK, Held, Holding, SendStep, Send, Sending, Waiting, Calls
    <2> QED BY <1>13, <2>1 DEF ExecutingIsHeld, SendStep
  <1>14. ASSUME NEW r0 \in Requests, NEW k0 \in Calls, ReturnsStep(r0, k0)
        PROVE  ExecutingIsHeld'
    BY <1>14 DEF TypeOK, Tokens, Placed, ExecutingIsHeld, Held, Engaged,
       Holding, ReturnsStep, Returns, Confirms, Waiting, After, Ready,
       Calls
  <1>15. ASSUME NEW r0 \in Requests, NEW k0 \in Calls, LosesStep(r0, k0)
        PROVE  ExecutingIsHeld'
    BY <1>15 DEF TypeOK, Tokens, Placed, ExecutingIsHeld, Held, Engaged,
       Holding, LosesStep, Loses, Waiting, Calls
  <1>16. ASSUME NEW r0 \in Requests, RefundStep(r0)
        PROVE  ExecutingIsHeld'
    BY <1>16, Amounts DEF TypeOK, Tokens, Placed, ExecutingIsHeld, Held,
       Engaged, Holding, RefundStep, RecordRefund
  <1>17. ASSUME NEW r0 \in Requests, FaultStep(r0)
        PROVE  ExecutingIsHeld'
    BY <1>17 DEF TypeOK, Tokens, Placed, ExecutingIsHeld, Held, Engaged,
       Holding, FaultStep, QueryFault, AfterQueryFault, Taken, Write,
       Status
  <1>18. ASSUME NEW r0 \in Requests, Crash(r0)
        PROVE  ExecutingIsHeld'
    BY <1>18 DEF TypeOK, Tokens, Placed, ExecutingIsHeld, Held, Engaged,
       Holding, Crash
  <1>19. ASSUME NEW r0 \in Requests, NEW k0 \in Calls, Reverts(r0, k0)
        PROVE  ExecutingIsHeld'
    BY <1>19 DEF TypeOK, Tokens, Placed, ExecutingIsHeld, Held, Engaged,
       Holding, Reverts, runVars, Calls
  <1>20. ASSUME NEW r0 \in Requests, NEW k0 \in Calls, NEW y0 \in Yields, Lands(r0, k0, y0)
        PROVE  ExecutingIsHeld'
    BY <1>20 DEF TypeOK, Tokens, Placed, ExecutingIsHeld, Held, Engaged,
       Holding, Lands, Cross, InOf, OutOf, runVars, Calls
  <1>21. CASE UNCHANGED vars
    BY <1>21 DEF TypeOK, Tokens, Placed, ExecutingIsHeld, Held, Engaged,
       Holding, vars, runVars
  <1>22. ASSUME NEW r0 \in Requests, EscapesStep(r0)
         PROVE  ExecutingIsHeld'
    BY <1>22 DEF TypeOK, Tokens, Placed, ExecutingIsHeld, Held, Engaged,
       Holding, EscapesStep, Escapes, NoAddress
  <1>23. ASSUME NEW m0 \in Others, OthersMove(m0)
         PROVE  ExecutingIsHeld'
    BY <1>23 DEF TypeOK, Tokens, Placed, ExecutingIsHeld, Held, Engaged,
       Holding, OthersMove, Cross, runVars
  <1> QED
    BY <1>1, <1>2, <1>3, <1>4, <1>5, <1>6, <1>7, <1>8, <1>9, <1>10, <1>11,
       <1>12, <1>13, <1>14, <1>15, <1>16, <1>17, <1>18, <1>19, <1>20,
       <1>21, <1>22, <1>23, NextCases, Zenon DEF StepOf

(* What a swap buys is credited when it lands.                             *)
LEMMA BoughtStep ==
    ASSUME TypeOK, Placed, BehindIt, BoughtBySwap, [Next]_vars
    PROVE  BoughtBySwap'
  <1> USE DEF Goto, End, Hit, rowVars
  <1>1. ASSUME NEW q0 \in Quotes, NEW d0 \in Directions, InsertQuote(q0, d0)
        PROVE  BoughtBySwap'
    BY <1>1 DEF TypeOK, Tokens, Placed, Engaged, BehindIt, BoughtBySwap,
       InsertQuote, runVars
  <1>2. ASSUME NEW q0 \in Quotes, Expire(q0)
        PROVE  BoughtBySwap'
    BY <1>2 DEF TypeOK, Tokens, Placed, Engaged, BehindIt, BoughtBySwap,
       Expire, runVars
  <1>3. ASSUME NEW r0 \in Requests, NEW q0 \in Quotes, Look(r0, q0)
        PROVE  BoughtBySwap'
    BY <1>3 DEF TypeOK, Tokens, Placed, Engaged, BehindIt, BoughtBySwap,
       Look, Read, rowVars
  <1>4. ASSUME NEW r0 \in Requests, PayStep(r0)
        PROVE  BoughtBySwap'
    BY <1>4 DEF TypeOK, Tokens, Placed, Engaged, BehindIt, BoughtBySwap,
       PayStep, Pay, Cross, Reverse
  <1>5. ASSUME NEW r0 \in Requests, FindStep(r0)
        PROVE  BoughtBySwap'
    <2>1. \A r \in Requests :
            /\ reply'[r] = "ok" => reply[r] = "ok" /\ r # r0
            /\ r # r0 => place'[r] = place[r]
            /\ place'[r0] \in {"drop", "claim", "done"}
      <3>1. reply[r0] # "ok"
        BY <1>5 DEF FindStep, Find, BoughtBySwap
      <3>2. CASE \E to \in {"drop", "claim"} : Goto(r0, "find", to) /\ UNCHANGED reply
        BY <3>1, <3>2 DEF TypeOK
      <3>3. CASE End(r0, "find", "refused")
        BY <3>1, <3>3 DEF TypeOK
      <3> QED BY <1>5, <3>2, <3>3 DEF FindStep, Find, Read
    <2>2. tx[r0]["swap"] = "none"
      BY <1>5 DEF FindStep, Find, BoughtBySwap
    <2> QED BY <1>5, <2>1, <2>2 DEF FindStep, BoughtBySwap
  <1>6. ASSUME NEW r0 \in Requests, PrepareStep(r0)
        PROVE  BoughtBySwap'
    BY <1>6 DEF TypeOK, Tokens, Placed, Engaged, BehindIt, BoughtBySwap,
       PrepareStep, Prepare, AfterDrift, Ready
  <1>7. ASSUME NEW r0 \in Requests, ThrowsStep(r0)
        PROVE  BoughtBySwap'
    BY <1>7 DEF TypeOK, Tokens, Placed, Engaged, BehindIt, BoughtBySwap,
       ThrowsStep, Throws
  <1>8. ASSUME NEW r0 \in Requests, ClaimStep(r0)
        PROVE  BoughtBySwap'
    BY <1>8 DEF TypeOK, Tokens, Placed, Engaged, BehindIt, BoughtBySwap,
       ClaimStep, Claim, Taken
  <1>9. ASSUME NEW r0 \in Requests, CloseStep(r0)
        PROVE  BoughtBySwap'
    <2>1. CASE End(r0, "drop", "refused") \/ End(r0, "reject", "rejected")
      BY <1>9, <2>1 DEF CloseStep, TypeOK, BoughtBySwap
    <2>2. CASE End(r0, "book", "ok")
      BY <1>9, <2>2 DEF CloseStep, TypeOK, BehindIt, BoughtBySwap
    <2> QED BY <1>9, <2>1, <2>2 DEF CloseStep, Close
  <1>10. ASSUME NEW r0 \in Requests, MarkStep(r0)
        PROVE  BoughtBySwap'
    BY <1>10 DEF TypeOK, Tokens, Placed, Engaged, BehindIt, BoughtBySwap,
       MarkStep, MarkFailed, AfterMark, Write, Status
  <1>11. ASSUME NEW r0 \in Requests, BeforeStep(r0)
        PROVE  BoughtBySwap'
    BY <1>11 DEF TypeOK, Tokens, Placed, Engaged, BehindIt, BoughtBySwap,
       BeforeStep, ReadBefore, Balance, OutOf
  <1>12. ASSUME NEW r0 \in Requests, AfterStep(r0)
        PROVE  BoughtBySwap'
    BY <1>12 DEF TypeOK, Tokens, Placed, Engaged, BehindIt, BoughtBySwap,
       AfterStep, ReadAfter, Gain, OutOf
  <1>13. ASSUME NEW r0 \in Requests, NEW k0 \in Calls, SendStep(r0, k0)
        PROVE  BoughtBySwap'
    BY <1>13 DEF TypeOK, Tokens, Placed, Engaged, BehindIt, BoughtBySwap,
       SendStep, Send, Sending, Waiting, Calls
  <1>14. ASSUME NEW r0 \in Requests, NEW k0 \in Calls, ReturnsStep(r0, k0)
        PROVE  BoughtBySwap'
    BY <1>14 DEF TypeOK, Tokens, Placed, Engaged, BehindIt, BoughtBySwap,
       ReturnsStep, Returns, Confirms, Waiting, After, Ready, Calls
  <1>15. ASSUME NEW r0 \in Requests, NEW k0 \in Calls, LosesStep(r0, k0)
        PROVE  BoughtBySwap'
    BY <1>15 DEF TypeOK, Tokens, Placed, Engaged, BehindIt, BoughtBySwap,
       LosesStep, Loses, Waiting, Calls
  <1>16. ASSUME NEW r0 \in Requests, RefundStep(r0)
        PROVE  BoughtBySwap'
    BY <1>16, Amounts DEF TypeOK, Tokens, Placed, Engaged, BehindIt,
       BoughtBySwap, RefundStep, RecordRefund
  <1>17. ASSUME NEW r0 \in Requests, FaultStep(r0)
        PROVE  BoughtBySwap'
    BY <1>17 DEF TypeOK, Tokens, Placed, Engaged, BehindIt, BoughtBySwap,
       FaultStep, QueryFault, AfterQueryFault, Taken, Write, Status
  <1>18. ASSUME NEW r0 \in Requests, Crash(r0)
        PROVE  BoughtBySwap'
    BY <1>18 DEF TypeOK, Tokens, Placed, Engaged, BehindIt, BoughtBySwap,
       Crash
  <1>19. ASSUME NEW r0 \in Requests, NEW k0 \in Calls, Reverts(r0, k0)
        PROVE  BoughtBySwap'
    BY <1>19 DEF TypeOK, Tokens, Placed, Engaged, BehindIt, BoughtBySwap,
       Reverts, runVars, Calls
  <1>20. ASSUME NEW r0 \in Requests, NEW k0 \in Calls, NEW y0 \in Yields, Lands(r0, k0, y0)
        PROVE  BoughtBySwap'
    BY <1>20 DEF TypeOK, Tokens, Placed, Engaged, BehindIt, BoughtBySwap,
       Lands, Cross, InOf, OutOf, runVars, Calls
  <1>21. CASE UNCHANGED vars
    BY <1>21 DEF TypeOK, Tokens, Placed, Engaged, BehindIt, BoughtBySwap,
       vars, runVars
  <1>22. ASSUME NEW r0 \in Requests, EscapesStep(r0)
         PROVE  BoughtBySwap'
    BY <1>22 DEF TypeOK, Tokens, Placed, Engaged, BehindIt, BoughtBySwap,
       EscapesStep, Escapes, NoAddress
  <1>23. ASSUME NEW m0 \in Others, OthersMove(m0)
         PROVE  BoughtBySwap'
    BY <1>23 DEF TypeOK, Tokens, Placed, Engaged, BehindIt, BoughtBySwap,
       OthersMove, Cross, runVars
  <1> QED
    BY <1>1, <1>2, <1>3, <1>4, <1>5, <1>6, <1>7, <1>8, <1>9, <1>10, <1>11,
       <1>12, <1>13, <1>14, <1>15, <1>16, <1>17, <1>18, <1>19, <1>20,
       <1>21, <1>22, <1>23, NextCases, Zenon DEF StepOf

(* Nothing else moves the output balance of a request that is not crossed. *)
LEMMA BalanceStep ==
    ASSUME TypeOK, Placed, TransferIsLast, BoughtBySwap, BalanceIsExplained, [Next]_vars
    PROVE  BalanceIsExplained'
  <1> USE DEF Goto, End, Hit, rowVars
  <1>1. ASSUME NEW q0 \in Quotes, NEW d0 \in Directions, InsertQuote(q0, d0)
        PROVE  BalanceIsExplained'
    BY <1>1 DEF TypeOK, Tokens, Placed, TransferIsLast, BoughtBySwap,
       BalanceIsExplained, OutOf, Reverse, InsertQuote, runVars
  <1>2. ASSUME NEW q0 \in Quotes, Expire(q0)
        PROVE  BalanceIsExplained'
    BY <1>2 DEF TypeOK, Tokens, Placed, TransferIsLast, BoughtBySwap,
       BalanceIsExplained, OutOf, Reverse, Expire, runVars
  <1>3. ASSUME NEW r0 \in Requests, NEW q0 \in Quotes, Look(r0, q0)
        PROVE  BalanceIsExplained'
    BY <1>3 DEF TypeOK, Tokens, Placed, TransferIsLast, BoughtBySwap,
       BalanceIsExplained, OutOf, Reverse, Look, Read, rowVars
  <1>4. ASSUME NEW r0 \in Requests, PayStep(r0)
        PROVE  BalanceIsExplained'
    <2> SUFFICES ASSUME NEW r \in Requests,
                        place'[r] \in {"build", "swap", "swapping", "post"},
                        ~crossed'[r]
                 PROVE  (wallet[OutOf(r)] = pre[r] + bought[r])'
      BY DEF BalanceIsExplained
    <2>1. r # r0 /\ place[r] = place'[r]
      BY <1>4 DEF PayStep, Pay, TypeOK
    <2>2. CASE UNCHANGED <<wallet, crossed>>
      BY <1>4, <2>1, <2>2 DEF PayStep, BalanceIsExplained, OutOf, Reverse
    <2>3. CASE /\ wallet' = [wallet EXCEPT !["usdc"] =
                     @ + Fee + IF Reverse(r0) THEN 0 ELSE Input]
               /\ Cross(r0, {"usdc"})
      <3>1. crossed'[r] = (crossed[r] \/ r \in Measuring("usdc") \ {r0})
        BY <2>3 DEF Cross
      <3>2. OutOf(r) = "token" /\ ~crossed[r]
        BY <2>1, <3>1 DEF Measuring, OutOf
      <3>3. wallet'["token"] = wallet["token"]
        BY <2>3 DEF TypeOK, Tokens
      <3>4. OutOf(r)' = "token"
        BY <1>4, <3>2 DEF PayStep, OutOf, Reverse
      <3> QED BY <1>4, <2>1, <3>2, <3>3, <3>4 DEF PayStep, BalanceIsExplained
    <2> QED BY <1>4, <2>2, <2>3 DEF PayStep, Pay
  <1>5. ASSUME NEW r0 \in Requests, FindStep(r0)
        PROVE  BalanceIsExplained'
    BY <1>5 DEF TypeOK, Tokens, Placed, TransferIsLast, BoughtBySwap,
       BalanceIsExplained, OutOf, Reverse, FindStep, Find, Read
  <1>6. ASSUME NEW r0 \in Requests, PrepareStep(r0)
        PROVE  BalanceIsExplained'
    BY <1>6 DEF TypeOK, Tokens, Placed, TransferIsLast, BoughtBySwap,
       BalanceIsExplained, OutOf, Reverse, PrepareStep, Prepare,
       AfterDrift, Ready
  <1>7. ASSUME NEW r0 \in Requests, ThrowsStep(r0)
        PROVE  BalanceIsExplained'
    BY <1>7 DEF TypeOK, Tokens, Placed, TransferIsLast, BoughtBySwap,
       BalanceIsExplained, OutOf, Reverse, ThrowsStep, Throws
  <1>8. ASSUME NEW r0 \in Requests, ClaimStep(r0)
        PROVE  BalanceIsExplained'
    BY <1>8 DEF TypeOK, Tokens, Placed, TransferIsLast, BoughtBySwap,
       BalanceIsExplained, OutOf, Reverse, ClaimStep, Claim, Taken
  <1>9. ASSUME NEW r0 \in Requests, CloseStep(r0)
        PROVE  BalanceIsExplained'
    BY <1>9, SMTT(60) DEF TypeOK, Tokens, Placed, TransferIsLast, BoughtBySwap,
       BalanceIsExplained, OutOf, Reverse, CloseStep, Close, Write, Status
  <1>10. ASSUME NEW r0 \in Requests, MarkStep(r0)
        PROVE  BalanceIsExplained'
    BY <1>10 DEF TypeOK, Tokens, Placed, TransferIsLast, BoughtBySwap,
       BalanceIsExplained, OutOf, Reverse, MarkStep, MarkFailed,
       AfterMark, Write, Status
  <1>11. ASSUME NEW r0 \in Requests, BeforeStep(r0)
        PROVE  BalanceIsExplained'
    <2> SUFFICES ASSUME NEW r \in Requests,
                        place'[r] \in {"build", "swap", "swapping", "post"},
                        ~crossed'[r]
                 PROVE  (wallet[OutOf(r)] = pre[r] + bought[r])'
      BY DEF BalanceIsExplained
    <2>1. OutOf(r)' = OutOf(r) /\ wallet[OutOf(r)] \in Nat
      BY <1>11 DEF BeforeStep, OutOf, Reverse, TypeOK, Tokens
    <2>2. CASE r = r0
      <3>1. bought[r0] = 0
        BY <1>11 DEF BeforeStep, ReadBefore, BoughtBySwap
      <3>2. pre'[r0] = wallet[OutOf(r0)]
        BY <1>11 DEF BeforeStep, ReadBefore, Balance, TypeOK
      <3> QED BY <1>11, <2>1, <2>2, <3>1, <3>2 DEF BeforeStep
    <2>3. CASE r # r0
      <3>1. place'[r] = place[r] /\ pre'[r] = pre[r] /\ crossed'[r] = crossed[r]
        BY <1>11, <2>3 DEF BeforeStep, ReadBefore, TypeOK
      <3> QED BY <1>11, <2>1, <3>1 DEF BeforeStep, BalanceIsExplained
    <2> QED BY <2>2, <2>3
  <1>12. ASSUME NEW r0 \in Requests, AfterStep(r0)
        PROVE  BalanceIsExplained'
    BY <1>12 DEF TypeOK, Tokens, Placed, TransferIsLast, BoughtBySwap,
       BalanceIsExplained, OutOf, Reverse, AfterStep, ReadAfter, Gain,
       OutOf
  <1>13. ASSUME NEW r0 \in Requests, NEW k0 \in Calls, SendStep(r0, k0)
        PROVE  BalanceIsExplained'
    BY <1>13 DEF TypeOK, Tokens, Placed, TransferIsLast, BoughtBySwap,
       BalanceIsExplained, OutOf, Reverse, SendStep, Send, Sending,
       Waiting, Calls
  <1>14. ASSUME NEW r0 \in Requests, NEW k0 \in Calls, ReturnsStep(r0, k0)
        PROVE  BalanceIsExplained'
    BY <1>14 DEF TypeOK, Tokens, Placed, TransferIsLast, BoughtBySwap,
       BalanceIsExplained, OutOf, Reverse, ReturnsStep, Returns, Confirms,
       Waiting, After, Ready, Calls
  <1>15. ASSUME NEW r0 \in Requests, NEW k0 \in Calls, LosesStep(r0, k0)
        PROVE  BalanceIsExplained'
    BY <1>15 DEF TypeOK, Tokens, Placed, TransferIsLast, BoughtBySwap,
       BalanceIsExplained, OutOf, Reverse, LosesStep, Loses, Waiting,
       Calls
  <1>16. ASSUME NEW r0 \in Requests, RefundStep(r0)
        PROVE  BalanceIsExplained'
    BY <1>16, Amounts DEF TypeOK, Tokens, Placed, TransferIsLast,
       BoughtBySwap, BalanceIsExplained, OutOf, Reverse, RefundStep,
       RecordRefund
  <1>17. ASSUME NEW r0 \in Requests, FaultStep(r0)
        PROVE  BalanceIsExplained'
    BY <1>17 DEF TypeOK, Tokens, Placed, TransferIsLast, BoughtBySwap,
       BalanceIsExplained, OutOf, Reverse, FaultStep, QueryFault,
       AfterQueryFault, Taken, Write, Status
  <1>18. ASSUME NEW r0 \in Requests, Crash(r0)
        PROVE  BalanceIsExplained'
    BY <1>18 DEF TypeOK, Tokens, Placed, TransferIsLast, BoughtBySwap,
       BalanceIsExplained, OutOf, Reverse, Crash
  <1>19. ASSUME NEW r0 \in Requests, NEW k0 \in Calls, Reverts(r0, k0)
        PROVE  BalanceIsExplained'
    BY <1>19 DEF TypeOK, Tokens, Placed, TransferIsLast, BoughtBySwap,
       BalanceIsExplained, OutOf, Reverse, Reverts, runVars, Calls
  <1>20. ASSUME NEW r0 \in Requests, NEW k0 \in Calls, NEW y0 \in Yields, Lands(r0, k0, y0)
        PROVE  BalanceIsExplained'
    <2> SUFFICES ASSUME NEW r \in Requests,
                        place[r] \in {"build", "swap", "swapping", "post"},
                        ~crossed'[r]
                 PROVE  wallet'[OutOf(r)] = pre[r] + bought'[r]
      BY <1>20 DEF Lands, runVars, BalanceIsExplained, OutOf, Reverse
    <2>1. /\ OutOf(r) \in Tokens /\ InOf(r) \in Tokens /\ InOf(r) # OutOf(r)
          /\ wallet[OutOf(r)] \in Nat /\ wallet[InOf(r)] \in Nat /\ pre[r] \in Nat
      BY DEF OutOf, InOf, Tokens, TypeOK
    <2>2. InOf(r0) \in Tokens /\ OutOf(r0) \in Tokens
      BY DEF OutOf, InOf, Tokens
    <2>3. ASSUME NEW ts \in SUBSET Tokens, Cross(r0, ts)
          PROVE  ~crossed[r] /\ (r = r0 \/ OutOf(r) \notin ts)
      <3>1. crossed'[r] = (crossed[r] \/ \E t \in ts : r \in Measuring(t) \ {r0})
        BY <2>3 DEF Cross
      <3>2. \A t \in ts : r \notin Measuring(t) \ {r0}
        BY <3>1
      <3> QED BY <3>1, <3>2 DEF Measuring
    <2>4. CASE k0 = "pull"
      <3>1. /\ wallet' = [wallet EXCEPT ![InOf(r0)] = @ + Input]
            /\ Cross(r0, {InOf(r0)}) /\ UNCHANGED bought
        BY <1>20, <2>4 DEF Lands
      <3>2. ~crossed[r] /\ (r = r0 \/ OutOf(r) # InOf(r0))
        BY <2>2, <2>3, <3>1
      <3>3. wallet'[OutOf(r)] = wallet[OutOf(r)]
        BY <2>1, <3>1, <3>2 DEF TypeOK
      <3> QED BY <3>1, <3>2, <3>3 DEF BalanceIsExplained
    <2>5. CASE k0 = "swap"
      <3>1. /\ wallet' = [wallet EXCEPT ![InOf(r0)] = @ - Input, ![OutOf(r0)] = @ + y0]
            /\ Cross(r0, Tokens)
            /\ bought' = [bought EXCEPT ![r0] = y0]
            /\ tx[r0]["swap"] = "flying"
        BY <1>20, <2>5 DEF Lands
      <3>2. ~crossed[r] /\ r = r0
        BY <2>1, <2>3, <3>1
      <3>3. bought[r0] = 0 /\ bought'[r0] = y0
        BY <3>1 DEF BoughtBySwap, TypeOK
      <3>4. wallet[OutOf(r)] = pre[r]
        BY <2>1, <3>2, <3>3 DEF BalanceIsExplained
      <3>5. wallet'[OutOf(r)] = wallet[OutOf(r)] + y0
        BY <2>1, <3>1, <3>2 DEF TypeOK
      <3> QED BY <3>2, <3>3, <3>4, <3>5
    <2>6. CASE k0 = "out"
      <3>1. /\ wallet' = [wallet EXCEPT ![OutOf(r0)] = @ - amount[r0]]
            /\ Cross(r0, {OutOf(r0)}) /\ UNCHANGED bought
            /\ tx[r0]["out"] = "flying"
        BY <1>20, <2>6 DEF Lands
      <3>2. r # r0
        BY <3>1 DEF TransferIsLast
      <3>3. ~crossed[r] /\ OutOf(r) # OutOf(r0)
        BY <2>2, <2>3, <3>1, <3>2
      <3>4. wallet'[OutOf(r)] = wallet[OutOf(r)]
        BY <2>1, <3>1, <3>3 DEF TypeOK
      <3> QED BY <3>1, <3>3, <3>4 DEF BalanceIsExplained
    <2> QED BY <2>4, <2>5, <2>6 DEF Calls
  <1>21. CASE UNCHANGED vars
    BY <1>21 DEF TypeOK, Tokens, Placed, TransferIsLast, BoughtBySwap,
       BalanceIsExplained, OutOf, Reverse, vars, runVars
  <1>22. ASSUME NEW r0 \in Requests, EscapesStep(r0)
         PROVE  BalanceIsExplained'
    BY <1>22 DEF TypeOK, Tokens, Placed, TransferIsLast, BoughtBySwap,
       BalanceIsExplained, OutOf, Reverse, EscapesStep, Escapes, NoAddress
  <1>23. ASSUME NEW m0 \in Others, OthersMove(m0)
         PROVE  BalanceIsExplained'
    <2> SUFFICES ASSUME NEW r \in Requests,
                        place[r] \in {"build", "swap", "swapping", "post"},
                        ~crossed'[r]
                 PROVE  wallet'[OutOf(r)] = pre[r] + bought[r]
      BY <1>23 DEF OthersMove, runVars, BalanceIsExplained, OutOf, Reverse
    <2>1. OutOf(r) \in Tokens /\ m0.token \in Tokens /\ r # None
      BY OthersAssumption, NoneAssumption DEF OutOf, Tokens
    <2>2. crossed'[r] = (crossed[r] \/ r \in Measuring(m0.token) \ {None})
      BY <1>23 DEF OthersMove, Cross
    <2>3. ~crossed[r] /\ OutOf(r) # m0.token
      BY <2>1, <2>2 DEF Measuring
    <2>4. wallet'[OutOf(r)] = wallet[OutOf(r)]
      BY <1>23, <2>1, <2>3 DEF OthersMove, TypeOK
    <2> QED BY <2>3, <2>4 DEF BalanceIsExplained
  <1> QED
    BY <1>1, <1>2, <1>3, <1>4, <1>5, <1>6, <1>7, <1>8, <1>9, <1>10, <1>11,
       <1>12, <1>13, <1>14, <1>15, <1>16, <1>17, <1>18, <1>19, <1>20,
       <1>21, <1>22, <1>23, NextCases, Zenon DEF StepOf

(* ... so the difference is what it bought.                                *)
LEMMA AmountStep ==
    ASSUME TypeOK, Placed, BehindIt, BoughtBySwap, BalanceIsExplained, AmountIsBought, [Next]_vars
    PROVE  AmountIsBought'
  <1> USE DEF Goto, End, Hit, rowVars
  <1>1. ASSUME NEW q0 \in Quotes, NEW d0 \in Directions, InsertQuote(q0, d0)
        PROVE  AmountIsBought'
    BY <1>1 DEF TypeOK, Tokens, Placed, BehindIt, BoughtBySwap,
       BalanceIsExplained, AmountIsBought, InsertQuote, runVars
  <1>2. ASSUME NEW q0 \in Quotes, Expire(q0)
        PROVE  AmountIsBought'
    BY <1>2 DEF TypeOK, Tokens, Placed, BehindIt, BoughtBySwap,
       BalanceIsExplained, AmountIsBought, Expire, runVars
  <1>3. ASSUME NEW r0 \in Requests, NEW q0 \in Quotes, Look(r0, q0)
        PROVE  AmountIsBought'
    BY <1>3 DEF TypeOK, Tokens, Placed, BehindIt, BoughtBySwap,
       BalanceIsExplained, AmountIsBought, Look, Read, rowVars
  <1>4. ASSUME NEW r0 \in Requests, PayStep(r0)
        PROVE  AmountIsBought'
    BY <1>4 DEF TypeOK, Tokens, Placed, BehindIt, BoughtBySwap,
       BalanceIsExplained, AmountIsBought, PayStep, Pay, Cross, Reverse
  <1>5. ASSUME NEW r0 \in Requests, FindStep(r0)
        PROVE  AmountIsBought'
    BY <1>5 DEF TypeOK, Tokens, Placed, BehindIt, BoughtBySwap,
       BalanceIsExplained, AmountIsBought, FindStep, Find, Read
  <1>6. ASSUME NEW r0 \in Requests, PrepareStep(r0)
        PROVE  AmountIsBought'
    BY <1>6 DEF TypeOK, Tokens, Placed, BehindIt, BoughtBySwap,
       BalanceIsExplained, AmountIsBought, PrepareStep, Prepare,
       AfterDrift, Ready
  <1>7. ASSUME NEW r0 \in Requests, ThrowsStep(r0)
        PROVE  AmountIsBought'
    BY <1>7 DEF TypeOK, Tokens, Placed, BehindIt, BoughtBySwap,
       BalanceIsExplained, AmountIsBought, ThrowsStep, Throws
  <1>8. ASSUME NEW r0 \in Requests, ClaimStep(r0)
        PROVE  AmountIsBought'
    BY <1>8 DEF TypeOK, Tokens, Placed, BehindIt, BoughtBySwap,
       BalanceIsExplained, AmountIsBought, ClaimStep, Claim, Taken
  <1>9. ASSUME NEW r0 \in Requests, CloseStep(r0)
        PROVE  AmountIsBought'
    BY <1>9 DEF TypeOK, Tokens, Placed, BehindIt, BoughtBySwap,
       BalanceIsExplained, AmountIsBought, CloseStep, Close, Write, Status
  <1>10. ASSUME NEW r0 \in Requests, MarkStep(r0)
        PROVE  AmountIsBought'
    BY <1>10 DEF TypeOK, Tokens, Placed, BehindIt, BoughtBySwap,
       BalanceIsExplained, AmountIsBought, MarkStep, MarkFailed,
       AfterMark, Write, Status
  <1>11. ASSUME NEW r0 \in Requests, BeforeStep(r0)
        PROVE  AmountIsBought'
    BY <1>11 DEF TypeOK, Tokens, Placed, BehindIt, BoughtBySwap,
       BalanceIsExplained, AmountIsBought, BeforeStep, ReadBefore,
       Balance, OutOf
  <1>12. ASSUME NEW r0 \in Requests, AfterStep(r0)
        PROVE  AmountIsBought'
    BY <1>12 DEF TypeOK, Tokens, Placed, BehindIt, BoughtBySwap,
       BalanceIsExplained, AmountIsBought, AfterStep, ReadAfter, Gain,
       OutOf
  <1>13. ASSUME NEW r0 \in Requests, NEW k0 \in Calls, SendStep(r0, k0)
        PROVE  AmountIsBought'
    BY <1>13 DEF TypeOK, Tokens, Placed, BehindIt, BoughtBySwap,
       BalanceIsExplained, AmountIsBought, SendStep, Send, Sending,
       Waiting, Calls
  <1>14. ASSUME NEW r0 \in Requests, NEW k0 \in Calls, ReturnsStep(r0, k0)
        PROVE  AmountIsBought'
    BY <1>14 DEF TypeOK, Tokens, Placed, BehindIt, BoughtBySwap,
       BalanceIsExplained, AmountIsBought, ReturnsStep, Returns, Confirms,
       Waiting, After, Ready, Calls
  <1>15. ASSUME NEW r0 \in Requests, NEW k0 \in Calls, LosesStep(r0, k0)
        PROVE  AmountIsBought'
    BY <1>15 DEF TypeOK, Tokens, Placed, BehindIt, BoughtBySwap,
       BalanceIsExplained, AmountIsBought, LosesStep, Loses, Waiting,
       Calls
  <1>16. ASSUME NEW r0 \in Requests, RefundStep(r0)
        PROVE  AmountIsBought'
    BY <1>16, Amounts DEF TypeOK, Tokens, Placed, BehindIt, BoughtBySwap,
       BalanceIsExplained, AmountIsBought, RefundStep, RecordRefund
  <1>17. ASSUME NEW r0 \in Requests, FaultStep(r0)
        PROVE  AmountIsBought'
    BY <1>17 DEF TypeOK, Tokens, Placed, BehindIt, BoughtBySwap,
       BalanceIsExplained, AmountIsBought, FaultStep, QueryFault,
       AfterQueryFault, Taken, Write, Status
  <1>18. ASSUME NEW r0 \in Requests, Crash(r0)
        PROVE  AmountIsBought'
    BY <1>18 DEF TypeOK, Tokens, Placed, BehindIt, BoughtBySwap,
       BalanceIsExplained, AmountIsBought, Crash
  <1>19. ASSUME NEW r0 \in Requests, NEW k0 \in Calls, Reverts(r0, k0)
        PROVE  AmountIsBought'
    BY <1>19 DEF TypeOK, Tokens, Placed, BehindIt, BoughtBySwap,
       BalanceIsExplained, AmountIsBought, Reverts, runVars, Calls
  <1>20. ASSUME NEW r0 \in Requests, NEW k0 \in Calls, NEW y0 \in Yields, Lands(r0, k0, y0)
        PROVE  AmountIsBought'
    <2> SUFFICES ASSUME NEW r \in Requests,
                        place[r] \in {"out", "outing", "book"} \/ reply[r] = "ok",
                        ~crossed'[r]
                 PROVE  amount[r] = bought'[r]
      BY <1>20 DEF Lands, runVars, AmountIsBought
    <2>1. ~crossed[r]
      BY <1>20 DEF Lands, Cross
    <2>2. tx[r]["swap"] = "landed"
      BY DEF BehindIt, BoughtBySwap
    <2>3. bought'[r] = bought[r]
      BY <1>20, <2>2 DEF Lands, TypeOK, Calls
    <2> QED BY <2>1, <2>3 DEF AmountIsBought
  <1>21. CASE UNCHANGED vars
    BY <1>21 DEF TypeOK, Tokens, Placed, BehindIt, BoughtBySwap,
       BalanceIsExplained, AmountIsBought, vars, runVars
  <1>22. ASSUME NEW r0 \in Requests, EscapesStep(r0)
         PROVE  AmountIsBought'
    BY <1>22 DEF TypeOK, Tokens, Placed, BehindIt, BoughtBySwap,
       BalanceIsExplained, AmountIsBought, EscapesStep, Escapes, NoAddress
  <1>23. ASSUME NEW m0 \in Others, OthersMove(m0)
         PROVE  AmountIsBought'
    BY <1>23 DEF TypeOK, Tokens, Placed, BehindIt, BoughtBySwap,
       BalanceIsExplained, AmountIsBought, OthersMove, Cross, runVars
  <1> QED
    BY <1>1, <1>2, <1>3, <1>4, <1>5, <1>6, <1>7, <1>8, <1>9, <1>10, <1>11,
       <1>12, <1>13, <1>14, <1>15, <1>16, <1>17, <1>18, <1>19, <1>20,
       <1>21, <1>22, <1>23, NextCases, Zenon DEF StepOf

(* The inductive invariant.                                                *)
LEMMA Inductive == Spec => []IInv
  <1>1. Init => IInv
    <2> SUFFICES ASSUME Init
                 PROVE  IInv
      OBVIOUS
    <2>1. TypeOK
      BY DEF Init, TypeOK, Tokens, Calls, Places, Directions
    <2>2. \A r \in Requests : ~Engaged(r)
      BY DEF Init, Engaged, Holding
    <2>3. Placed /\ IdleHasNone /\ HolderTook /\ HolderIsAlone
      BY <2>2 DEF Init, Placed, IdleHasNone, HolderTook, HolderIsAlone
    <2>4. TransferIsLast /\ OutIsSeen /\ LostWasSent /\ BehindIt /\ BoughtBySwap
      BY DEF Init, TransferIsLast, OutIsSeen, LostWasSent, BehindIt, BoughtBySwap, Calls
    <2>5. /\ FailureIsRefunded /\ CompletedIsOver /\ ExecutingIsHeld
          /\ BalanceIsExplained /\ AmountIsBought
      BY DEF Init, FailureIsRefunded, CompletedIsOver, ExecutingIsHeld,
         BalanceIsExplained, AmountIsBought
    <2> QED BY <2>1, <2>3, <2>4, <2>5 DEF IInv
  <1>2. IInv /\ [Next]_vars => IInv'
    <2> SUFFICES ASSUME IInv, [Next]_vars
                 PROVE  IInv'
      OBVIOUS
    <2> USE DEF IInv
    <2>1. TypeOK' /\ Placed' /\ IdleHasNone' /\ HolderTook' /\ HolderIsAlone'
      BY TypeStep, PlacedStep, IdleStep, TookStep, AloneStep
    <2>2. TransferIsLast' /\ OutIsSeen' /\ LostWasSent' /\ FailureIsRefunded' /\ BehindIt'
      BY TransferStep, SeenStep, LostStep, FailureStep, BehindStep
    <2>3. CompletedIsOver' /\ ExecutingIsHeld'
      BY CompletedStep, ExecutingStep
    <2>4. BoughtBySwap' /\ BalanceIsExplained' /\ AmountIsBought'
      BY BoughtStep, BalanceStep, AmountStep
    <2> QED BY <2>1, <2>2, <2>3, <2>4
  <1> QED BY <1>1, <1>2, PTL DEF Spec

(* Every reachable state has the declared shape.                           *)
THEOREM TypeCorrect == Spec => []TypeOK
  BY Inductive, PTL DEF IInv

(* One request at most executes a quote, however many pay for it.          *)
THEOREM ExecutedOnceHolds == Spec => []ExecutedOnce
  <1>1. IInv => ExecutedOnce
    <2> SUFFICES ASSUME IInv, NEW q \in Requests, NEW r \in Requests,
                        target[q] = target[r],
                        \A x \in {q, r} :
                            refund[x] > 0 \/ tx[x] # [k \in Calls |-> "none"]
                 PROVE  q = r
      BY DEF ExecutedOnce
    <2>1. ASSUME NEW x \in Requests, tx[x] # [k \in Calls |-> "none"]
          PROVE  \E k \in Calls : tx[x][k] # "none"
      BY <2>1 DEF IInv, TypeOK
    <2>2. Engaged(q) /\ Engaged(r)
      BY <2>1 DEF Engaged
    <2> QED BY <2>2 DEF IInv, HolderIsAlone
  <1> QED BY <1>1, Inductive, PTL

(* A quote on file as completed was swapped and sent on.                   *)
THEOREM CompletedWasDeliveredHolds == Spec => []CompletedWasDelivered
  <1>1. IInv => CompletedWasDelivered
    BY DEF IInv, CompletedIsOver, Delivered, Sent, CompletedWasDelivered
  <1> QED BY <1>1, Inductive, PTL

(* An execution that fails leaves a refund, unless a query failed or a     *)
(* conversion threw outside any try.                                       *)
THEOREM FailureIsRefundedHolds == Spec => []FailureIsRefunded
  BY Inductive, PTL DEF IInv

(* No buyer has both output and refund, but for a transfer lost sight of.  *)
THEOREM NotPaidTwiceHolds == Spec => []NotPaidTwice
  <1>1. IInv => NotPaidTwice
    BY DEF IInv, TransferIsLast, NotPaidTwice
  <1> QED BY <1>1, Inductive, PTL

(* What is delivered is what was bought, where nothing crosses.            *)
THEOREM DeliveredIsBoughtHolds == Spec => []DeliveredIsBought
  <1>1. IInv => DeliveredIsBought
    BY DEF IInv, AmountIsBought, DeliveredIsBought
  <1> QED BY <1>1, Inductive, PTL

(* No quote stays in execution without a reason.                           *)
THEOREM ExecutingIsExplainedHolds == Spec => []ExecutingIsExplained
  <1>1. IInv => ExecutingIsExplained
    BY DEF IInv, ExecutingIsHeld, Held, Holding, ExecutingIsExplained
  <1> QED BY <1>1, Inductive, PTL

-----------------------------------------------------------------------------
(* The promise                                                             *)

(* Whoever is given something is the first to be: nobody else is at the    *)
(* quote, or was.                                                          *)
LEMMA FirstGiven ==
    ASSUME TypeOK', Placed', HolderIsAlone', NEW r \in Requests,
           refund'[r] > 0 \/ tx'[r]["out"] # "none", UNCHANGED target,
           \A x \in Requests \ {r} : tx'[x] = tx[x] /\ refund'[x] = refund[x]
    PROVE  target[r] # None /\ Promise!IsFirst(r)
  <1>1. Engaged(r)'
    BY DEF Engaged, Calls
  <1>2. target[r] # None
    BY <1>1, NoneAssumption DEF Placed
  <1> SUFFICES ASSUME NEW x \in Requests \ {r}, target[x] = target[r]
               PROVE  Given[x] = {}
    BY <1>2 DEF Promise!IsFirst
  <1>3. ~ Engaged(x)'
    BY <1>1 DEF HolderIsAlone
  <1>4. ~ (refund[x] > 0) /\ tx[x]["out"] = "none"
    BY <1>3 DEF Engaged, Calls
  <1> QED BY <1>4 DEF Given

(* A step that gives, tells and loses nothing.                             *)
LEMMA PromiseRests ==
    ASSUME UNCHANGED <<chain, target, tx, refund, reply, hit>>
    PROVE  UNCHANGED Promise!vars
  BY DEF Promise!vars, Given, Cut

(* A step that only moves a transaction, and makes no output of it.        *)
LEMMA TransactionRests ==
    ASSUME UNCHANGED <<chain, target, refund, reply, hit>>,
           \A r \in Requests : tx'[r]["out"] = "landed" <=> tx[r]["out"] = "landed"
    PROVE  UNCHANGED Promise!vars
  BY DEF Promise!vars, Given, Cut

(* A request is refused before it has taken the quote.                     *)
LEMMA RefusedIsEarly ==
    ASSUME IInv, NEW r \in Requests,
           NEW from \in {"pay", "find", "claim", "drop", "reject"},
           NEW res \in {"refused", "rejected"}, End(r, from, res),
           UNCHANGED <<chain, target, tx, refund, hit>>
    PROVE  Promise!Refuse(r)
  <1>1. place[r] = from /\ reply' = [reply EXCEPT ![r] = res]
    BY DEF End, Goto
  <1>2. target[r] # None
    BY <1>1, NoneAssumption DEF IInv, Placed
  <1>3. Given[r] = {} /\ "out" \notin hit[r]
    BY <1>1 DEF IInv, TransferIsLast, LostWasSent, Given
  <1>4. reply[r] = "none"
    BY <1>1 DEF IInv, OutIsSeen
  <1>5. Given' = Given
    BY DEF Given
  <1> QED BY <1>1, <1>2, <1>3, <1>4, <1>5 DEF Promise!Refuse, Promise!Tell, Cut

(* A query that fails ends it, and so does what no try guards.             *)
LEMMA FailedCut ==
    ASSUME IInv, NEW r \in Requests, place[r] # "done", NEW f \in {"query", "throw"},
           reply' = [reply EXCEPT ![r] = "failed"], Hit(r, f),
           UNCHANGED <<chain, target, tx, refund>>
    PROVE  Promise!Fail(r)
  <1>1. reply[r] = "none"
    BY DEF IInv, OutIsSeen
  <1>2. {x \in Requests : Cut(x)'} = {x \in Requests : Cut(x)} \union {r}
    BY DEF Hit, Cut, IInv, TypeOK
  <1>3. {x \in Requests : "out" \in hit'[x]} = {x \in Requests : "out" \in hit[x]}
    BY DEF Hit, IInv, TypeOK
  <1>4. Given' = Given
    BY DEF Given
  <1> QED BY <1>1, <1>2, <1>3, <1>4 DEF Promise!Fail, Promise!Tell

LEMMA PromiseStep ==
    ASSUME IInv, IInv', [Next]_vars
    PROVE  [Promise!Next]_(Promise!vars)
  <1> USE DEF rowVars, runVars
  <1>1. ASSUME NEW q0 \in Quotes, NEW d0 \in Directions, InsertQuote(q0, d0)
        PROVE  UNCHANGED Promise!vars
    BY <1>1, PromiseRests DEF InsertQuote
  <1>2. ASSUME NEW q0 \in Quotes, Expire(q0)
        PROVE  UNCHANGED Promise!vars
    BY <1>2, PromiseRests DEF Expire
  <1>3. ASSUME NEW r0 \in Requests, NEW q0 \in Quotes, Look(r0, q0)
        PROVE  Promise!Ask(r0, q0)
    <2>1. target[r0] = None /\ target' = [target EXCEPT ![r0] = q0]
      BY <1>3 DEF Look, Read, End, Goto, IInv, IdleHasNone
    <2>2. reply[r0] = "none"
      BY <1>3 DEF Look, Read, End, Goto, IInv, OutIsSeen
    <2>3. reply' = [reply EXCEPT ![r0] = "refused"] \/ UNCHANGED reply
      BY <1>3 DEF Look, Read, End
    <2>4. UNCHANGED <<chain, moved, tx, refund, hit>> /\ Given' = Given
      BY <1>3 DEF Look, Given
    <2> QED BY <2>1, <2>2, <2>3, <2>4 DEF Promise!Ask, Promise!Tell, Cut
  <1>4. ASSUME NEW r0 \in Requests, PayStep(r0)
        PROVE  Promise!Refuse(r0) \/ UNCHANGED Promise!vars
    BY <1>4, RefusedIsEarly, PromiseRests DEF PayStep, Pay
  <1>5. ASSUME NEW r0 \in Requests, FindStep(r0)
        PROVE  Promise!Refuse(r0) \/ UNCHANGED Promise!vars
    BY <1>5, RefusedIsEarly, PromiseRests DEF FindStep, Find, Read
  <1>6. ASSUME NEW r0 \in Requests, PrepareStep(r0) \/ ThrowsStep(r0)
        PROVE  UNCHANGED Promise!vars
    BY <1>6, PromiseRests DEF PrepareStep, Prepare, ThrowsStep
  <1>7. ASSUME NEW r0 \in Requests, ClaimStep(r0)
        PROVE  Promise!Refuse(r0) \/ UNCHANGED Promise!vars
    BY <1>7, RefusedIsEarly, PromiseRests DEF ClaimStep, Claim
  <1>8. ASSUME NEW r0 \in Requests, CloseStep(r0)
        PROVE  Promise!Refuse(r0) \/ Promise!Complete(r0)
    <2>1. CASE End(r0, "drop", "refused") \/ End(r0, "reject", "rejected")
      BY <1>8, <2>1, RefusedIsEarly DEF CloseStep
    <2>2. CASE End(r0, "book", "ok")
      <3>1. place[r0] = "book" /\ reply' = [reply EXCEPT ![r0] = "ok"]
        BY <2>2 DEF End, Goto
      <3>2. "output" \in Given[r0] \/ chain = "solana"
        BY <3>1 DEF IInv, BehindIt, Sent, Given
      <3>3. reply[r0] = "none"
        BY <3>1 DEF IInv, OutIsSeen
      <3>4. UNCHANGED <<chain, moved, target, tx, refund, hit>> /\ Given' = Given
        BY <1>8 DEF CloseStep, Given
      <3> QED BY <3>1, <3>2, <3>3, <3>4 DEF Promise!Complete, Promise!Tell, Cut
    <2> QED BY <1>8, <2>1, <2>2 DEF CloseStep, Close
  <1>9. ASSUME NEW r0 \in Requests,
               MarkStep(r0) \/ BeforeStep(r0) \/ AfterStep(r0) \/ Crash(r0)
        PROVE  UNCHANGED Promise!vars
    BY <1>9, PromiseRests DEF MarkStep, MarkFailed, AfterMark, BeforeStep, AfterStep,
       Crash
  <1>10. ASSUME NEW r0 \in Requests, NEW k0 \in Calls, SendStep(r0, k0)
         PROVE  UNCHANGED Promise!vars
    <2>1. \A r \in Requests : tx'[r]["out"] = "landed" <=> tx[r]["out"] = "landed"
      <3>1. k0 = "out" => tx[r0]["out"] = "none"
        BY <1>10 DEF SendStep, Send, Goto, Sending, IInv, TransferIsLast
      <3> QED BY <1>10, <3>1 DEF SendStep, Send, IInv, TypeOK, Calls
    <2> QED BY <1>10, <2>1, TransactionRests DEF SendStep, Send
  <1>11. ASSUME NEW r0 \in Requests, NEW k0 \in Calls, ReturnsStep(r0, k0)
         PROVE  UNCHANGED Promise!vars
    BY <1>11, PromiseRests DEF ReturnsStep, Returns
  <1>12. ASSUME NEW r0 \in Requests, NEW k0 \in Calls, LosesStep(r0, k0)
         PROVE  Promise!Lose(r0) \/ UNCHANGED Promise!vars
    <2>1. UNCHANGED <<chain, moved, target, reply, tx, refund>> /\ Given' = Given
      BY <1>12 DEF LosesStep, Loses, Given
    <2>2. CASE UNCHANGED hit
      BY <2>1, <2>2, PromiseRests
    <2>3. CASE Hit(r0, k0)
      <3>1. {x \in Requests : Cut(x)'} = {x \in Requests : Cut(x)}
        BY <2>3 DEF Hit, Cut, IInv, TypeOK, Calls
      <3>2. CASE k0 = "out"
        <4>1. {x \in Requests : "out" \in hit'[x]} =
                  {x \in Requests : "out" \in hit[x]} \union {r0}
          BY <2>3, <3>2 DEF Hit, IInv, TypeOK
        <4>2. reply[r0] = "none" /\ target[r0] # None
          BY <1>12, <3>2, NoneAssumption
             DEF LosesStep, Loses, Goto, Waiting, IInv, OutIsSeen, Placed
        <4> QED BY <2>1, <3>1, <4>1, <4>2 DEF Promise!Lose
      <3>3. CASE k0 # "out"
        <4>1. {x \in Requests : "out" \in hit'[x]} = {x \in Requests : "out" \in hit[x]}
          BY <2>3, <3>3 DEF Hit, IInv, TypeOK
        <4> QED BY <2>1, <3>1, <4>1 DEF Promise!vars
      <3> QED BY <3>2, <3>3
    <2> QED BY <1>12, <2>2, <2>3 DEF LosesStep, Loses
  <1>13. ASSUME NEW r0 \in Requests, RefundStep(r0)
         PROVE  Promise!Refund(r0) \/ Promise!Fail(r0)
    <2>1. place[r0] = "refund" /\ reply' = [reply EXCEPT ![r0] = "failed"]
      BY <1>13 DEF RefundStep, RecordRefund, End, Goto
    <2>2. UNCHANGED <<chain, moved, target, tx>>
      BY <1>13 DEF RefundStep
    <2>3. CASE refund' = [refund EXCEPT ![r0] = Input + Fee] /\ UNCHANGED hit
      <3>1. Input + Fee > 0
        BY Amounts
      <3>2. refund'[r0] > 0 /\ \A x \in Requests \ {r0} : refund'[x] = refund[x]
        BY <2>3, <3>1 DEF IInv, TypeOK
      <3>3. ~ (refund[r0] > 0)
        BY <2>1 DEF IInv, TransferIsLast
      <3>4. target[r0] # None /\ Promise!IsFirst(r0)
        BY <2>2, <3>2, FirstGiven DEF IInv
      <3>5. "refund" \notin Given[r0]
        BY <3>3 DEF Given
      <3>6. Given' = [Given EXCEPT ![r0] = @ \union {"refund"}]
        BY <2>2, <3>2, <3>3 DEF Given
      <3>7. "output" \in Given[r0] => "out" \in hit[r0]
        BY <2>1 DEF IInv, TransferIsLast, Given
      <3>8. reply[r0] = "none"
        BY <2>1 DEF IInv, OutIsSeen
      <3> QED BY <2>1, <2>2, <2>3, <3>4, <3>5, <3>6, <3>7, <3>8
           DEF Promise!Refund, Promise!Give, Promise!Tell, Cut
    <2>4. CASE UNCHANGED refund /\ Hit(r0, "query")
      BY <2>1, <2>2, <2>4, FailedCut
    <2> QED BY <1>13, <2>3, <2>4 DEF RefundStep, RecordRefund
  <1>14. ASSUME NEW r0 \in Requests, FaultStep(r0)
         PROVE  Promise!Fail(r0)
    <2>1. place[r0] # "done" /\ reply' = [reply EXCEPT ![r0] = "failed"] /\ Hit(r0, "query")
      BY <1>14 DEF FaultStep, QueryFault, AfterQueryFault, End
    <2> QED BY <1>14, <2>1, FailedCut DEF FaultStep
  <1>15. ASSUME NEW r0 \in Requests, NEW k0 \in Calls, Reverts(r0, k0)
         PROVE  UNCHANGED Promise!vars
    <2>1. \A r \in Requests : tx'[r]["out"] = "landed" <=> tx[r]["out"] = "landed"
      BY <1>15 DEF Reverts, IInv, TypeOK, Calls
    <2> QED BY <1>15, <2>1, TransactionRests DEF Reverts
  <1>16. ASSUME NEW r0 \in Requests, NEW k0 \in Calls, NEW y0 \in Yields, Lands(r0, k0, y0)
         PROVE  Promise!Deliver(r0) \/ UNCHANGED Promise!vars
    <2>1. /\ tx[r0][k0] = "flying" /\ tx' = [tx EXCEPT ![r0][k0] = "landed"]
          /\ UNCHANGED <<chain, moved, target, reply, refund, hit>>
      BY <1>16 DEF Lands
    <2>2. CASE k0 # "out"
      <3>1. \A r \in Requests : tx'[r]["out"] = "landed" <=> tx[r]["out"] = "landed"
        BY <2>1, <2>2 DEF IInv, TypeOK, Calls
      <3> QED BY <2>1, <3>1, TransactionRests
    <2>3. CASE k0 = "out"
      <3>1. /\ tx'[r0]["out"] = "landed"
            /\ \A x \in Requests \ {r0} : tx'[x] = tx[x]
        BY <2>1, <2>3 DEF IInv, TypeOK, Calls
      <3>2. target[r0] # None /\ Promise!IsFirst(r0)
        BY <2>1, <3>1, FirstGiven DEF IInv
      <3>3. "output" \notin Given[r0]
        BY <2>1, <2>3 DEF Given
      <3>4. Given' = [Given EXCEPT ![r0] = @ \union {"output"}]
        BY <2>1, <2>3, <3>1 DEF Given
      <3>5. reply[r0] = "none" \/ "out" \in hit[r0]
        BY <2>1, <2>3 DEF IInv, OutIsSeen
      <3> QED BY <2>1, <3>2, <3>3, <3>4, <3>5 DEF Promise!Deliver, Promise!Give, Cut
    <2> QED BY <2>2, <2>3
  <1>17. CASE UNCHANGED vars
    BY <1>17, PromiseRests DEF vars
  <1>18. ASSUME NEW r0 \in Requests, EscapesStep(r0)
         PROVE  Promise!Fail(r0)
    <2>1. place[r0] # "done" /\ reply' = [reply EXCEPT ![r0] = "failed"] /\ Hit(r0, "throw")
      BY <1>18 DEF EscapesStep, Escapes, NoAddress, End
    <2> QED BY <1>18, <2>1, FailedCut DEF EscapesStep
  <1>19. ASSUME NEW m0 \in Others, OthersMove(m0)
         PROVE  UNCHANGED Promise!vars
    BY <1>19, PromiseRests DEF OthersMove
  <1> QED
    BY <1>1, <1>2, <1>3, <1>4, <1>5, <1>6, <1>7, <1>8, <1>9, <1>10, <1>11, <1>12,
       <1>13, <1>14, <1>15, <1>16, <1>17, <1>18, <1>19, NextCases, Zenon DEF StepOf, Promise!Next

(* Executions keep the promise made to those who pay for a quote, for any  *)
(* number of quotes and requests, in either direction on either chain.     *)
THEOREM Refinement == Spec => Implements
  <1>1. Init => Promise!Init
    BY DEF Init, Promise!Init, Given, Cut, Calls
  <1>2. IInv /\ IInv' /\ [Next]_vars => [Promise!Next]_(Promise!vars)
    BY PromiseStep
  <1> QED BY <1>1, <1>2, Inductive, PTL DEF Spec, Implements, Promise!Spec

(* What QuoteEscrow_proofs proves of the promise, said of this one.        *)
Kept == INSTANCE QuoteEscrow_proofs WITH
    got <- Given,
    lost <- {r \in Requests : "out" \in hit[r]},
    faulty <- {r \in Requests : Cut(r)},
    blind <- chain = "solana"

(* Of those who pay for a quote one at most is given anything, output or   *)
(* refund, and what each is told of it is so, but of an execution that a   *)
(* failed query or a throw cut short.                                      *)
THEOREM BuyersAreTreatedFairly == Spec => []Promise!Fair
  <1>1. Promise!Init => Kept!Init
    BY DEF Promise!Init, Kept!Init
  <1>2. [Promise!Next]_(Promise!vars) => [Kept!Next]_(Kept!vars)
    BY DEF Promise!vars, Kept!vars, Promise!Next, Kept!Next, Promise!Ask,
       Kept!Ask, Promise!Refuse, Kept!Refuse, Promise!Deliver, Kept!Deliver,
       Promise!Lose, Kept!Lose, Promise!Complete, Kept!Complete, Promise!Refund,
       Kept!Refund, Promise!Fail, Kept!Fail, Promise!Give, Kept!Give, Promise!Tell,
       Kept!Tell, Promise!IsFirst, Kept!IsFirst
  <1>3. Kept!Fair => Promise!Fair
    BY DEF Promise!Fair, Kept!Fair
  <1> QED BY <1>1, <1>2, <1>3, Refinement, Kept!FairHolds, PTL
          DEF Implements, Promise!Spec, Kept!Spec
=============================================================================
