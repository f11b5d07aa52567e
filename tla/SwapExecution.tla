---------------------------- MODULE SwapExecution ----------------------------
(***************************************************************************)
(* apps/proxy/src/swap.ts and swap-base.ts: a buyer asks for a quote, pays *)
(* for its execution, and the proxy's one wallet per chain swaps and sends *)
(* on what the swap bought, measured as a difference of its own balance.   *)
(* The quote's row (swap-store.ts) goes from quoted to executing to an     *)
(* end; an execution that fails leaves a row in swap_refunds.              *)
(*                                                                         *)
(* The two files are one algorithm on two chains. Every await is a place   *)
(* where other requests may run. A transaction that was sent may land,     *)
(* revert or stay in flight, whatever its sender is told. Some conversions *)
(* of what the aggregator or the row holds stand outside any try: where    *)
(* they throw, the execution ends with neither output nor refund.          *)
(***************************************************************************)
EXTENDS Integers, FiniteSets

CONSTANTS
    Quotes,    \* the quotes handed out
    Requests,  \* POST .../execute/:quoteId requests
    Input,     \* what a quote swaps, of its input token
    Fee,       \* what its execution costs, in USDC
    Floor,     \* the least a swap may buy, of its output token
    Yields,    \* what one that lands may buy
    Others,    \* what else moves the wallet, each once: [token, amount]
    MaxFaults, \* faults in all: bounds the behaviours
    None       \* no quote

ASSUME AmountAssumption ==
    /\ {Input, Fee, Floor} \subseteq Nat \ {0}
    /\ Yields \subseteq Nat
    /\ MaxFaults \in Nat
ASSUME OthersAssumption == Others \subseteq [token : {"usdc", "token"}, amount : Int]
ASSUME NoneAssumption == None \notin Quotes \union Requests

VARIABLES
    chain,    \* the chain whose wallet this is
    moved,    \* the moves of Others that were made
    dir,      \* of each quote: "forward" spends USDC, "reverse" buys it,
              \* "foreign" is a quote of the other chain
    quote,    \* status of each quote's row; "none" before it is inserted
    stale,    \* whether its expires_at has passed
    wallet,   \* the swap wallet's balance of USDC and of the other token
    place,    \* where each request is
    target,   \* the quote it executes
    paid,     \* whether its payment was settled
    tx,       \* its transactions, by what became of them
    pre,      \* preBalance
    amount,   \* delivered
    reply,    \* the answer
    refund,   \* the amount of the row it has left in swap_refunds
    bought,   \* history: what its swap has credited
    crossed,  \* history: its balance difference holds others' moves
    hit       \* history: a failed query or a throw cut it short; a
              \* transaction it lost

rowVars == <<dir, quote, stale>>
runVars == <<place, target, paid, pre, amount, reply>>
vars == <<chain, moved, rowVars, wallet, runVars, tx, refund, bought, crossed, hit>>

Tokens == {"usdc", "token"}
Calls == {"pull", "swap", "out"}

-----------------------------------------------------------------------------
Init ==
    /\ chain \in {"solana", "base"}
    /\ moved = {}
    /\ dir = [q \in Quotes |-> "forward"]
    /\ quote = [q \in Quotes |-> "none"]
    /\ stale = [q \in Quotes |-> FALSE]
    /\ wallet = [t \in Tokens |-> 0]
    /\ place = [r \in Requests |-> "idle"]
    /\ target = [r \in Requests |-> None]
    /\ paid = [r \in Requests |-> FALSE]
    /\ tx = [r \in Requests |-> [k \in Calls |-> "none"]]
    /\ pre = [r \in Requests |-> 0]
    /\ amount = [r \in Requests |-> 0]
    /\ reply = [r \in Requests |-> "none"]
    /\ refund = [r \in Requests |-> 0]
    /\ bought = [r \in Requests |-> 0]
    /\ crossed = [r \in Requests |-> FALSE]
    /\ hit = [r \in Requests |-> {}]

(* isReverse: the input is not this chain's USDC. No query asks for the    *)
(* network of a quote, so the other chain's may be paid for here.          *)
Reverse(r) == dir[target[r]] # "forward"
Foreign(r) == dir[target[r]] = "foreign"
InOf(r) == IF Reverse(r) THEN "token" ELSE "usdc"
OutOf(r) == IF Reverse(r) THEN "usdc" ELSE "token"

(* The requests between their two balance reads of token t.                *)
Measuring(t) ==
    {r \in Requests :
        place[r] \in {"build", "swap", "swapping", "post"} /\ OutOf(r) = t}

(* r moves tokens t: whoever else is measuring them has it in the result.  *)
Cross(r, ts) ==
    crossed' = [x \in Requests |->
        crossed[x] \/ \E t \in ts : x \in Measuring(t) \ {r}]

Goto(r, from, to) ==
    /\ place[r] = from
    /\ place' = [place EXCEPT ![r] = to]

End(r, from, res) ==
    /\ Goto(r, from, "done")
    /\ reply' = [reply EXCEPT ![r] = res]

Hit(r, f) == hit' = [hit EXCEPT ![r] = @ \union {f}]

(* Failed queries and dead processes count as faults.                      *)
MayFault ==
    Cardinality({r \in Requests : place[r] = "dead" \/ "query" \in hit[r]})
        < MaxFaults

-----------------------------------------------------------------------------
(* The wallet is also paid for quotes, settles other payments and pays     *)
(* refunds, all of which move its balance.                                 *)
OthersMove(m) ==
    /\ m \in Others \ moved
    /\ wallet[m.token] + m.amount >= 0
    /\ moved' = moved \union {m}
    /\ wallet' = [wallet EXCEPT ![m.token] = @ + m.amount]
    /\ Cross(None, {m.token})
    /\ UNCHANGED <<chain, rowVars, runVars, tx, refund, bought, hit>>

(* POST .../quote, of this chain or of the other; its micro-payment into   *)
(* the wallet is one of the others' moves.                                 *)
InsertQuote(q, d) ==
    /\ quote[q] = "none"
    /\ quote' = [quote EXCEPT ![q] = "quoted"]
    /\ dir' = [dir EXCEPT ![q] = d]
    /\ UNCHANGED <<chain, moved, stale, wallet, runVars, tx, refund, bought, crossed, hit>>

(* QUOTE_TTL_SECONDS pass, which only matters to a row that is quoted.     *)
Expire(q) ==
    /\ quote[q] = "quoted"
    /\ ~stale[q]
    /\ stale' = [stale EXCEPT ![q] = TRUE]
    /\ UNCHANGED <<chain, moved, dir, quote, wallet, runVars, tx, refund, bought,
                   crossed, hit>>

(* What findByQuoteId tells, read by the route before the payment and by   *)
(* the execution after it.                                                 *)
Read(r, q, from, next) ==
    IF quote[q] = "quoted"
    THEN /\ Goto(r, from, IF stale[q] THEN "drop" ELSE next)
         /\ UNCHANGED reply
    ELSE End(r, from, "refused")

Look(r, q) ==
    /\ quote[q] # "none"
    /\ target' = [target EXCEPT ![r] = q]
    /\ Read(r, q, "idle", "pay")
    /\ UNCHANGED <<chain, moved, rowVars, wallet, paid, pre, amount, tx, refund, bought,
                   crossed, hit>>

(* runProtocol: refused, or settled into the wallet, by an address of the  *)
(* chain or by some other payer.                                           *)
Pay(r) ==
    \/ /\ End(r, "pay", "refused")
       /\ UNCHANGED <<paid, wallet, crossed>>
    \/ /\ Goto(r, "pay", "find") \/ Goto(r, "pay", "reject")
       /\ paid' = [paid EXCEPT ![r] = TRUE]
       /\ wallet' = [wallet EXCEPT !["usdc"] =
              @ + Fee + IF Reverse(r) THEN 0 ELSE Input]
       /\ Cross(r, {"usdc"})
       /\ UNCHANGED reply

Find(r) == place[r] = "find" /\ Read(r, target[r], "find", "claim")

(* Mutant: the UPDATE has no condition on the status.                      *)
TakenNever(r) == FALSE

Taken(r) == quote[target[r]] # "quoted"

(* markExecuting: UPDATE ... WHERE status = 'quoted'.                      *)
Claim(r) ==
    /\ place[r] = "claim"
    /\ \/ /\ Taken(r)
          /\ End(r, "claim", "refused")
          /\ UNCHANGED quote
       \/ /\ ~Taken(r)
          /\ Goto(r, "claim", IF Reverse(r) THEN "approval" ELSE "requote")
          /\ quote' = [quote EXCEPT ![target[r]] = "executing"]
          /\ UNCHANGED reply

(* Base sets its allowance for the router before it reads the balance,     *)
(* Solana has its transaction built after it.                              *)
Ready == IF chain = "base" THEN "approve" ELSE "pre"

(* Mutant: a quote that has drifted is answered and left as it is.         *)
AfterDriftLeft(r) == "done"

AfterDrift(r) == "fail"

(* The awaits up to the transactions, as far as they go well: the buyer's  *)
(* approval (or what is missing of it), the fresh quote (or its drift).    *)
Prepare(r) ==
    /\ \/ /\ Goto(r, "approval", "requote") \/ Goto(r, "approval", "fail")
          /\ ~Foreign(r)
       \/ Goto(r, "requote", IF Reverse(r) THEN "pull" ELSE Ready)
       \/ Goto(r, "requote", AfterDrift(r))
       \/ Goto(r, "approve", "pre")
       \/ Goto(r, "build", "swap")
    /\ UNCHANGED reply

(* Mutant: the balance before the swap is taken to be zero.                *)
BalanceZero(r) == 0

Balance(r) == wallet[OutOf(r)]

ReadBefore(r) ==
    /\ place[r] = "pre"
    /\ Goto(r, "pre", IF chain = "base" THEN "swap" ELSE "build")
    /\ pre' = [pre EXCEPT ![r] = Balance(r)]

Gain(r) ==
    IF wallet[OutOf(r)] > pre[r] THEN wallet[OutOf(r)] - pre[r] ELSE 0

ReadAfter(r) ==
    /\ place[r] = "post"
    /\ Goto(r, "post", IF Gain(r) < Floor THEN "fail" ELSE "out")
    /\ amount' = [amount EXCEPT ![r] = Gain(r)]

(* getAddress of a Solana mint throws on Base, before the approval is read.*)
NoAddress(r) == place[r] = "approval" /\ Foreign(r) /\ chain = "base"

(* A call of the chain, of the aggregator or of the wallet throws before   *)
(* anything was sent, or while a balance is read: handleFailure.           *)
Throws(r) ==
    /\ ~NoAddress(r)
    /\ place[r] \in {"approval", "requote", "pull", "approve", "pre", "build",
                     "swap", "post", "out"}
    /\ place' = [place EXCEPT ![r] = "fail"]

(* A conversion outside any try throws past handleFailure, out of the      *)
(* execution: an amount of the aggregator's that is not a number, fresh or *)
(* as the floor of what the swap may buy, a router that is not an address, *)
(* a mint of the other chain. The route answers 500.                       *)
Escapes(r) ==
    /\ NoAddress(r) \/ place[r] \in {"requote", "approve", "build", "post"}
    /\ End(r, place[r], "failed")
    /\ Hit(r, "throw")

-----------------------------------------------------------------------------
(* The place that sends each transaction, the one that waits for it, and   *)
(* the one after it.                                                       *)
Sending == [k \in Calls |-> k]
Waiting == [pull |-> "pulling", swap |-> "swapping", out |-> "outing"]
After(k) == CASE k = "pull" -> Ready [] k = "swap" -> "post" [] k = "out" -> "book"

Send(r, k) ==
    /\ Goto(r, Sending[k], Waiting[k])
    /\ tx' = [tx EXCEPT ![r][k] = "flying"]
    /\ UNCHANGED hit

(* Mutant: the swap's status on chain is not looked at.                    *)
ConfirmsAny(k, s) == s # "flying"

(* On Solana transferOutput does not look at a confirmed transaction's     *)
(* error; every other call does.                                           *)
Confirms(k, s) ==
    \/ s = "landed"
    \/ s = "reverted" /\ k = "out" /\ chain = "solana"

Returns(r, k) ==
    /\ Confirms(k, tx[r][k])
    /\ Goto(r, Waiting[k], After(k))
    /\ UNCHANGED <<tx, hit>>

(* A timeout or an RPC error: nothing is known of the transaction.         *)
Loses(r, k) ==
    /\ Goto(r, Waiting[k], "fail")
    /\ IF tx[r][k] = "reverted" THEN UNCHANGED hit ELSE Hit(r, k)
    /\ UNCHANGED tx

(* The chain: a transaction in flight moves its tokens, or reverts.        *)
Lands(r, k, y) ==
    /\ tx[r][k] = "flying"
    /\ tx' = [tx EXCEPT ![r][k] = "landed"]
    /\ \/ /\ k = "pull"
          /\ wallet' = [wallet EXCEPT ![InOf(r)] = @ + Input]
          /\ Cross(r, {InOf(r)})
          /\ UNCHANGED bought
       \/ /\ k = "swap"
          /\ wallet[InOf(r)] >= Input
          /\ wallet' = [wallet EXCEPT ![InOf(r)] = @ - Input, ![OutOf(r)] = @ + y]
          /\ Cross(r, Tokens)
          /\ bought' = [bought EXCEPT ![r] = y]
       \/ /\ k = "out"
          /\ wallet[OutOf(r)] >= amount[r]
          /\ wallet' = [wallet EXCEPT ![OutOf(r)] = @ - amount[r]]
          /\ Cross(r, {OutOf(r)})
          /\ UNCHANGED bought
    /\ UNCHANGED <<chain, moved, rowVars, runVars, refund, hit>>

Reverts(r, k) ==
    /\ tx[r][k] = "flying"
    /\ tx' = [tx EXCEPT ![r][k] = "reverted"]
    /\ UNCHANGED <<chain, moved, rowVars, wallet, runVars, refund, bought, crossed, hit>>

-----------------------------------------------------------------------------
(* The UPDATE a request is about to make, whatever the row's status is.    *)
Status(r) ==
    CASE place[r] = "drop" -> "expired"
      [] place[r] = "book" -> "completed"
      [] place[r] \in {"fail", "reject"} -> "failed"

Write(r) == quote' = [quote EXCEPT ![target[r]] = Status(r)]

(* markCompleted, or markFailed of a quote that is not executed.           *)
Close(r) ==
    /\ \/ End(r, "drop", "refused")
       \/ End(r, "reject", "rejected")
       \/ End(r, "book", "ok")
    /\ Write(r)

(* Mutant: handleFailure forgets the refund.                               *)
AfterMarkEnds(r) == End(r, "fail", "failed")

AfterMark(r) == Goto(r, "fail", "refund") /\ UNCHANGED reply

(* markFailed of handleFailure, handleSlippageFailure and the two places   *)
(* that do the same by hand.                                               *)
MarkFailed(r) == AfterMark(r) /\ Write(r)

(* tryRecordRefund: the quote's input and its fee, which the refund worker *)
(* pays in the input token; the error of its INSERT is swallowed.          *)
RecordRefund(r) ==
    /\ End(r, "refund", "failed")
    /\ \/ refund' = [refund EXCEPT ![r] = Input + Fee] /\ UNCHANGED hit
       \/ MayFault /\ UNCHANGED refund /\ Hit(r, "query")

(* Mutant: what fails after the transfer goes through handleFailure, too.  *)
AfterQueryFaultFails(r) ==
    IF place[r] = "book" THEN Goto(r, "book", "fail") /\ UNCHANGED reply
    ELSE End(r, place[r], "failed")

AfterQueryFault(r) == End(r, place[r], "failed")

(* Any other query throws, its reply lost or the statement not made: the   *)
(* route answers 500.                                                      *)
QueryFault(r) ==
    /\ place[r] \in {"find", "claim", "drop", "reject", "book", "fail"}
    /\ MayFault
    /\ AfterQueryFault(r)
    /\ \/ UNCHANGED quote
       \/ place[r] = "claim" /\ ~Taken(r)
          /\ quote' = [quote EXCEPT ![target[r]] = "executing"]
       \/ place[r] \notin {"find", "claim"} /\ Write(r)
    /\ Hit(r, "query")

Crash(r) ==
    /\ place[r] \notin {"idle", "done", "dead"}
    /\ MayFault
    /\ place' = [place EXCEPT ![r] = "dead"]
    /\ UNCHANGED <<chain, moved, rowVars, wallet, target, paid, pre, amount, reply, tx,
                   refund, bought, crossed, hit>>

-----------------------------------------------------------------------------
(* What r does on its own once it was looked up.                           *)
Step(r) ==
    /\ \/ /\ Pay(r)
          /\ UNCHANGED <<quote, pre, amount, tx, refund, hit>>
       \/ /\ Find(r) \/ Prepare(r) \/ (Throws(r) /\ UNCHANGED reply)
          /\ UNCHANGED <<quote, wallet, paid, pre, amount, tx, refund, crossed, hit>>
       \/ /\ Escapes(r)
          /\ UNCHANGED <<quote, wallet, paid, pre, amount, tx, refund, crossed>>
       \/ /\ Claim(r) \/ Close(r) \/ MarkFailed(r)
          /\ UNCHANGED <<wallet, paid, pre, amount, tx, refund, crossed, hit>>
       \/ /\ ReadBefore(r)
          /\ crossed' = [crossed EXCEPT ![r] = FALSE]
          /\ UNCHANGED <<quote, wallet, paid, amount, reply, tx, refund, hit>>
       \/ /\ ReadAfter(r)
          /\ UNCHANGED <<quote, wallet, paid, pre, reply, tx, refund, crossed, hit>>
       \/ /\ \E k \in Calls : Send(r, k) \/ Returns(r, k) \/ Loses(r, k)
          /\ UNCHANGED <<quote, wallet, paid, pre, amount, reply, refund, crossed>>
       \/ /\ RecordRefund(r)
          /\ UNCHANGED <<quote, wallet, paid, pre, amount, tx, crossed>>
       \/ /\ QueryFault(r)
          /\ UNCHANGED <<wallet, paid, pre, amount, tx, refund, crossed>>
    /\ UNCHANGED <<chain, moved, dir, stale, target, bought>>

Directions == {"forward", "reverse", "foreign"}

Next ==
    \/ \E q \in Quotes : Expire(q) \/ \E d \in Directions : InsertQuote(q, d)
    \/ \E m \in Others : OthersMove(m)
    \/ \E r \in Requests :
        \/ \E q \in Quotes : Look(r, q)
        \/ Step(r) \/ Crash(r)
        \/ \E k \in Calls : Reverts(r, k) \/ \E y \in Yields : Lands(r, k, y)

Spec == Init /\ [][Next]_vars

-----------------------------------------------------------------------------
Places == {"idle", "pay", "find", "claim", "drop", "reject", "approval",
           "requote", "pull", "pulling", "approve", "pre", "build", "swap",
           "swapping", "post", "out", "outing", "book", "fail", "refund",
           "done", "dead"}

TypeOK ==
    /\ chain \in {"solana", "base"}
    /\ moved \subseteq Others
    /\ dir \in [Quotes -> Directions]
    /\ quote \in [Quotes -> {"none", "quoted", "executing", "completed",
                             "failed", "expired"}]
    /\ stale \in [Quotes -> BOOLEAN]
    /\ wallet \in [Tokens -> Nat]
    /\ place \in [Requests -> Places]
    /\ target \in [Requests -> Quotes \union {None}]
    /\ paid \in [Requests -> BOOLEAN]
    /\ tx \in [Requests -> [Calls -> {"none", "flying", "landed", "reverted"}]]
    /\ pre \in [Requests -> Nat]
    /\ amount \in [Requests -> Nat]
    /\ reply \in [Requests -> {"none", "ok", "refused", "rejected", "failed"}]
    /\ refund \in [Requests -> Nat]
    /\ bought \in [Requests -> Nat]
    /\ crossed \in [Requests -> BOOLEAN]
    /\ hit \in [Requests -> SUBSET (Calls \union {"query", "throw"})]

(* A quote is executed by one request: however many pay for it, and        *)
(* whatever overwrites its row, only one sends a transaction or leaves a   *)
(* refund for it.                                                          *)
ExecutedOnce ==
    \A q, r \in Requests :
        /\ target[q] = target[r]
        /\ \A x \in {q, r} : refund[x] > 0 \/ tx[x] # [k \in Calls |-> "none"]
        => q = r

(* A row on file as completed was swapped and sent on: on Base the buyer   *)
(* has the output, on Solana its transaction was confirmed.                *)
CompletedWasDelivered ==
    \A q \in Quotes : quote[q] = "completed" =>
        \E r \in Requests :
            /\ target[r] = q
            /\ tx[r]["swap"] = "landed"
            /\ amount[r] >= Floor
            /\ tx[r]["out"] \in {"landed"}
                  \union IF chain = "solana" THEN {"reverted"} ELSE {}

(* Cut short by a failed query, or by a conversion that no try guards.     *)
Cut(r) == "query" \in hit[r] \/ "throw" \in hit[r]

(* An execution that took the quote and ends without the output leaves a   *)
(* refund, whatever the chain, the aggregator and the wallet answer:       *)
(* unless a query failed, or what it was given had an amount that is no    *)
(* number or an address that is none.                                      *)
FailureIsRefunded ==
    \A r \in Requests : reply[r] = "failed" => refund[r] > 0 \/ Cut(r)

(* No buyer has both the output and a refund, unless the proxy lost sight  *)
(* of the transfer.                                                        *)
NotPaidTwice ==
    \A r \in Requests : refund[r] > 0 /\ tx[r]["out"] = "landed" =>
        "out" \in hit[r]

(* Executions that nothing crosses deliver exactly what their own swap     *)
(* bought, whatever failed swaps have left in the wallet. (One that is     *)
(* crossed, by another execution, by a payment in its output token or by   *)
(* whatever else moves the wallet, delivers the others' tokens as well, or *)
(* fails for want of them.)                                                *)
DeliveredIsBought ==
    \A r \in Requests : reply[r] = "ok" /\ ~crossed[r] => amount[r] = bought[r]

(* A quote does not stay in execution but for a request that is at it, a   *)
(* query that failed, a process that died or a conversion that threw       *)
(* outside any try.                                                        *)
ExecutingIsExplained ==
    \A q \in Quotes : quote[q] = "executing" =>
        \E r \in Requests : target[r] = q /\ (place[r] # "done" \/ Cut(r))

(* swap.ts: if an execution fails after the buyer's payment was taken, a   *)
(* swap_refunds row is inserted. A buyer who has paid for a quote that was *)
(* taken or has expired meanwhile gets neither output nor refund. (The     *)
(* route rejects a payer without an address before the execution.)         *)
PaidIsServedOrRefunded ==
    \A r \in Requests :
        place[r] = "done" /\ paid[r] /\ reply[r] # "rejected" =>
            reply[r] = "ok" \/ refund[r] > 0 \/ Cut(r)

(* What a request's buyer was given, on chain or in swap_refunds.          *)
Given ==
    [r \in Requests |->
        (IF tx[r]["out"] = "landed" THEN {"output"} ELSE {})
            \union (IF refund[r] > 0 THEN {"refund"} ELSE {})]

Promise == INSTANCE QuoteEscrow WITH
    got <- Given,
    lost <- {r \in Requests : "out" \in hit[r]},
    faulty <- {r \in Requests : Cut(r)},
    blind <- chain = "solana"

(* Executions keep the promise made to those who pay: whatever the awaits, *)
(* the transactions in flight and the requests that race for a quote, each *)
(* step gives, tells or loses what QuoteEscrow allows, or nothing.         *)
Implements == Promise!Spec
=============================================================================
