---------------------------- MODULE ProxyRequest ----------------------------
(***************************************************************************)
(* apps/proxy/src/handler.ts from the moment the buyer's payment settles:  *)
(* the request is dispatched to an internal handler, to the upstream API,  *)
(* or to an upstream that wants an x402 payment of its own                 *)
(* (upstream-x402.ts), and a failure leaves a refunds_pending row for the  *)
(* buyer. Composed with RefundWorker, whose rows are the rows that the     *)
(* requests insert: a request inserts at most one.                         *)
(***************************************************************************)
EXTENDS RefundWorker

CONSTANTS
    Requests,  \* the proxy requests whose payment was accepted
    Configs,   \* the proxied endpoints
    Payments,  \* buyers' payments: replays make requests share one
    Hashed     \* those the facilitator named a transaction for

ASSUME RequestAssumption ==
    /\ Rows = Requests
    /\ SwapRows = {}
    /\ Hashed \subseteq Payments

VARIABLES
    place,     \* where each request is
    config,    \* the endpoint it is for
    pay,       \* the buyer's payment it was accepted for
    reply,     \* the answer's status, as far as it is known
    spent,     \* whether the X-PAYMENT retry went out to the upstream
    outbound,  \* the row of that spend in facilitator_payments
    hit        \* what was cut short: its outbound row, its refund, a body,
               \* or the call at a price that is no number

requestVars == <<place, config, pay, reply, spent, outbound, hit>>
vars == <<requestVars, refundVars>>

-----------------------------------------------------------------------------
Init ==
    /\ RefundInit
    /\ place = [r \in Requests |-> "idle"]
    /\ config = [r \in Requests |-> None]
    /\ pay = [r \in Requests |-> None]
    /\ reply = [r \in Requests |-> "none"]
    /\ spent = [r \in Requests |-> FALSE]
    /\ outbound = [r \in Requests |-> "none"]
    /\ hit = [r \in Requests |-> {}]

Goto(r, from, to) ==
    /\ place[r] = from
    /\ place' = [place EXCEPT ![r] = to]

Hit(r, f) == hit' = [hit EXCEPT ![r] = @ \union {f}]

(* The requests that the unique index takes for the same obligation: of    *)
(* one endpoint, their payments of one transaction hash.                   *)
SameKey(q, r) ==
    config[q] = config[r] /\ pay[q] = pay[r] /\ pay[r] \in Hashed

(* The rows that stand for r's payment: its own, or the one that the index *)
(* collapses it with.                                                      *)
RowsFor(r) ==
    {q \in Requests : status[q] # "none" /\ (q = r \/ SameKey(q, r))}

(* Mutant: there is no unique index on (proxy_config_id, buyer_tx_hash).    *)
RecordRefundAlways(r) == AddRow(r)

(* recordRefundPending: ON CONFLICT DO NOTHING, where there is a hash.     *)
RecordRefundPending(r) ==
    IF RowsFor(r) = {} THEN AddRow(r) ELSE UNCHANGED rowVars

-----------------------------------------------------------------------------
(* runProtocol or the MPP rail accepts the buyer's payment.                *)
Accept(r, c, p) ==
    /\ Goto(r, "idle", "dispatch")
    /\ config' = [config EXCEPT ![r] = c]
    /\ pay' = [pay EXCEPT ![r] = p]
    /\ UNCHANGED <<reply, spent, outbound, hit, refundVars>>

(* The request goes on from one place to another, its reply known.         *)
Proceed(r, from, to, res) ==
    /\ Goto(r, from, to)
    /\ reply' = [reply EXCEPT ![r] = res]
    /\ UNCHANGED <<pay, config, spent, outbound, hit, refundVars>>

(* An unknown handler, undecryptable headers, an incomplete configuration. *)
Misconfigured(r) == Proceed(r, "dispatch", "log", "5xx")

CallHandler(r) ==
    \/ Proceed(r, "dispatch", "log", "5xx")
    \/ \E res \in {"ok", "5xx"} : Proceed(r, "dispatch", "book", res)

(* The plain upstream: unreachable, or an answer whose body is to be read. *)
CallUpstream(r) ==
    \/ Proceed(r, "dispatch", "log", "5xx")
    \/ \E res \in {"ok", "5xx"} : Proceed(r, "dispatch", "body", res)

(* callUpstreamWithX402 up to its own payment: an answer that wants none   *)
(* (never a 5xx), an error, or a challenge it can sign.                    *)
CallUpstreamWithX402(r) ==
    \/ Proceed(r, "dispatch", "body", "ok")
    \/ Proceed(r, "dispatch", "refund", "5xx")
    \/ Proceed(r, "dispatch", "open", "none")

(* A throw that nothing in handle() catches: the buyer gets a 500, and the *)
(* enqueue is not reached.                                                 *)
Uncaught(r, f) ==
    /\ reply' = [reply EXCEPT ![r] = "5xx"]
    /\ Hit(r, f)
    /\ UNCHANGED <<pay, config, spent, outbound, refundVars>>

(* BigInt() of the challenge's amount, only known to be a string, where    *)
(* the endpoint has a price cap.                                           *)
PriceUnreadable(r) == Goto(r, "dispatch", "done") /\ Uncaught(r, "price")

(* recorder.start, best effort.                                            *)
StartOutbound(r) ==
    /\ Goto(r, "open", "pay")
    /\ \/ outbound' = [outbound EXCEPT ![r] = "pending"] /\ UNCHANGED hit
       \/ UNCHANGED outbound /\ Hit(r, "outbound")
    /\ UNCHANGED <<pay, config, reply, spent, refundVars>>

(* The retry that carries our payment: it throws, or its body is to be     *)
(* read before recorder.finish.                                            *)
PayUpstream(r) ==
    /\ \E next \in {<<"finish", "5xx">>, <<"paid", "5xx">>, <<"paid", "ok">>} :
        /\ Goto(r, "pay", next[1])
        /\ reply' = [reply EXCEPT ![r] = next[2]]
    /\ spent' = [spent EXCEPT ![r] = TRUE]
    /\ UNCHANGED <<pay, config, outbound, hit, refundVars>>

ReadBody(r) ==
    /\ Goto(r, "body", "book") \/ Goto(r, "paid", "finish")
    /\ UNCHANGED <<pay, config, reply, spent, outbound, hit, refundVars>>

(* arrayBuffer() throws.                                                   *)
BodyCut(r) ==
    /\ Goto(r, "body", "done") \/ Goto(r, "paid", "done")
    /\ Uncaught(r, "body")

(* Mutant: only the success of the retry is recorded.                      *)
OutcomeOfSuccess(r) == IF reply[r] = "ok" THEN "settled" ELSE outbound[r]

Outcome(r) == IF reply[r] = "ok" THEN "settled" ELSE "failed"

(* recorder.finish, best effort; no row, no finish.                        *)
FinishOutbound(r) ==
    /\ Goto(r, "finish", IF reply[r] = "ok" THEN "book" ELSE "refund")
    /\ \/ /\ outbound[r] = "pending"
          /\ outbound' = [outbound EXCEPT ![r] = Outcome(r)]
          /\ UNCHANGED hit
       \/ outbound[r] = "pending" /\ UNCHANGED outbound /\ Hit(r, "outbound")
       \/ outbound[r] = "none" /\ UNCHANGED <<outbound, hit>>
    /\ UNCHANGED <<pay, config, reply, spent, refundVars>>

-----------------------------------------------------------------------------
(* Mutant: a 5xx that is passed through is only logged.                     *)
AfterBookDone(r) == "done"

AfterBook(r) == IF reply[r] = "5xx" THEN "enqueue" ELSE "done"

(* recordSettledWithInboundLink swallows its errors; the response's 5xx is *)
(* the buyer's loss.                                                       *)
Book(r) ==
    /\ Goto(r, "book", AfterBook(r))
    /\ UNCHANGED <<pay, config, reply, spent, outbound, hit, refundVars>>

(* logProxyRequest in the error branches is not guarded: when it throws,   *)
(* the enqueue after it is never reached.                                  *)
LogError(r) ==
    /\ \/ Goto(r, "log", "enqueue") /\ UNCHANGED hit
       \/ Goto(r, "log", "done") /\ Hit(r, "refund")
       \/ Goto(r, "logged", "done") /\ UNCHANGED hit
    /\ UNCHANGED <<pay, config, reply, spent, outbound, refundVars>>

(* enqueueRefundPending and the refundPendingRecorder of upstream-x402:    *)
(* both swallow a query's error.                                           *)
EnqueueRefund(r) ==
    /\ Goto(r, "enqueue", "done") \/ Goto(r, "refund", "logged")
    /\ \/ RecordRefundPending(r) /\ UNCHANGED hit
       \/ UNCHANGED rowVars /\ Hit(r, "refund")
    /\ UNCHANGED <<pay, config, reply, spent, outbound, transfers, workVars, faults>>

ProcessDies(r) ==
    /\ place[r] \notin {"idle", "done", "dead"}
    /\ place' = [place EXCEPT ![r] = "dead"]
    /\ UNCHANGED <<pay, config, reply, spent, outbound, hit, refundVars>>

-----------------------------------------------------------------------------
Handle(r) ==
    \/ \E c \in Configs, p \in Payments : Accept(r, c, p)
    \/ Misconfigured(r) \/ CallHandler(r) \/ CallUpstream(r)
    \/ CallUpstreamWithX402(r) \/ PriceUnreadable(r)
    \/ StartOutbound(r) \/ PayUpstream(r) \/ FinishOutbound(r)
    \/ ReadBody(r) \/ BodyCut(r)
    \/ Book(r) \/ LogError(r) \/ EnqueueRefund(r)
    \/ ProcessDies(r)

Next ==
    \/ \E r \in Requests : Handle(r)
    \/ Drain /\ UNCHANGED requestVars

Spec == Init /\ [][Next]_vars

-----------------------------------------------------------------------------
TypeOK ==
    /\ RefundTypeOK
    /\ place \in [Requests ->
           {"idle", "dispatch", "body", "open", "pay", "paid", "finish", "book",
            "log", "logged", "refund", "enqueue", "done", "dead"}]
    /\ config \in [Requests -> Configs \union {None}]
    /\ pay \in [Requests -> Payments \union {None}]
    /\ reply \in [Requests -> {"none", "ok", "5xx"}]
    /\ spent \in [Requests -> BOOLEAN]
    /\ outbound \in [Requests -> {"none", "pending", "settled", "failed"}]
    /\ hit \in [Requests -> SUBSET {"outbound", "refund", "body", "price"}]

(* A buyer who has paid and is answered with a failure of ours has a       *)
(* refund on file, unless a query or the reading of a body failed or the   *)
(* upstream's price was no number: every other branch of handle() and of   *)
(* the upstream call leads to an enqueue.                                  *)
FailureIsQueued ==
    \A r \in Requests : place[r] = "done" /\ reply[r] = "5xx" =>
        RowsFor(r) # {} \/ hit[r] \intersect {"refund", "body", "price"} # {}

(* Requests that replay one payment with a transaction hash at one         *)
(* endpoint are paid back through one row only, whichever of them fail and *)
(* whenever the worker comes by between their inserts. (At two endpoints   *)
(* they are two obligations, and the payment is paid back twice.)          *)
PaidBackOnce ==
    \A q, r \in Requests :
        /\ SameKey(q, r)
        /\ transfers[q] # <<>>
        /\ transfers[r] # <<>>
        => q = r

(* What we spent at an upstream is on file with its outcome when the       *)
(* request ends, whether or not the upstream delivered, unless a query or  *)
(* the reading of a body failed.                                           *)
SpendIsOnFile ==
    \A r \in Requests : place[r] = "done" /\ spent[r] =>
        \/ outbound[r] = IF reply[r] = "ok" THEN "settled" ELSE "failed"
        \/ hit[r] \intersect {"outbound", "body"} # {}

(* handler.ts: every post-settle failure path leaves a refunds_pending row *)
(* behind, database errors excepted. A body that is cut off does not (nor  *)
(* does a price that is no number, left out here).                         *)
FailureAlwaysQueued ==
    \A r \in Requests : place[r] = "done" /\ reply[r] = "5xx" =>
        RowsFor(r) # {} \/ hit[r] \intersect {"refund", "price"} # {}
=============================================================================
