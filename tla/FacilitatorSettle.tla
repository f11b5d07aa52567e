------------------------- MODULE FacilitatorSettle -------------------------
(***************************************************************************)
(* POST /facilitator/settle: a resource server's settle requests, the      *)
(* facilitator_payments row that makes them idempotent, the failover over  *)
(* the route's adapters in priority order, its audit trail, and the event  *)
(* for the merchant's webhooks.                                            *)
(*                                                                         *)
(* The idempotency key is derived from the payload and the hour, not taken *)
(* from the request. A request refused before its key is derived (rate     *)
(* limit, schema, unsupported route) leaves no state and is not modelled.  *)
(***************************************************************************)
EXTENDS Integers, Sequences

CONSTANTS
    Requests,  \* the settle requests that ever reach the facilitator
    Payloads,  \* signed payments: tenant, payer and nonce
    Adapters,  \* settlement adapters
    Priority,  \* the route's enabled adapters, the primary first
    LastHour,  \* the last hour bucket: bounds the clock
    None       \* no request, no key, no adapter

ASSUME PriorityAssumption ==
    /\ Priority \in Seq(Adapters) \ {<<>>}
    /\ \A i, j \in DOMAIN Priority : Priority[i] = Priority[j] => i = j
ASSUME LastHourAssumption == LastHour \in Nat

Hours == 0..LastHour
Keys == Payloads \X Hours

ASSUME NoneAssumption ==
    /\ None \notin Requests
    /\ None \notin Keys
    /\ None \notin Adapters
    /\ None \notin [payment : Requests, status : {"settled", "refused"}]

VARIABLES
    hour,     \* the hour bucket of the clock
    pc,       \* where each request is
    key,      \* the idempotency key derived for it
    status,   \* the row it inserted in facilitator_payments
    used,     \* adapter_used of that row
    hash,     \* tx_hash of that row: "null", "empty" or "present"
    failed,   \* how many adapters it has failed over from
    outcome,  \* what the last adapter gave
    events,   \* its facilitator_failover_events: <<primary, backup>> pairs
    hook,     \* the webhook event it enqueued
    answer,   \* the response: the payment it is about and its verdict
    calls,    \* adapter calls whose transaction may still land on chain
    paidBy    \* the adapter whose transaction consumed the payload

rowVars == <<key, status, used, hash>>
workVars == <<failed, outcome, events, hook, answer>>
chainVars == <<calls, paidBy>>
vars == <<hour, pc, rowVars, workVars, chainVars>>

-----------------------------------------------------------------------------
Error == [payment |-> None, status |-> "error"]
Answers == [payment : Requests, status : {"settled", "refused"}]
Outcomes == {"hash", "nohash", "retryable", "terminal"}

Rows(k) == {q \in Requests : key[q] = k /\ status[q] # "none"}
Adapter(q) == Priority[failed[q] + 1]

OnLast(q) == failed[q] + 1 = Len(Priority)

Init ==
    /\ hour = 0
    /\ pc = [q \in Requests |-> "idle"]
    /\ key = [q \in Requests |-> None]
    /\ status = [q \in Requests |-> "none"]
    /\ used = [q \in Requests |-> None]
    /\ hash = [q \in Requests |-> "null"]
    /\ failed = [q \in Requests |-> 0]
    /\ outcome = [q \in Requests |-> "none"]
    /\ events = [q \in Requests |-> <<>>]
    /\ hook = [q \in Requests |-> "none"]
    /\ answer = [q \in Requests |-> None]
    /\ calls = {}
    /\ paidBy = [x \in Payloads |-> None]

Goto(q, from, to) ==
    /\ pc[q] = from
    /\ pc' = [pc EXCEPT ![q] = to]

(* facilitatorSettleResponse: success is true of a settled row and false   *)
(* of any other; a pending one has no error code and is answered with      *)
(* unexpected_settle_error, as a failure that nobody explained would be.   *)
Response(s) == IF s = "settled" THEN "settled" ELSE "refused"

AnswerWith(q, p) ==
    answer' = [answer EXCEPT ![q] = [payment |-> p, status |-> Response(status[p])]]

-----------------------------------------------------------------------------
(* The key is derived, and the row inserted or fetched.                    *)

(* deriveFacilitatorIdempotencyKey: an hour later it is another key.       *)
DeriveKey(x) == <<x, hour>>

Receive(q, x) ==
    /\ Goto(q, "idle", "insert")
    /\ key' = [key EXCEPT ![q] = DeriveKey(x)]
    /\ UNCHANGED <<hour, status, used, hash, workVars, chainVars>>

(* Mutant: the INSERT has no unique index to conflict with.                 *)
InsertRowAlways(q) ==
    /\ Goto(q, "insert", "settle")
    /\ status' = [status EXCEPT ![q] = "pending"]
    /\ UNCHANGED <<hour, key, used, hash, workVars, chainVars>>

(* INSERT .. ON CONFLICT (resource_key_id, idempotency_key) DO NOTHING.    *)
InsertRow(q) ==
    /\ Rows(key[q]) = {}
    /\ Goto(q, "insert", "settle")
    /\ status' = [status EXCEPT ![q] = "pending"]
    /\ UNCHANGED <<hour, key, used, hash, workVars, chainVars>>

(* Mutant: ON CONFLICT DO UPDATE SET status = 'pending'.                    *)
InsertConflictUpserts(q) ==
    /\ Rows(key[q]) # {}
    /\ Goto(q, "insert", "fetch")
    /\ status' = [p \in Requests |->
           IF p \in Rows(key[q]) THEN "pending" ELSE status[p]]
    /\ UNCHANGED <<hour, key, used, hash, workVars, chainVars>>

InsertConflict(q) ==
    /\ Rows(key[q]) # {}
    /\ Goto(q, "insert", "fetch")
    /\ UNCHANGED <<hour, rowVars, workVars, chainVars>>

(* The replay is answered with the row as it is, without waiting for the   *)
(* request that is settling it: of a pending row it is told a failure.     *)
FetchExisting(q) ==
    /\ Goto(q, "fetch", "done")
    /\ \E p \in Rows(key[q]) : AnswerWith(q, p)
    /\ UNCHANGED <<hour, rowVars, failed, outcome, events, hook, chainVars>>

-----------------------------------------------------------------------------
(* routeSettleWithFailover                                                 *)

CallAdapter(q) ==
    /\ Goto(q, "settle", "wait")
    /\ calls' = calls \union {<<q, Adapter(q)>>}
    /\ UNCHANGED <<hour, rowVars, workVars, paidBy>>

(* A retryable error, or a success without a transaction hash: not on the  *)
(* last adapter, where either is the final answer.                         *)
FailsOver(q, o) == o \in {"retryable", "nohash"} /\ ~OnLast(q)

(* What the adapter's call comes to. Only a transaction hash vouches for   *)
(* the chain: anything else may hide a transaction that did or will land.  *)
AdapterReturns(q, o) ==
    /\ Goto(q, "wait", IF FailsOver(q, o) THEN "settle" ELSE "record")
    /\ o = "hash" => paidBy[key[q][1]] = Adapter(q)
    /\ IF FailsOver(q, o)
       THEN failed' = [failed EXCEPT ![q] = @ + 1] /\ UNCHANGED outcome
       ELSE outcome' = [outcome EXCEPT ![q] = o] /\ UNCHANGED failed
    /\ UNCHANGED <<hour, rowVars, events, hook, answer, chainVars>>

(* recordFailoverEvent, for one adapter that was failed over from.         *)
RecordFailover(q) ==
    /\ Len(events[q]) < failed[q]
    /\ Goto(q, "record", "record")
    /\ events' = [events EXCEPT ![q] =
           Append(@, <<Priority[Len(@) + 1], Adapter(q)>>)]
    /\ UNCHANGED <<hour, rowVars, failed, outcome, hook, answer, chainVars>>

(* Mutant: the failover events are written behind the settle's back.        *)
AllRecordedOrNot(q) == TRUE

AllRecorded(q) == Len(events[q]) = failed[q]

(* Mutant: the adapter's hash is stored whether or not it settled.          *)
HashAfterAlways(o) == "present"

HashAfter(o) ==
    CASE o = "hash" -> "present" [] o = "nohash" -> "empty" [] OTHER -> "null"

(* finalizeFacilitatorPayment, once every failover is on record.           *)
Finalize(q) ==
    /\ AllRecorded(q)
    /\ Goto(q, "record", "notify")
    /\ status' = [status EXCEPT ![q] =
           IF outcome[q] \in {"hash", "nohash"} THEN "settled" ELSE "failed"]
    /\ used' = [used EXCEPT ![q] = Adapter(q)]
    /\ hash' = [hash EXCEPT ![q] = HashAfter(outcome[q])]
    /\ UNCHANGED <<hour, key, workVars, chainVars>>

(* enqueueSettleEvent is best effort: whether or not the event is queued,  *)
(* the resource server gets the row as finalized.                          *)
NotifyAndRespond(q) ==
    /\ Goto(q, "notify", "done")
    /\ \/ hook' = [hook EXCEPT ![q] = status[q]]
       \/ UNCHANGED hook
    /\ AnswerWith(q, q)
    /\ UNCHANGED <<hour, rowVars, failed, outcome, events, chainVars>>

-----------------------------------------------------------------------------
(* A query throws, or commits and loses its reply: the error goes to the   *)
(* resource server and the row stays as it is. Past the INSERT it stands   *)
(* for the INSERT's lost reply, and past the final UPDATE for that one's.  *)
QueryFault(q) ==
    /\ \E from \in {"insert", "fetch", "settle", "record", "notify"} :
        /\ from = "settle" => failed[q] = 0
        /\ Goto(q, from, "done")
    /\ answer' = [answer EXCEPT ![q] = Error]
    /\ UNCHANGED <<hour, rowVars, failed, outcome, events, hook, chainVars>>

Crash(q) ==
    /\ pc[q] \notin {"idle", "done", "crashed"}
    /\ pc' = [pc EXCEPT ![q] = "crashed"]
    /\ UNCHANGED <<hour, rowVars, workVars, chainVars>>

(* A transaction reaches the chain, which takes each payload once.         *)
Land(q, a) ==
    /\ <<q, a>> \in calls
    /\ paidBy[key[q][1]] = None
    /\ paidBy' = [paidBy EXCEPT ![key[q][1]] = a]
    /\ calls' = calls \ {<<q, a>>}
    /\ UNCHANGED <<hour, pc, rowVars, workVars>>

HourPasses ==
    /\ hour < LastHour
    /\ hour' = hour + 1
    /\ UNCHANGED <<pc, rowVars, workVars, chainVars>>

-----------------------------------------------------------------------------
Handle(q) ==
    \/ InsertRow(q) \/ InsertConflict(q) \/ FetchExisting(q)
    \/ CallAdapter(q)
    \/ \E o \in Outcomes : AdapterReturns(q, o)
    \/ RecordFailover(q) \/ Finalize(q) \/ NotifyAndRespond(q)

Fault(q) == QueryFault(q) \/ Crash(q)

Environment ==
    \/ HourPasses
    \/ \E q \in Requests, a \in Adapters : Land(q, a)

Next ==
    \/ \E q \in Requests :
        \/ \E x \in Payloads : Receive(q, x)
        \/ Handle(q)
        \/ Fault(q)
    \/ Environment

Spec == Init /\ [][Next]_vars

-----------------------------------------------------------------------------
TypeOK ==
    /\ hour \in Hours
    /\ pc \in [Requests ->
           {"idle", "insert", "fetch", "settle", "wait", "record", "notify",
            "done", "crashed"}]
    /\ key \in [Requests -> Keys \union {None}]
    /\ status \in [Requests -> {"none", "pending", "settled", "failed"}]
    /\ used \in [Requests -> Adapters \union {None}]
    /\ hash \in [Requests -> {"null", "empty", "present"}]
    /\ failed \in [Requests -> 0..Len(Priority) - 1]
    /\ outcome \in [Requests -> Outcomes \union {"none"}]
    /\ events \in [Requests -> Seq(Adapters \X Adapters)]
    /\ hook \in [Requests -> {"none", "settled", "failed"}]
    /\ answer \in [Requests -> Answers \union {None, Error}]
    /\ calls \subseteq Requests \X Adapters
    /\ paidBy \in [Payloads -> Adapters \union {None}]

(* Within an hour a payload is broadcast by one request only: whoever      *)
(* calls an adapter owns the one row of its key.                           *)
OneSettlePerKey ==
    \A c \in calls : Rows(key[c[1]]) = {c[1]}

(* The audit trail of a resolved payment names every adapter that outranks *)
(* the one on file, in order, each with that one as its backup; a settled  *)
(* payment was not failed over once its adapter had reported success.      *)
FailoverTrail ==
    \A q \in Requests : status[q] \in {"settled", "failed"} =>
        \E n \in DOMAIN Priority :
            /\ used[q] = Priority[n]
            /\ events[q] = [i \in 1..n - 1 |-> <<Priority[i], Priority[n]>>]

(* A transaction hash on file vouches for the chain: the payload was paid, *)
(* through the adapter of that row, even when the same payload is settled  *)
(* again under another hour's key.                                         *)
HashIsPayment ==
    \A q \in Requests : hash[q] = "present" =>
        /\ status[q] = "settled"
        /\ paidBy[key[q][1]] = used[q]

(* What the merchant's webhook was told, what the request that settled the *)
(* payment was told, and any success a replay was told of, is the row on   *)
(* file and is not taken back by what comes later. A replay's refusal is   *)
(* the exception: it may be said of a pending row that is settled later.   *)
ToldIsOnFile ==
    \A q \in Requests :
        /\ hook[q] # "none" => status[q] = hook[q]
        /\ answer[q] \in Answers =>
              LET row == status[answer[q].payment]
              IN  /\ answer[q].status = "settled" => row = "settled"
                  /\ answer[q].payment = q /\ answer[q].status = "refused" =>
                        row = "failed"

(* The endpoint implements the abstract promise of IdempotentPayment, with *)
(* the hour as part of the key, and is not candid about pending payments.  *)
Promise == INSTANCE IdempotentPayment
    WITH key <- key, status <- status, answer <- answer,
         Requests <- Requests, Keys <- Keys, None <- None, Candid <- FALSE
Implements == Promise!Spec
=============================================================================
