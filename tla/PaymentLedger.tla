--------------------------- MODULE PaymentLedger ---------------------------
(***************************************************************************)
(* POST /settle of the gateway: the orchestrator's PaymentLedger with its  *)
(* two idempotency layers (a Redis SET NX lock with a TTL, and the unique  *)
(* index of the payments table), the provider fallback loop, and the route *)
(* that drives them.                                                       *)
(*                                                                         *)
(* Every step of a request is what it does between two awaits, so requests *)
(* interleave at every Redis, Postgres and provider call. A request opens  *)
(* at most one payment, whose id is a fresh ulid: the payments table is a  *)
(* function of the request that made the row.                              *)
(***************************************************************************)
EXTENDS Integers, Sequences

CONSTANTS
    Requests,     \* the HTTP requests that ever arrive
    Keys,         \* (api key, Idempotency-Key) pairs
    Providers,    \* registered settlement providers
    MaxAttempts,  \* policy.maxAttempts
    None          \* no request, no key, no provider

ASSUME MaxAttemptsAssumption == MaxAttempts \in Nat \ {0}
ASSUME NoneAssumption ==
    /\ None \notin Requests
    /\ None \notin Keys
    /\ None \notin Providers

VARIABLES
    pc,        \* where each request is
    key,       \* the idempotency key it carries
    status,    \* the row it inserted in payments: "none" until it does
    final,     \* final_provider_id of that row
    attempts,  \* the rows of payment_attempts, in attempt_number order
    cands,     \* the routing decision's candidates, the next one first
    result,    \* what the provider's settle call gave
    answer,    \* the response, as far as it names a payment and its status
    lock,      \* idem:<key> in Redis: the request whose id it holds
    calls,     \* settle calls whose transaction may still land on chain
    paidBy     \* the provider whose transaction consumed the key's payload

requestVars == <<key, status, final, attempts, cands, result, answer>>
chainVars == <<calls, paidBy>>
vars == <<pc, key, status, final, attempts, cands, result, answer, lock,
          calls, paidBy>>

-----------------------------------------------------------------------------
Error == [payment |-> None, status |-> "error"]
Attempt == [provider : Providers, outcome : {"pending", "success", "failed"}]
Answers == [payment : Requests, status : {"pending", "settled", "failed"}]

Rows(k) == {r \in Requests : key[r] = k /\ status[r] # "none"}

(* The rankings the router can give the healthy providers of the route:    *)
(* scores and hints only pick one of them, and the fallback loop looks at  *)
(* its first maxAttempts candidates.                                       *)
Rankings ==
    {s \in UNION {[1..n -> Providers] : n \in 0..MaxAttempts} :
        \A i, j \in DOMAIN s : i # j => s[i] # s[j]}

Init ==
    /\ pc = [r \in Requests |-> "idle"]
    /\ key = [r \in Requests |-> None]
    /\ status = [r \in Requests |-> "none"]
    /\ final = [r \in Requests |-> None]
    /\ attempts = [r \in Requests |-> <<>>]
    /\ cands = [r \in Requests |-> <<>>]
    /\ result = [r \in Requests |-> "none"]
    /\ answer = [r \in Requests |-> None]
    /\ lock = [k \in Keys |-> None]
    /\ calls = {}
    /\ paidBy = [k \in Keys |-> None]

Goto(r, from, to) ==
    /\ pc[r] = from
    /\ pc' = [pc EXCEPT ![r] = to]

(* Mutant: the replay answers with an id of its own.                        *)
AnswerWithOwnId(r, p) ==
    answer' = [answer EXCEPT ![r] = [payment |-> r, status |-> status[p]]]

AnswerWith(r, p) ==
    answer' = [answer EXCEPT ![r] = [payment |-> p, status |-> status[p]]]

Unlock(r) == lock' = [lock EXCEPT ![key[r]] = None]

-----------------------------------------------------------------------------
(* createOrFetchPayment                                                    *)

AcquireLock(r, k) ==
    /\ lock[k] = None
    /\ Goto(r, "idle", "insert")
    /\ key' = [key EXCEPT ![r] = k]
    /\ lock' = [lock EXCEPT ![k] = r]
    /\ UNCHANGED <<status, final, attempts, cands, result, answer, chainVars>>

MissLock(r, k) ==
    /\ lock[k] # None
    /\ Goto(r, "idle", "poll")
    /\ key' = [key EXCEPT ![r] = k]
    /\ UNCHANGED <<status, final, attempts, cands, result, answer, lock,
                   chainVars>>

(* waitForExistingPayment found the row; a poll that does not, stutters.   *)
PollHit(r) ==
    /\ Goto(r, "poll", "done")
    /\ \E p \in Rows(key[r]) : AnswerWith(r, p)
    /\ UNCHANGED <<key, status, final, attempts, cands, result, lock,
                   chainVars>>

(* Mutant: the waiter polls without a deadline.                             *)
PollForever(r) == Goto(r, "poll", "poll") /\ UNCHANGED vars

(* Five seconds pass; the row may have appeared since the last poll.       *)
PollDeadline(r) ==
    /\ Goto(r, "poll", "done")
    /\ answer' = [answer EXCEPT ![r] = Error]
    /\ UNCHANGED <<key, status, final, attempts, cands, result, lock,
                   chainVars>>

(* Mutant: the table has no unique index.                                   *)
InsertRowAlways(r) ==
    /\ Goto(r, "insert", "route")
    /\ status' = [status EXCEPT ![r] = "pending"]
    /\ UNCHANGED <<key, final, attempts, cands, result, answer, lock,
                   chainVars>>

(* The unique index on (api_key_id, idempotency_key) decides the INSERT.   *)
InsertRow(r) ==
    /\ Rows(key[r]) = {}
    /\ Goto(r, "insert", "route")
    /\ status' = [status EXCEPT ![r] = "pending"]
    /\ UNCHANGED <<key, final, attempts, cands, result, answer, lock,
                   chainVars>>

InsertConflict(r) ==
    /\ Rows(key[r]) # {}
    /\ Goto(r, "insert", "conflict")
    /\ UNCHANGED <<requestVars, lock, chainVars>>

(* del(lockKey) does not look at who holds the lock: after a TTL expiry it *)
(* can take the lock away from another request.                            *)
DropLockOnConflict(r) ==
    /\ Goto(r, "conflict", "fetch")
    /\ Unlock(r)
    /\ UNCHANGED <<requestVars, chainVars>>

FetchExisting(r) ==
    /\ Goto(r, "fetch", "done")
    /\ \E p \in Rows(key[r]) : AnswerWith(r, p)
    /\ UNCHANGED <<key, status, final, attempts, cands, result, lock,
                   chainVars>>

-----------------------------------------------------------------------------
(* The INSERT fails for another reason, or it commits and its reply is     *)
(* lost: either way the lock is dropped and the error goes to the caller.  *)
InsertFault(r) ==
    /\ Goto(r, "insert", "undo")
    /\ \/ status' = status
       \/ Rows(key[r]) = {} /\ status' = [status EXCEPT ![r] = "pending"]
    /\ UNCHANGED <<key, final, attempts, cands, result, answer, lock,
                   chainVars>>

DropLockOnFault(r) ==
    /\ Goto(r, "undo", "done")
    /\ Unlock(r)
    /\ answer' = [answer EXCEPT ![r] = Error]
    /\ UNCHANGED <<key, status, final, attempts, cands, result, chainVars>>

-----------------------------------------------------------------------------
(* The route's pipeline, for the request that inserted the row             *)

(* Mutant: without candidates the route forgets to resolve the payment.     *)
AfterRouteUnresolved(s) == IF s = <<>> THEN "reread" ELSE "support"

AfterRoute(s) == IF s = <<>> THEN "finalize" ELSE "support"

Route(r) ==
    \E s \in Rankings :
        /\ Goto(r, "route", AfterRoute(s))
        /\ cands' = [cands EXCEPT ![r] = s]
        /\ UNCHANGED <<key, status, final, attempts, result, answer, lock,
                       chainVars>>

NextCandidate(r) == cands' = [cands EXCEPT ![r] = Tail(cands[r])]

(* The re-check of supports() fails: no attempt row, on to the next one.   *)
SkipCandidate(r) ==
    /\ cands[r] # <<>>
    /\ Goto(r, "support", "support")
    /\ NextCandidate(r)
    /\ UNCHANGED <<key, status, final, attempts, result, answer, lock,
                   chainVars>>

(* Mutant: the attempt row is left for later.                               *)
OpenAttemptLater(rows, p) == rows

OpenAttempt(rows, p) == Append(rows, [provider |-> p, outcome |-> "pending"])

CloseAttempt(rows, o) == [rows EXCEPT ![Len(rows)].outcome = o]

(* startAttempt: the row goes in before the provider is called.            *)
StartAttempt(r) ==
    /\ cands[r] # <<>>
    /\ Goto(r, "support", "call")
    /\ attempts' = [attempts EXCEPT
           ![r] = OpenAttempt(attempts[r], Head(cands[r]))]
    /\ UNCHANGED <<key, status, final, cands, result, answer, lock, chainVars>>

CallSettle(r) ==
    /\ Goto(r, "call", "settle")
    /\ calls' = calls \union {<<r, Head(cands[r])>>}
    /\ UNCHANGED <<requestVars, lock, paidBy>>

(* What the adapter reports. Only "settled" can be taken at its word: an   *)
(* error, retryable or not, may hide a transaction that did or will land.  *)
SettleReturns(r) ==
    /\ Goto(r, "settle", "finish")
    /\ \E res \in {"settled", "retryable", "terminal"} :
        /\ res = "settled" => paidBy[key[r]] = Head(cands[r])
        /\ result' = [result EXCEPT ![r] = res]
    /\ UNCHANGED <<key, status, final, attempts, cands, answer, lock,
                   chainVars>>

(* finishAttempt, then the decision to try the next candidate or to stop.  *)
FinishAttempt(r) ==
    /\ Goto(r, "finish",
            IF result[r] = "retryable" THEN "support" ELSE "finalize")
    /\ attempts' = [attempts EXCEPT ![r] = CloseAttempt(attempts[r],
           IF result[r] = "settled" THEN "success" ELSE "failed")]
    /\ NextCandidate(r)
    /\ UNCHANGED <<key, status, final, result, answer, lock, chainVars>>

(* Every candidate was skipped or failed with a retryable error.           *)
Exhausted(r) ==
    /\ cands[r] = <<>>
    /\ Goto(r, "support", "finalize")
    /\ UNCHANGED <<requestVars, lock, chainVars>>

LastProvider(r) ==
    IF attempts[r] = <<>> THEN None
    ELSE attempts[r][Len(attempts[r])].provider

(* Mutants: the outcome goes to the table as it is, and running out of      *)
(* providers is taken for success.                                         *)
StatusRaw(res) == res
StatusUnlessTerminal(res) == IF res = "terminal" THEN "failed" ELSE "settled"

StatusAfter(res) == IF res = "settled" THEN "settled" ELSE "failed"

(* finalizePayment: an UPDATE by payment id, whatever the row holds.       *)
Finalize(r) ==
    /\ Goto(r, "finalize", "reread")
    /\ status' = [status EXCEPT ![r] = StatusAfter(result[r])]
    /\ final' = [final EXCEPT ![r] = LastProvider(r)]
    /\ UNCHANGED <<key, attempts, cands, result, answer, lock, chainVars>>

Reread(r) ==
    /\ Goto(r, "reread", "release")
    /\ AnswerWith(r, r)
    /\ UNCHANGED <<key, status, final, attempts, cands, result, lock,
                   chainVars>>

(* The route's finally block.                                              *)
ReleaseLock(r) ==
    /\ Goto(r, "release", "done")
    /\ Unlock(r)
    /\ UNCHANGED <<requestVars, chainVars>>

-----------------------------------------------------------------------------
(* Faults and the environment                                              *)

(* A query or a supports() call throws inside the route's try block: the   *)
(* row stays as it is and the caller gets the error.                       *)
PipelineFault(r) ==
    /\ \E from \in {"route", "support", "finish", "finalize", "reread"} :
            Goto(r, from, "release")
    /\ answer' = [answer EXCEPT ![r] = Error]
    /\ UNCHANGED <<key, status, final, attempts, cands, result, lock,
                   chainVars>>

(* Redis or Postgres throws where nothing is left to clean up.             *)
LastCallFault(r) ==
    /\ \E from \in {"conflict", "fetch", "undo", "release"} :
            Goto(r, from, "done")
    /\ answer' = [answer EXCEPT ![r] = Error]
    /\ UNCHANGED <<key, status, final, attempts, cands, result, lock,
                   chainVars>>

(* The process serving r dies: no finally block runs.                      *)
Crash(r) ==
    /\ pc[r] \notin {"idle", "done", "crashed"}
    /\ pc' = [pc EXCEPT ![r] = "crashed"]
    /\ UNCHANGED <<requestVars, lock, chainVars>>

(* The TTL of the lock runs out, however long the pipeline takes.          *)
LockExpires(k) ==
    /\ lock[k] # None
    /\ lock' = [lock EXCEPT ![k] = None]
    /\ UNCHANGED <<pc, requestVars, chainVars>>

(* A transaction reaches the chain, which takes each payload once.         *)
Land(r, p) ==
    /\ <<r, p>> \in calls
    /\ paidBy[key[r]] = None
    /\ paidBy' = [paidBy EXCEPT ![key[r]] = p]
    /\ calls' = calls \ {<<r, p>>}
    /\ UNCHANGED <<pc, requestVars, lock>>

-----------------------------------------------------------------------------
CreateOrFetch(r) ==
    \/ \E k \in Keys : AcquireLock(r, k) \/ MissLock(r, k)
    \/ PollHit(r) \/ PollDeadline(r)
    \/ InsertRow(r) \/ InsertConflict(r)
    \/ DropLockOnConflict(r) \/ FetchExisting(r)
    \/ DropLockOnFault(r)

Settle(r) ==
    \/ Route(r)
    \/ SkipCandidate(r) \/ StartAttempt(r) \/ Exhausted(r)
    \/ CallSettle(r) \/ SettleReturns(r) \/ FinishAttempt(r)
    \/ Finalize(r) \/ Reread(r) \/ ReleaseLock(r)

Fault(r) == InsertFault(r) \/ PipelineFault(r) \/ LastCallFault(r) \/ Crash(r)

Next ==
    \/ \E r \in Requests :
        \/ CreateOrFetch(r)
        \/ Settle(r)
        \/ Fault(r)
        \/ \E p \in Providers : Land(r, p)
    \/ \E k \in Keys : LockExpires(k)

Spec == Init /\ [][Next]_vars

(* The event loop runs every request that has arrived: each of its awaits  *)
(* has a timeout. Nothing is assumed of arrivals, faults, TTLs or chains.  *)
Serve(r) == pc[r] # "idle" /\ (CreateOrFetch(r) \/ Settle(r))

FairSpec == Spec /\ \A r \in Requests : WF_vars(Serve(r))

-----------------------------------------------------------------------------
TypeOK ==
    /\ pc \in [Requests ->
           {"idle", "insert", "poll", "conflict", "fetch", "undo", "route",
            "support", "call", "settle", "finish", "finalize", "reread",
            "release", "done", "crashed"}]
    /\ key \in [Requests -> Keys \union {None}]
    /\ status \in [Requests -> {"none", "pending", "settled", "failed"}]
    /\ final \in [Requests -> Providers \union {None}]
    /\ attempts \in [Requests -> Seq(Attempt)]
    /\ cands \in [Requests -> Seq(Providers)]
    /\ result \in [Requests -> {"none", "settled", "retryable", "terminal"}]
    /\ answer \in [Requests -> Answers \union {None, Error}]
    /\ lock \in [Keys -> Requests \union {None}]
    /\ calls \subseteq Requests \X Providers
    /\ paidBy \in [Keys -> Providers \union {None}]

(* However the locks expire and are deleted by requests that do not hold   *)
(* them, two requests with one idempotency key never both open a payment,  *)
(* so never both call providers: the unique index is the real guarantee.   *)
OnePaymentPerKey ==
    \A q, r \in Requests :
        /\ key[q] = key[r]
        /\ status[q] # "none"
        /\ status[r] # "none"
        => q = r

(* Whatever is on its way to the chain or landed there left an attempt row *)
(* first, on the payment of that key: even after a crash the books name    *)
(* the provider whose transaction moved the money.                         *)
AttemptBeforeCall ==
    /\ \A c \in calls :
        \E i \in DOMAIN attempts[c[1]] : attempts[c[1]][i].provider = c[2]
    /\ \A k \in Keys : paidBy[k] # None =>
        \E r \in Rows(k) : \E i \in DOMAIN attempts[r] :
            attempts[r][i].provider = paidBy[k]

(* A payment on file as settled was settled by the provider on file, its   *)
(* last attempt is the one success, and no earlier attempt is unfinished.  *)
SettledIsPaid ==
    \A r \in Requests : status[r] = "settled" =>
        /\ paidBy[key[r]] = final[r]
        /\ attempts[r] # <<>>
        /\ \A i \in DOMAIN attempts[r] :
            attempts[r][i].outcome =
                IF i = Len(attempts[r]) THEN "success" ELSE "failed"

(* A payment stays pending only under a request still at work on it, one   *)
(* that died, or one whose caller was told of an error.                    *)
PendingIsExplained ==
    \A r \in Requests : status[r] = "pending" =>
        pc[r] # "done" \/ answer[r] = Error

(* Each request that arrives is answered, or its process died: a waiter is *)
(* not left polling for a row that a dead lock holder will never insert.   *)
EveryRequestAnswered ==
    \A r \in Requests : pc[r] # "idle" ~> pc[r] \in {"done", "crashed"}

-----------------------------------------------------------------------------
(* The strengthening that makes the safety properties inductive: what a    *)
(* request's place in the code says of its row, attempts and answer.       *)

BeforeRow == {"idle", "insert", "poll", "conflict", "fetch"}
BeforeResolve == {"route", "support", "call", "settle", "finish", "finalize"}

AllFailed(s) == \A i \in DOMAIN s : s[i].outcome = "failed"

(* All attempts are failed but the last, which is p's with outcome o.      *)
LastIs(s, p, o) ==
    /\ s # <<>>
    /\ s[Len(s)] = [provider |-> p, outcome |-> o]
    /\ \A i \in DOMAIN s : i # Len(s) => s[i].outcome = "failed"

RowByPlace ==
    \A r \in Requests :
        /\ pc[r] = "idle" <=> key[r] = None
        /\ pc[r] \in BeforeRow => status[r] = "none"
        /\ pc[r] = "undo" => status[r] \in {"none", "pending"}
        /\ pc[r] \in BeforeResolve => status[r] = "pending"
        /\ pc[r] = "reread" => status[r] \in {"settled", "failed"}
        /\ pc[r] = "release" /\ status[r] = "pending" => answer[r] = Error
        /\ status[r] = "none" => attempts[r] = <<>>
        /\ key[r] = None => status[r] = "none"

AnswerByPlace ==
    \A r \in Requests :
        pc[r] \notin {"release", "done", "crashed"} => answer[r] = None

AttemptsByPlace ==
    \A r \in Requests :
        /\ pc[r] \in BeforeRow \union {"route"} =>
              attempts[r] = <<>> /\ result[r] = "none"
        /\ pc[r] = "support" =>
              AllFailed(attempts[r]) /\ result[r] \in {"none", "retryable"}
        /\ pc[r] \in {"call", "settle", "finish"} =>
              /\ cands[r] # <<>>
              /\ LastIs(attempts[r], Head(cands[r]), "pending")
        /\ pc[r] = "finish" /\ result[r] = "settled" =>
              paidBy[key[r]] = Head(cands[r])
        /\ pc[r] = "finalize" /\ result[r] = "settled" =>
              LastIs(attempts[r], paidBy[key[r]], "success")

Settled ==
    \A r \in Requests : status[r] = "settled" =>
        /\ final[r] = paidBy[key[r]]
        /\ LastIs(attempts[r], final[r], "success")

IInv ==
    /\ TypeOK
    /\ OnePaymentPerKey
    /\ RowByPlace
    /\ AnswerByPlace
    /\ AttemptsByPlace
    /\ Settled
    /\ AttemptBeforeCall
    /\ PendingIsExplained

(* The endpoint implements the abstract promise of IdempotentPayment.      *)
Promise == INSTANCE IdempotentPayment
    WITH key <- key, status <- status, answer <- answer,
         Requests <- Requests, Keys <- Keys, None <- None,
         Candid <- TRUE
Implements == Promise!Spec
=============================================================================
