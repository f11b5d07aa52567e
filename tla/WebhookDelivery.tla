-------------------------- MODULE WebhookDelivery --------------------------
(***************************************************************************)
(* services/webhooks: the fan-out of one settle event to the merchant's    *)
(* endpoints, the webhook_deliveries row and the BullMQ job of each, the   *)
(* worker that delivers, and the dashboard's manual retry, which puts a    *)
(* second job for the same row in the queue.                               *)
(*                                                                         *)
(* The row says what was attempted, the queue says what comes next: two    *)
(* stores that no transaction spans. A worker's run of a job is broken up  *)
(* at its awaits.                                                          *)
(***************************************************************************)
EXTENDS Integers, FiniteSets

CONSTANTS
    Deliveries,  \* one per endpoint of the event
    Jobs,        \* the jobs ever queued: bounds the manual retries
    Tries,       \* attempts of a job, the first one included
    MaxFaults,   \* faults in all: bounds the behaviours
    None         \* no delivery

ASSUME TriesAssumption == Tries \in Nat \ {0} /\ MaxFaults \in Nat
ASSUME NoneAssumption == None \notin Deliveries

DefaultMax == Tries - 1  \* createOrFetchDelivery: six, for seven tries
ManualBudget == 3        \* resetDeliveryForManualRetry

VARIABLES
    fan,       \* enqueueSettleEvent: endpoints to go, and the one at hand
    endpoint,  \* the endpoint of each delivery
    status,    \* webhook_deliveries.status; "none" before, "gone" after
    attempts,  \* webhook_deliveries.attempts
    max,       \* webhook_deliveries.max_attempts
    reset,     \* the delivery a manual retry has reset and not yet queued
    strayed,   \* whether one was reset by a retry that was for another endpoint
    pc,        \* where each job is
    target,    \* the delivery each job is for
    made,      \* BullMQ's attemptsMade
    posts,     \* the POSTs made for each delivery
    acked,     \* whether one of them was answered with a 2xx
    refused,   \* whether one of them was answered with a 4xx that ends it
    faults,    \* the faults so far
    faulted    \* whether one hit the delivery's work

producerVars == <<fan, reset, strayed>>
rowVars == <<status, attempts, max>>
jobVars == <<pc, target, made>>
wireVars == <<endpoint, posts, acked, refused>>
faultVars == <<faults, faulted>>
vars == <<producerVars, rowVars, jobVars, wireVars, faultVars>>

Replies == {"2xx", "4xx", "5xx"}

Init ==
    /\ fan = [todo |-> Deliveries, cur |-> None]
    /\ endpoint = [d \in Deliveries |-> "active"]
    /\ status = [d \in Deliveries |-> "none"]
    /\ attempts = [d \in Deliveries |-> 0]
    /\ max = [d \in Deliveries |-> 0]
    /\ reset = None
    /\ strayed = [d \in Deliveries |-> FALSE]
    /\ pc = [j \in Jobs |-> "unused"]
    /\ target = [j \in Jobs |-> None]
    /\ made = [j \in Jobs |-> 0]
    /\ posts = [d \in Deliveries |-> 0]
    /\ acked = [d \in Deliveries |-> FALSE]
    /\ refused = [d \in Deliveries |-> FALSE]
    /\ faults = 0
    /\ faulted = [d \in Deliveries |-> FALSE]

Active == Replies \union
    {"endpoint", "inactive", "post", "touch", "catch"}
Live(j) == pc[j] = "waiting" \/ pc[j] \in Active
JobsOf(d) == {j \in Jobs : target[j] = d}

FaultAt(d) ==
    /\ faults < MaxFaults
    /\ faults' = faults + 1
    /\ faulted' = [e \in Deliveries |-> faulted[e] \/ e = d]

-----------------------------------------------------------------------------
(* The producers                                                           *)

(* queue.add: the next job, by number.                                     *)
AddJob(d) ==
    \E j \in Jobs :
        /\ pc[j] = "unused"
        /\ \A i \in Jobs : i < j => pc[i] # "unused"
        /\ pc' = [pc EXCEPT ![j] = "waiting"]
        /\ target' = [target EXCEPT ![j] = d]
        /\ UNCHANGED made

(* createOrFetchDelivery, for one of the endpoints that matched.           *)
InsertDelivery(d) ==
    /\ fan.cur = None
    /\ d \in fan.todo
    /\ endpoint[d] # "gone"
    /\ fan' = [todo |-> fan.todo \ {d}, cur |-> d]
    /\ status' = [status EXCEPT ![d] = "pending"]
    /\ max' = [max EXCEPT ![d] = DefaultMax]
    /\ UNCHANGED <<reset, strayed, attempts, jobVars, wireVars, faultVars>>

(* The endpoint was deleted since it matched: the foreign key ends the     *)
(* whole fan-out.                                                          *)
InsertOrphan(d) ==
    /\ fan.cur = None
    /\ d \in fan.todo
    /\ endpoint[d] = "gone"
    /\ fan' = [fan EXCEPT !.todo = {}]
    /\ UNCHANGED <<reset, strayed, rowVars, jobVars, wireVars, faultVars>>

(* Mutant: the row is inserted and its job forgotten.                       *)
EnqueueDeliveryForgotten ==
    /\ fan.cur # None
    /\ fan' = [fan EXCEPT !.cur = None]
    /\ UNCHANGED <<reset, strayed, rowVars, jobVars, wireVars, faultVars>>

EnqueueDelivery ==
    /\ fan.cur # None
    /\ AddJob(fan.cur)
    /\ fan' = [fan EXCEPT !.cur = None]
    /\ UNCHANGED <<reset, strayed, rowVars, wireVars, faultVars>>

(* A query or the queue throws, or the process dies: the settle route logs *)
(* it and nobody takes the fan-out up again.                               *)
FanOutFault ==
    /\ fan.todo # {} \/ fan.cur # None
    /\ fan' = [todo |-> {}, cur |-> None]
    /\ FaultAt(fan.cur)
    /\ UNCHANGED <<reset, strayed, rowVars, jobVars, wireVars>>

(* The dashboard's manual retry, in two steps: the row, whatever its       *)
(* status, and then the job.                                               *)
ResetRow(d) ==
    /\ status[d] \in {"pending", "success", "dead"}
    /\ status' = [status EXCEPT ![d] = "pending"]
    /\ max' = [max EXCEPT ![d] =
           IF @ > attempts[d] + ManualBudget THEN @ ELSE attempts[d] + ManualBudget]
    /\ UNCHANGED <<fan, attempts, jobVars, wireVars, faultVars>>

ManualReset(d) ==
    /\ reset = None
    /\ \E j \in Jobs : pc[j] = "unused"
    /\ ResetRow(d)
    /\ reset' = d
    /\ UNCHANGED strayed

(* The delivery in the URL is not one of the endpoint in the URL. That is  *)
(* looked at when the row has been reset: a 404, and nothing is queued.    *)
ManualMismatch(d) ==
    /\ ResetRow(d)
    /\ strayed' = [strayed EXCEPT ![d] = TRUE]
    /\ UNCHANGED reset

ManualEnqueue ==
    /\ reset # None
    /\ AddJob(reset)
    /\ reset' = None
    /\ UNCHANGED <<fan, strayed, rowVars, wireVars, faultVars>>

ManualFault ==
    /\ reset # None
    /\ FaultAt(reset)
    /\ reset' = None
    /\ UNCHANGED <<fan, strayed, rowVars, jobVars, wireVars>>

-----------------------------------------------------------------------------
(* The worker                                                              *)

Step(j, from, to) ==
    /\ pc[j] = from
    /\ pc' = [pc EXCEPT ![j] = to]
    /\ UNCHANGED <<target, made>>

(* Mutant: the worker counts its tries from zero.                           *)
FinalAttemptLate(j) == made[j] >= Tries

(* Mutant: attemptsMade is taken to count the try at hand.                  *)
FinalAttemptEarly(j) == made[j] + 2 >= Tries

FinalAttempt(j) == made[j] + 1 >= Tries

(* BullMQ after a job's processor has thrown: back to the queue, delayed,  *)
(* while attemptsMade allows.                                              *)
Thrown(j) ==
    /\ pc' = [pc EXCEPT ![j] =
           IF made[j] + 1 >= Tries THEN "failed" ELSE "waiting"]
    /\ made' = [made EXCEPT ![j] = @ + 1]
    /\ UNCHANGED target

(* Every record is an UPDATE by id: it finds no row once the endpoint was  *)
(* deleted, and does not look at what the row says.                        *)
Record(d, s) ==
    IF status[d] = "gone" THEN UNCHANGED rowVars
    ELSE /\ status' = [status EXCEPT ![d] = s]
         /\ attempts' = [attempts EXCEPT ![d] = @ + 1]
         /\ UNCHANGED max

(* The worker takes a job up: a missing or finished row ends it untried.   *)
LoadRow(j) ==
    /\ Step(j, "waiting",
            IF status[target[j]] = "pending" THEN "endpoint" ELSE "completed")
    /\ UNCHANGED <<producerVars, rowVars, wireVars, faultVars>>

LoadEndpoint(j) ==
    /\ Step(j, "endpoint",
            IF endpoint[target[j]] = "active" THEN "post" ELSE "inactive")
    /\ UNCHANGED <<producerVars, rowVars, wireVars, faultVars>>

RecordInactive(j) ==
    /\ Step(j, "inactive", "completed")
    /\ Record(target[j], "dead")
    /\ UNCHANGED <<producerVars, wireVars, faultVars>>

(* Mutant: the worker repeats the POST at once, inside the try.             *)
PostTwice(j) ==
    /\ \E next \in Replies \union {"catch"} :
        /\ Step(j, "post", next)
        /\ acked' = [acked EXCEPT ![target[j]] = @ \/ next = "2xx"]
        /\ refused' = [refused EXCEPT ![target[j]] = @ \/ next = "4xx"]
    /\ posts' = [posts EXCEPT ![target[j]] = @ + 2]
    /\ UNCHANGED <<producerVars, rowVars, endpoint, faultVars>>

(* The POST, and what became of it: an abort or a network error goes       *)
(* straight to the catch block.                                            *)
Post(j) ==
    /\ \E next \in Replies \union {"catch"} :
        /\ Step(j, "post", next)
        /\ acked' = [acked EXCEPT ![target[j]] = @ \/ next = "2xx"]
        /\ refused' = [refused EXCEPT ![target[j]] = @ \/ next = "4xx"]
    /\ posts' = [posts EXCEPT ![target[j]] = @ + 1]
    /\ UNCHANGED <<producerVars, rowVars, endpoint, faultVars>>

(* Mutant: a status below 500 counts as delivered.                          *)
RecordSuccessBelow500(j) ==
    /\ Step(j, "2xx", "touch") \/ Step(j, "4xx", "touch")
    /\ Record(target[j], "success")
    /\ UNCHANGED <<producerVars, wireVars, faultVars>>

RecordSuccess(j) ==
    /\ Step(j, "2xx", "touch")
    /\ Record(target[j], "success")
    /\ UNCHANGED <<producerVars, wireVars, faultVars>>

(* 4xx other than 408 and 429: an UnrecoverableError, no more tries.       *)
RecordRefusal(j) ==
    /\ Step(j, "4xx", "failed")
    /\ Record(target[j], "dead")
    /\ UNCHANGED <<producerVars, wireVars, faultVars>>

AfterFailure(j) == IF FinalAttempt(j) THEN "dead" ELSE "pending"

(* 5xx, 408, 429: recorded here, and once more by the catch block that the *)
(* error thrown for BullMQ goes through.                                   *)
RecordRetryable(j) ==
    /\ Step(j, "5xx", "catch")
    /\ Record(target[j], AfterFailure(j))
    /\ UNCHANGED <<producerVars, wireVars, faultVars>>

Catch(j) ==
    /\ pc[j] = "catch"
    /\ Thrown(j)
    /\ Record(target[j], AfterFailure(j))
    /\ UNCHANGED <<producerVars, wireVars, faultVars>>

(* touchEndpointLastUsed, the last thing a delivered job does.             *)
Touch(j) ==
    /\ Step(j, "touch", "completed")
    /\ UNCHANGED <<producerVars, rowVars, wireVars, faultVars>>

-----------------------------------------------------------------------------
(* A query of the worker throws. Inside the try block the catch block gets *)
(* it, after a success was recorded too; elsewhere the try counts without  *)
(* a record.                                                               *)
QueryFault(j) ==
    /\ \/ \E from \in Replies \union {"touch"} : Step(j, from, "catch")
       \/ pc[j] \in {"waiting", "endpoint", "inactive", "catch"} /\ Thrown(j)
    /\ FaultAt(target[j])
    /\ UNCHANGED <<producerVars, rowVars, wireVars>>

(* The worker's process dies: BullMQ finds the job stalled and runs it     *)
(* again, the try not counted, or fails it for having stalled too often.   *)
WorkerDies(j) ==
    /\ pc[j] \in Active
    /\ \E next \in {"waiting", "failed"} : pc' = [pc EXCEPT ![j] = next]
    /\ FaultAt(target[j])
    /\ UNCHANGED <<producerVars, rowVars, target, made, wireVars>>

(* The merchant deletes the endpoint, deliveries included; an operator     *)
(* turns it off.                                                           *)
DeleteEndpoint(d) ==
    /\ endpoint[d] # "gone"
    /\ endpoint' = [endpoint EXCEPT ![d] = "gone"]
    /\ status' = [status EXCEPT ![d] = IF @ = "none" THEN @ ELSE "gone"]
    /\ UNCHANGED <<producerVars, attempts, max, jobVars, posts, acked, refused, faultVars>>

Deactivate(d) ==
    /\ endpoint[d] = "active"
    /\ endpoint' = [endpoint EXCEPT ![d] = "inactive"]
    /\ UNCHANGED <<producerVars, rowVars, jobVars, posts, acked, refused, faultVars>>

-----------------------------------------------------------------------------
Produce ==
    \/ \E d \in Deliveries : InsertDelivery(d) \/ InsertOrphan(d)
    \/ EnqueueDelivery
    \/ ManualEnqueue

Work(j) ==
    \/ LoadRow(j) \/ LoadEndpoint(j) \/ RecordInactive(j)
    \/ Post(j) \/ RecordSuccess(j) \/ RecordRefusal(j) \/ RecordRetryable(j)
    \/ Catch(j) \/ Touch(j)

Fault ==
    \/ FanOutFault \/ ManualFault
    \/ \E j \in Jobs : QueryFault(j) \/ WorkerDies(j)

Operator ==
    \E d \in Deliveries :
        \/ ManualReset(d) \/ ManualMismatch(d)
        \/ DeleteEndpoint(d) \/ Deactivate(d)

Next == Produce \/ (\E j \in Jobs : Work(j)) \/ Fault \/ Operator

Spec == Init /\ [][Next]_vars

(* A worker is up, and what a producer has begun goes on unless it fails.  *)
FairSpec ==
    /\ Spec
    /\ WF_vars(Produce)
    /\ \A j \in Jobs : WF_vars(Work(j))

-----------------------------------------------------------------------------
TypeOK ==
    /\ fan \in [todo : SUBSET Deliveries, cur : Deliveries \union {None}]
    /\ endpoint \in [Deliveries -> {"active", "inactive", "gone"}]
    /\ status \in [Deliveries -> {"none", "pending", "success", "dead", "gone"}]
    /\ attempts \in [Deliveries -> Nat]
    /\ max \in [Deliveries -> Nat]
    /\ reset \in Deliveries \union {None}
    /\ strayed \in [Deliveries -> BOOLEAN]
    /\ pc \in [Jobs ->
           Active \union {"unused", "waiting", "completed", "failed"}]
    /\ target \in [Jobs -> Deliveries \union {None}]
    /\ made \in [Jobs -> 0..Tries]
    /\ posts \in [Deliveries -> Nat]
    /\ acked \in [Deliveries -> BOOLEAN]
    /\ refused \in [Deliveries -> BOOLEAN]
    /\ faults \in 0..MaxFaults
    /\ faulted \in [Deliveries -> BOOLEAN]

(* A delivery on file as a success was acknowledged by its endpoint: no    *)
(* interleaving of two jobs, retries and faults makes one up.              *)
SuccessWasAcked ==
    \A d \in Deliveries : status[d] = "success" => acked[d]

(* A pending delivery has a job that will take it up, or a producer about  *)
(* to queue one, unless a fault cut one of them short or the row was reset *)
(* by a manual retry that was for another endpoint, which queues nothing.  *)
PendingHasJob ==
    \A d \in Deliveries : status[d] = "pending" =>
        \/ fan.cur = d \/ reset = d
        \/ \E j \in JobsOf(d) : Live(j)
        \/ faulted[d] \/ strayed[d]

(* A delivery is given up for a reason only, however two jobs, faults and  *)
(* manual retries cross: its endpoint is off, or it was called and refused *)
(* it for good, or was called and one of its jobs is at its last try.      *)
DeadWasTried ==
    \A d \in Deliveries : status[d] = "dead" =>
        \/ endpoint[d] # "active"
        \/ posts[d] > 0 /\ refused[d]
        \/ posts[d] > 0 /\ \E j \in JobsOf(d) : made[j] + 1 >= Tries

(* An endpoint is called no more often than the tries of the jobs for it,  *)
(* and once again for each worker that died with one of them.              *)
PostsAreBounded ==
    \A d \in Deliveries :
        posts[d] <= Cardinality(JobsOf(d)) * Tries + faults

(* Every delivery comes to an end, unless a fault cut it short or it was   *)
(* reset by a manual retry for another endpoint.                           *)
EveryDeliveryEnds ==
    \A d \in Deliveries :
        status[d] = "pending" ~>
            status[d] # "pending" \/ faulted[d] \/ strayed[d]
=============================================================================
