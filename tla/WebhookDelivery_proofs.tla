----------------------- MODULE WebhookDelivery_proofs -----------------------
(* Webhook delivery, for any number of deliveries, jobs, tries and faults. *)
EXTENDS WebhookDelivery, FiniteSetTheorems, TLAPS

(* What a job's place says of its delivery.                                *)
JobByPlace ==
    \A j \in Jobs :
        /\ pc[j] # "unused" => target[j] \in Deliveries
        /\ pc[j] = "unused" \/ Live(j) => made[j] < Tries
        /\ pc[j] = "2xx" => acked[target[j]]
        /\ pc[j] = "4xx" => refused[target[j]]
        /\ pc[j] = "inactive" => endpoint[target[j]] # "active"
        /\ pc[j] \in Replies \union {"touch", "catch"} => posts[target[j]] > 0

(* A pending delivery has a job that has not yet recorded a success for it.*)
(* A job at "touch" has, and is over without another look at the row.      *)
PendingHasWorker ==
    \A d \in Deliveries : status[d] = "pending" =>
        \/ fan.cur = d \/ reset = d
        \/ \E j \in Jobs : target[j] = d /\ Live(j) /\ pc[j] # "touch"
        \/ faulted[d] \/ strayed[d]

(* A job that is not in the queue yet is for nobody.                       *)
UnusedIsFree == \A j \in Jobs : pc[j] = "unused" => target[j] = None

IInv ==
    /\ TypeOK /\ JobByPlace /\ UnusedIsFree
    /\ SuccessWasAcked /\ DeadWasTried /\ PendingHasWorker

(* Type correctness.                                                       *)
LEMMA TypeStep ==
    ASSUME TypeOK, JobByPlace, [Next]_vars
    PROVE  TypeOK'
  <1> USE DEF producerVars, rowVars, jobVars, wireVars, faultVars, Replies, Active
  <1>1. ASSUME NEW d0 \in Deliveries, InsertDelivery(d0)
        PROVE  TypeOK'
    <2>1. DefaultMax \in Nat
      BY TriesAssumption DEF DefaultMax
    <2> QED BY <1>1, <2>1 DEF TypeOK, InsertDelivery
  <1>2. ASSUME NEW d0 \in Deliveries, InsertOrphan(d0)
        PROVE  TypeOK'
    BY <1>2 DEF TypeOK, JobByPlace, Live, InsertOrphan
  <1>3. ASSUME EnqueueDelivery
        PROVE  TypeOK'
    BY <1>3 DEF TypeOK, JobByPlace, Live, EnqueueDelivery, AddJob
  <1>4. ASSUME ManualEnqueue
        PROVE  TypeOK'
    BY <1>4 DEF TypeOK, JobByPlace, Live, ManualEnqueue, AddJob
  <1>5. ASSUME NEW j0 \in Jobs, LoadRow(j0)
        PROVE  TypeOK'
    BY <1>5 DEF TypeOK, JobByPlace, Live, LoadRow, Step
  <1>6. ASSUME NEW j0 \in Jobs, LoadEndpoint(j0)
        PROVE  TypeOK'
    BY <1>6 DEF TypeOK, JobByPlace, Live, LoadEndpoint, Step
  <1>7. ASSUME NEW j0 \in Jobs, RecordInactive(j0)
        PROVE  TypeOK'
    BY <1>7 DEF TypeOK, JobByPlace, Live, RecordInactive, Step, Record
  <1>8. ASSUME NEW j0 \in Jobs, Post(j0)
        PROVE  TypeOK'
    BY <1>8 DEF TypeOK, JobByPlace, Live, Post, Step
  <1>9. ASSUME NEW j0 \in Jobs, RecordSuccess(j0)
        PROVE  TypeOK'
    BY <1>9 DEF TypeOK, JobByPlace, Live, RecordSuccess, Step, Record
  <1>10. ASSUME NEW j0 \in Jobs, RecordRefusal(j0)
        PROVE  TypeOK'
    BY <1>10 DEF TypeOK, JobByPlace, Live, RecordRefusal, Step, Record
  <1>11. ASSUME NEW j0 \in Jobs, RecordRetryable(j0)
        PROVE  TypeOK'
    BY <1>11 DEF TypeOK, JobByPlace, Live, RecordRetryable, Step, Record,
       AfterFailure, FinalAttempt
  <1>12. ASSUME NEW j0 \in Jobs, Catch(j0)
        PROVE  TypeOK'
    BY <1>12, TriesAssumption DEF TypeOK, JobByPlace, Live, Catch, Thrown,
       Record, AfterFailure, FinalAttempt
  <1>13. ASSUME NEW j0 \in Jobs, Touch(j0)
        PROVE  TypeOK'
    BY <1>13 DEF TypeOK, JobByPlace, Live, Touch, Step
  <1>14. ASSUME FanOutFault
        PROVE  TypeOK'
    BY <1>14, TriesAssumption DEF TypeOK, JobByPlace, Live, FanOutFault,
       FaultAt
  <1>15. ASSUME ManualFault
        PROVE  TypeOK'
    BY <1>15, TriesAssumption DEF TypeOK, JobByPlace, Live, ManualFault,
       FaultAt
  <1>16. ASSUME NEW j0 \in Jobs, QueryFault(j0)
        PROVE  TypeOK'
    BY <1>16, TriesAssumption DEF TypeOK, JobByPlace, Live, QueryFault,
       Step, Thrown, FaultAt
  <1>17. ASSUME NEW j0 \in Jobs, WorkerDies(j0)
        PROVE  TypeOK'
    BY <1>17, TriesAssumption DEF TypeOK, JobByPlace, Live, WorkerDies,
       FaultAt
  <1>18. ASSUME NEW d0 \in Deliveries, ManualReset(d0)
        PROVE  TypeOK'
    <2>1. max' \in [Deliveries -> Nat]
      <3>1. attempts[d0] + ManualBudget \in Nat
        BY DEF TypeOK, ManualBudget
      <3> QED BY <1>18, <3>1 DEF TypeOK, ManualReset, ResetRow
    <2> QED BY <1>18, <2>1 DEF TypeOK, ManualReset, ResetRow
  <1>19. ASSUME NEW d0 \in Deliveries, DeleteEndpoint(d0)
        PROVE  TypeOK'
    BY <1>19 DEF TypeOK, JobByPlace, Live, DeleteEndpoint
  <1>20. ASSUME NEW d0 \in Deliveries, Deactivate(d0)
        PROVE  TypeOK'
    BY <1>20 DEF TypeOK, JobByPlace, Live, Deactivate
  <1>22. ASSUME NEW d0 \in Deliveries, ManualMismatch(d0)
        PROVE  TypeOK'
    <2>1. max' \in [Deliveries -> Nat]
      <3>1. attempts[d0] + ManualBudget \in Nat
        BY DEF TypeOK, ManualBudget
      <3> QED BY <1>22, <3>1 DEF TypeOK, ManualMismatch, ResetRow
    <2> QED BY <1>22, <2>1 DEF TypeOK, ManualMismatch, ResetRow
  <1>21. CASE UNCHANGED vars
    BY <1>21 DEF TypeOK, JobByPlace, Live, vars
  <1> QED
    BY <1>1, <1>2, <1>3, <1>4, <1>5, <1>6, <1>7, <1>8, <1>9, <1>10, <1>11,
       <1>12, <1>13, <1>14, <1>15, <1>16, <1>17, <1>18, <1>19, <1>20,
       <1>21, <1>22, Zenon DEF Next, Produce, Work, Fault, Operator

(* What a job's place says.                                                *)
LEMMA PlaceStep ==
    ASSUME TypeOK, JobByPlace, [Next]_vars
    PROVE  JobByPlace'
  <1> USE DEF producerVars, rowVars, jobVars, wireVars, faultVars, Replies, Active
  <1>1. ASSUME NEW d0 \in Deliveries, InsertDelivery(d0)
        PROVE  JobByPlace'
    BY <1>1 DEF TypeOK, JobByPlace, Live, InsertDelivery
  <1>2. ASSUME NEW d0 \in Deliveries, InsertOrphan(d0)
        PROVE  JobByPlace'
    BY <1>2 DEF TypeOK, JobByPlace, Live, InsertOrphan
  <1>3. ASSUME EnqueueDelivery
        PROVE  JobByPlace'
    BY <1>3, NoneAssumption DEF TypeOK, JobByPlace, Live, EnqueueDelivery,
       AddJob
  <1>4. ASSUME ManualEnqueue
        PROVE  JobByPlace'
    BY <1>4, NoneAssumption DEF TypeOK, JobByPlace, Live, ManualEnqueue,
       AddJob
  <1>5. ASSUME NEW j0 \in Jobs, LoadRow(j0)
        PROVE  JobByPlace'
    BY <1>5 DEF TypeOK, JobByPlace, Live, LoadRow, Step
  <1>6. ASSUME NEW j0 \in Jobs, LoadEndpoint(j0)
        PROVE  JobByPlace'
    BY <1>6 DEF TypeOK, JobByPlace, Live, LoadEndpoint, Step
  <1>7. ASSUME NEW j0 \in Jobs, RecordInactive(j0)
        PROVE  JobByPlace'
    BY <1>7 DEF TypeOK, JobByPlace, Live, RecordInactive, Step, Record
  <1>8. ASSUME NEW j0 \in Jobs, Post(j0)
        PROVE  JobByPlace'
    <2>1. target[j0] \in Deliveries /\ posts[target[j0]] \in Nat
      BY <1>8 DEF Post, Step, TypeOK, JobByPlace
    <2>2. PICK next \in Replies \union {"catch"} :
              /\ pc' = [pc EXCEPT ![j0] = next]
              /\ acked' = [acked EXCEPT ![target[j0]] = @ \/ next = "2xx"]
              /\ refused' = [refused EXCEPT ![target[j0]] = @ \/ next = "4xx"]
      BY <1>8 DEF Post, Step
    <2>3. /\ \A d \in Deliveries : posts[d] > 0 => posts'[d] > 0
          /\ posts'[target[j0]] > 0
      BY <1>8, <2>1 DEF Post, TypeOK
    <2>4. /\ \A d \in Deliveries : acked[d] => acked'[d]
          /\ next = "2xx" => acked'[target[j0]]
          /\ \A d \in Deliveries : refused[d] => refused'[d]
          /\ next = "4xx" => refused'[target[j0]]
      BY <2>1, <2>2 DEF TypeOK
    <2>5. UNCHANGED <<target, made, endpoint>>
      BY <1>8 DEF Post, Step
    <2>6. /\ pc'[j0] = next /\ pc[j0] = "post"
          /\ \A j \in Jobs \ {j0} : pc'[j] = pc[j]
      BY <1>8, <2>2 DEF Post, Step, TypeOK
    <2> SUFFICES ASSUME NEW j \in Jobs
                 PROVE  /\ pc'[j] # "unused" => target[j] \in Deliveries
                        /\ pc'[j] = "unused" \/ Live(j)' => made[j] < Tries
                        /\ pc'[j] = "2xx" => acked'[target[j]]
                        /\ pc'[j] = "4xx" => refused'[target[j]]
                        /\ pc'[j] = "inactive" => endpoint[target[j]] # "active"
                        /\ pc'[j] \in Replies \union {"touch", "catch"} =>
                              posts'[target[j]] > 0
      BY <2>5 DEF JobByPlace
    <2>7. CASE j = j0
      BY <2>1, <2>3, <2>4, <2>6, <2>7 DEF JobByPlace, Live
    <2>8. CASE j # j0
      BY <2>3, <2>4, <2>6, <2>8 DEF JobByPlace, Live
    <2> QED BY <2>7, <2>8
  <1>9. ASSUME NEW j0 \in Jobs, RecordSuccess(j0)
        PROVE  JobByPlace'
    BY <1>9 DEF TypeOK, JobByPlace, Live, RecordSuccess, Step, Record
  <1>10. ASSUME NEW j0 \in Jobs, RecordRefusal(j0)
        PROVE  JobByPlace'
    BY <1>10 DEF TypeOK, JobByPlace, Live, RecordRefusal, Step, Record
  <1>11. ASSUME NEW j0 \in Jobs, RecordRetryable(j0)
        PROVE  JobByPlace'
    BY <1>11 DEF TypeOK, JobByPlace, Live, RecordRetryable, Step, Record,
       AfterFailure, FinalAttempt
  <1>12. ASSUME NEW j0 \in Jobs, Catch(j0)
        PROVE  JobByPlace'
    <2>1. /\ pc'[j0] \in {"failed", "waiting"}
          /\ pc'[j0] = "waiting" => made[j0] + 1 < Tries
          /\ made'[j0] = made[j0] + 1 /\ made[j0] \in Nat
          /\ \A j \in Jobs \ {j0} : pc'[j] = pc[j] /\ made'[j] = made[j]
      BY <1>12, TriesAssumption DEF Catch, Thrown, TypeOK
    <2>2. UNCHANGED <<target, acked, refused, endpoint, posts>>
      BY <1>12 DEF Catch, Thrown
    <2>3. target[j0] \in Deliveries
      BY <1>12 DEF Catch, JobByPlace
    <2> QED BY <2>1, <2>2, <2>3 DEF JobByPlace, Live
  <1>13. ASSUME NEW j0 \in Jobs, Touch(j0)
        PROVE  JobByPlace'
    BY <1>13 DEF TypeOK, JobByPlace, Live, Touch, Step
  <1>14. ASSUME FanOutFault
        PROVE  JobByPlace'
    BY <1>14 DEF TypeOK, JobByPlace, Live, FanOutFault, FaultAt
  <1>15. ASSUME ManualFault
        PROVE  JobByPlace'
    BY <1>15 DEF TypeOK, JobByPlace, Live, ManualFault, FaultAt
  <1>16. ASSUME NEW j0 \in Jobs, QueryFault(j0)
        PROVE  JobByPlace'
    <2>1. target[j0] \in Deliveries /\ UNCHANGED <<target, acked, refused, endpoint, posts>>
      BY <1>16 DEF QueryFault, Step, Thrown, JobByPlace
    <2>2. CASE \E from \in Replies \union {"touch"} : Step(j0, from, "catch")
      BY <2>1, <2>2 DEF Step, TypeOK, JobByPlace, Live
    <2>3. CASE Thrown(j0)
      <3>1. /\ pc'[j0] \in {"failed", "waiting"}
            /\ pc'[j0] = "waiting" => made[j0] + 1 < Tries
            /\ made'[j0] = made[j0] + 1 /\ made[j0] \in Nat
            /\ \A j \in Jobs \ {j0} : pc'[j] = pc[j] /\ made'[j] = made[j]
        BY <2>3, TriesAssumption DEF Thrown, TypeOK
      <3> QED BY <2>1, <3>1 DEF JobByPlace, Live
    <2> QED BY <1>16, <2>2, <2>3 DEF QueryFault
  <1>17. ASSUME NEW j0 \in Jobs, WorkerDies(j0)
        PROVE  JobByPlace'
    BY <1>17 DEF TypeOK, JobByPlace, Live, WorkerDies, FaultAt
  <1>18. ASSUME NEW d0 \in Deliveries, ManualReset(d0)
        PROVE  JobByPlace'
    BY <1>18 DEF TypeOK, JobByPlace, Live, ManualReset, ResetRow
  <1>19. ASSUME NEW d0 \in Deliveries, DeleteEndpoint(d0)
        PROVE  JobByPlace'
    BY <1>19 DEF TypeOK, JobByPlace, Live, DeleteEndpoint
  <1>20. ASSUME NEW d0 \in Deliveries, Deactivate(d0)
        PROVE  JobByPlace'
    BY <1>20 DEF TypeOK, JobByPlace, Live, Deactivate
  <1>22. ASSUME NEW d0 \in Deliveries, ManualMismatch(d0)
        PROVE  JobByPlace'
    BY <1>22 DEF TypeOK, JobByPlace, Live, ManualMismatch, ResetRow
  <1>21. CASE UNCHANGED vars
    BY <1>21 DEF TypeOK, JobByPlace, Live, vars
  <1> QED
    BY <1>1, <1>2, <1>3, <1>4, <1>5, <1>6, <1>7, <1>8, <1>9, <1>10, <1>11,
       <1>12, <1>13, <1>14, <1>15, <1>16, <1>17, <1>18, <1>19, <1>20,
       <1>21, <1>22, Zenon DEF Next, Produce, Work, Fault, Operator

(* A success was acknowledged.                                             *)
LEMMA AckedStep ==
    ASSUME TypeOK, JobByPlace, SuccessWasAcked, [Next]_vars
    PROVE  SuccessWasAcked'
  <1> USE DEF producerVars, rowVars, jobVars, wireVars, faultVars, Replies, Active
  <1>1. ASSUME NEW d0 \in Deliveries, InsertDelivery(d0)
        PROVE  SuccessWasAcked'
    BY <1>1 DEF TypeOK, JobByPlace, Live, SuccessWasAcked, InsertDelivery
  <1>2. ASSUME NEW d0 \in Deliveries, InsertOrphan(d0)
        PROVE  SuccessWasAcked'
    BY <1>2 DEF TypeOK, JobByPlace, Live, SuccessWasAcked, InsertOrphan
  <1>3. ASSUME EnqueueDelivery
        PROVE  SuccessWasAcked'
    BY <1>3 DEF TypeOK, JobByPlace, Live, SuccessWasAcked,
       EnqueueDelivery, AddJob
  <1>4. ASSUME ManualEnqueue
        PROVE  SuccessWasAcked'
    BY <1>4 DEF TypeOK, JobByPlace, Live, SuccessWasAcked, ManualEnqueue,
       AddJob
  <1>5. ASSUME NEW j0 \in Jobs, LoadRow(j0)
        PROVE  SuccessWasAcked'
    BY <1>5 DEF TypeOK, JobByPlace, Live, SuccessWasAcked, LoadRow, Step
  <1>6. ASSUME NEW j0 \in Jobs, LoadEndpoint(j0)
        PROVE  SuccessWasAcked'
    BY <1>6 DEF TypeOK, JobByPlace, Live, SuccessWasAcked, LoadEndpoint,
       Step
  <1>7. ASSUME NEW j0 \in Jobs, RecordInactive(j0)
        PROVE  SuccessWasAcked'
    BY <1>7 DEF TypeOK, JobByPlace, Live, SuccessWasAcked, RecordInactive,
       Step, Record
  <1>8. ASSUME NEW j0 \in Jobs, Post(j0)
        PROVE  SuccessWasAcked'
    BY <1>8 DEF TypeOK, JobByPlace, Live, SuccessWasAcked, Post, Step
  <1>9. ASSUME NEW j0 \in Jobs, RecordSuccess(j0)
        PROVE  SuccessWasAcked'
    BY <1>9 DEF TypeOK, JobByPlace, Live, SuccessWasAcked, RecordSuccess,
       Step, Record
  <1>10. ASSUME NEW j0 \in Jobs, RecordRefusal(j0)
        PROVE  SuccessWasAcked'
    BY <1>10 DEF TypeOK, JobByPlace, Live, SuccessWasAcked, RecordRefusal,
       Step, Record
  <1>11. ASSUME NEW j0 \in Jobs, RecordRetryable(j0)
        PROVE  SuccessWasAcked'
    BY <1>11 DEF TypeOK, JobByPlace, Live, SuccessWasAcked,
       RecordRetryable, Step, Record, AfterFailure, FinalAttempt
  <1>12. ASSUME NEW j0 \in Jobs, Catch(j0)
        PROVE  SuccessWasAcked'
    BY <1>12 DEF TypeOK, JobByPlace, Live, SuccessWasAcked, Catch, Thrown,
       Record, AfterFailure, FinalAttempt
  <1>13. ASSUME NEW j0 \in Jobs, Touch(j0)
        PROVE  SuccessWasAcked'
    BY <1>13 DEF TypeOK, JobByPlace, Live, SuccessWasAcked, Touch, Step
  <1>14. ASSUME FanOutFault
        PROVE  SuccessWasAcked'
    BY <1>14 DEF TypeOK, JobByPlace, Live, SuccessWasAcked, FanOutFault,
       FaultAt
  <1>15. ASSUME ManualFault
        PROVE  SuccessWasAcked'
    BY <1>15 DEF TypeOK, JobByPlace, Live, SuccessWasAcked, ManualFault,
       FaultAt
  <1>16. ASSUME NEW j0 \in Jobs, QueryFault(j0)
        PROVE  SuccessWasAcked'
    BY <1>16 DEF TypeOK, JobByPlace, Live, SuccessWasAcked, QueryFault,
       Step, Thrown, FaultAt
  <1>17. ASSUME NEW j0 \in Jobs, WorkerDies(j0)
        PROVE  SuccessWasAcked'
    BY <1>17 DEF TypeOK, JobByPlace, Live, SuccessWasAcked, WorkerDies,
       FaultAt
  <1>18. ASSUME NEW d0 \in Deliveries, ManualReset(d0)
        PROVE  SuccessWasAcked'
    BY <1>18 DEF TypeOK, JobByPlace, Live, SuccessWasAcked, ManualReset, ResetRow
  <1>19. ASSUME NEW d0 \in Deliveries, DeleteEndpoint(d0)
        PROVE  SuccessWasAcked'
    BY <1>19 DEF TypeOK, JobByPlace, Live, SuccessWasAcked, DeleteEndpoint
  <1>20. ASSUME NEW d0 \in Deliveries, Deactivate(d0)
        PROVE  SuccessWasAcked'
    BY <1>20 DEF TypeOK, JobByPlace, Live, SuccessWasAcked, Deactivate
  <1>22. ASSUME NEW d0 \in Deliveries, ManualMismatch(d0)
        PROVE  SuccessWasAcked'
    BY <1>22 DEF TypeOK, JobByPlace, Live, SuccessWasAcked, ManualMismatch, ResetRow
  <1>21. CASE UNCHANGED vars
    BY <1>21 DEF TypeOK, JobByPlace, Live, SuccessWasAcked, vars
  <1> QED
    BY <1>1, <1>2, <1>3, <1>4, <1>5, <1>6, <1>7, <1>8, <1>9, <1>10, <1>11,
       <1>12, <1>13, <1>14, <1>15, <1>16, <1>17, <1>18, <1>19, <1>20,
       <1>21, <1>22, Zenon DEF Next, Produce, Work, Fault, Operator

(* A job out of the queue stays out of it, and is for a delivery for good. *)
LEMMA FreeStep ==
    ASSUME TypeOK, JobByPlace, UnusedIsFree, [Next]_vars
    PROVE  UnusedIsFree'
  <1> USE DEF UnusedIsFree, TypeOK
  <1>1. ASSUME NEW d \in Deliveries, AddJob(d)
        PROVE  UnusedIsFree'
    BY <1>1 DEF AddJob
  <1>2. ASSUME NEW j0 \in Jobs, NEW to \in {"endpoint", "completed", "post", "inactive",
                   "2xx", "4xx", "5xx", "catch", "touch", "failed", "waiting"},
               UNCHANGED target, pc' = [pc EXCEPT ![j0] = to]
        PROVE  UnusedIsFree'
    BY <1>2
  <1>3. CASE UNCHANGED jobVars
    BY <1>3 DEF jobVars
  <1>4. CASE \E j0 \in Jobs : Work(j0)
    <2>1. PICK j0 \in Jobs : Work(j0)
      BY <1>4
    <2>2. UNCHANGED target /\ \E to \in {"endpoint", "completed", "post", "inactive",
                   "2xx", "4xx", "5xx", "catch", "touch", "failed", "waiting"} :
              pc' = [pc EXCEPT ![j0] = to]
      BY <2>1 DEF Work, LoadRow, LoadEndpoint, RecordInactive, Post, RecordSuccess,
         RecordRefusal, RecordRetryable, Catch, Touch, Step, Thrown, Replies
    <2> QED BY <1>2, <2>2
  <1>5. CASE \E j0 \in Jobs : QueryFault(j0) \/ WorkerDies(j0)
    <2>1. PICK j0 \in Jobs : QueryFault(j0) \/ WorkerDies(j0)
      BY <1>5
    <2>2. UNCHANGED target /\ \E to \in {"catch", "failed", "waiting"} :
              pc' = [pc EXCEPT ![j0] = to]
      BY <2>1 DEF QueryFault, WorkerDies, Step, Thrown
    <2> QED BY <1>2, <2>2
  <1>6. CASE EnqueueDelivery \/ ManualEnqueue
    BY <1>1, <1>6 DEF EnqueueDelivery, ManualEnqueue
  <1>7. CASE \E d \in Deliveries : InsertDelivery(d) \/ InsertOrphan(d)
    BY <1>3, <1>7 DEF InsertDelivery, InsertOrphan
  <1>8. CASE FanOutFault \/ ManualFault
    BY <1>3, <1>8 DEF FanOutFault, ManualFault
  <1>9. CASE Operator
    BY <1>3, <1>9 DEF Operator, ManualReset, ManualMismatch, ResetRow,
       DeleteEndpoint, Deactivate
  <1>10. CASE UNCHANGED vars
    BY <1>3, <1>10 DEF vars
  <1> QED
    BY <1>4, <1>5, <1>6, <1>7, <1>8, <1>9, <1>10, Zenon DEF Next, Produce, Fault

(* Why a delivery may be given up; the reason stays.                       *)
Reason(d) ==
    \/ endpoint[d] # "active"
    \/ posts[d] > 0 /\ refused[d]
    \/ posts[d] > 0 /\ \E j \in JobsOf(d) : made[j] + 1 >= Tries

LEMMA ReasonStays ==
    ASSUME TypeOK, TypeOK', JobByPlace, UnusedIsFree, [Next]_vars,
           NEW d \in Deliveries, Reason(d)
    PROVE  Reason(d)'
  <1>1. /\ endpoint[d] # "active" => endpoint'[d] # "active"
        /\ posts[d] > 0 => posts'[d] > 0
        /\ refused[d] => refused'[d]
    <2>1. CASE \E j0 \in Jobs : Post(j0)
      <3>1. PICK j0 \in Jobs : Post(j0)
        BY <2>1
      <3>2. target[j0] \in Deliveries
        BY <3>1 DEF Post, Step, JobByPlace
      <3>3. /\ posts' = [posts EXCEPT ![target[j0]] = @ + 1] /\ UNCHANGED endpoint
            /\ \E next \in Replies \union {"catch"} :
                  refused' = [refused EXCEPT ![target[j0]] = @ \/ next = "4xx"]
        BY <3>1 DEF Post
      <3>4. posts[d] > 0 => posts'[d] > 0
        BY <3>2, <3>3 DEF TypeOK
      <3>5. refused[d] => refused'[d]
        <4>1. PICK next \in Replies \union {"catch"} :
                 refused' = [refused EXCEPT ![target[j0]] = refused[target[j0]] \/ next = "4xx"]
          BY <3>3
        <4>2. CASE d = target[j0]
          <5>1. refused'[d] = (refused[d] \/ next = "4xx")
            BY <3>2, <4>1, <4>2 DEF TypeOK
          <5> QED BY <5>1, Zenon
        <4>3. CASE d # target[j0]
          BY <4>1, <4>3 DEF TypeOK
        <4> QED BY <4>2, <4>3
      <3> QED BY <3>3, <3>4, <3>5
    <2>2. CASE \E e \in Deliveries : DeleteEndpoint(e) \/ Deactivate(e)
      BY <2>2 DEF DeleteEndpoint, Deactivate, TypeOK
    <2>3. CASE UNCHANGED wireVars
      BY <2>3 DEF wireVars
    <2>4. ASSUME NEW j0 \in Jobs, Work(j0)
          PROVE  Post(j0) \/ UNCHANGED wireVars
      BY <2>4 DEF Work, LoadRow, LoadEndpoint, RecordInactive, RecordSuccess,
         RecordRefusal, RecordRetryable, Catch, Touch
    <2>5. Produce \/ Fault \/ UNCHANGED vars => UNCHANGED wireVars
      BY DEF Produce, Fault, InsertDelivery, InsertOrphan, EnqueueDelivery,
         ManualEnqueue, FanOutFault, ManualFault, QueryFault, WorkerDies, vars
    <2>6. ASSUME NEW e \in Deliveries, ManualReset(e) \/ ManualMismatch(e)
          PROVE  UNCHANGED wireVars
      BY <2>6 DEF ManualReset, ManualMismatch, ResetRow
    <2> QED
      BY <2>1, <2>2, <2>3, <2>4, <2>5, <2>6, Zenon DEF Next, Operator
  <1>2. ASSUME NEW j \in JobsOf(d)
        PROVE  j \in JobsOf(d)' /\ made'[j] >= made[j]
    <2>1. j \in Jobs /\ target[j] = d /\ pc[j] # "unused" /\ made[j] \in Nat
      BY <1>2, NoneAssumption DEF JobsOf, UnusedIsFree, TypeOK
    <2>2. CASE UNCHANGED jobVars
      BY <2>1, <2>2 DEF JobsOf, jobVars
    <2>4. CASE Operator
      BY <2>2, <2>4 DEF Operator, ManualReset, ManualMismatch, ResetRow,
         DeleteEndpoint, Deactivate
    <2>3. CASE \E e \in Deliveries \union {None} : AddJob(e)
      BY <2>1, <2>3 DEF AddJob, JobsOf, TypeOK
    <2>5. CASE \E j0 \in Jobs : Thrown(j0)
      BY <2>1, <2>5 DEF Thrown, JobsOf, TypeOK
    <2>6. CASE UNCHANGED <<target, made>>
      BY <2>1, <2>6 DEF JobsOf
    <2>7. EnqueueDelivery \/ ManualEnqueue => \E e \in Deliveries \union {None} : AddJob(e)
      BY DEF EnqueueDelivery, ManualEnqueue, TypeOK
    <2>8. ASSUME NEW j0 \in Jobs, Work(j0) \/ QueryFault(j0) \/ WorkerDies(j0)
          PROVE  UNCHANGED <<target, made>> \/ Thrown(j0)
      BY <2>8 DEF Work, LoadRow, LoadEndpoint, RecordInactive, Post, RecordSuccess,
         RecordRefusal, RecordRetryable, Catch, Touch, QueryFault, WorkerDies, Step
    <2>9. ASSUME NEW e \in Deliveries, InsertDelivery(e) \/ InsertOrphan(e)
          PROVE  UNCHANGED jobVars
      BY <2>9 DEF InsertDelivery, InsertOrphan
    <2>10. FanOutFault \/ ManualFault \/ UNCHANGED vars => UNCHANGED jobVars
      BY DEF FanOutFault, ManualFault, vars
    <2> QED
      BY <2>2, <2>3, <2>4, <2>5, <2>6, <2>7, <2>8, <2>9, <2>10 DEF Next, Produce, Fault
  <1>3. ASSUME NEW j \in JobsOf(d), made[j] + 1 >= Tries
        PROVE  made'[j] + 1 >= Tries
    <2>1. j \in Jobs /\ made[j] \in Nat /\ made'[j] \in Nat
      BY DEF JobsOf, TypeOK
    <2> QED BY <1>2, <1>3, <2>1, TriesAssumption
  <1> QED BY <1>1, <1>2, <1>3 DEF Reason

(* What was given up had a reason.                                         *)
LEMMA TriedStep ==
    ASSUME TypeOK, TypeOK', JobByPlace, UnusedIsFree, DeadWasTried, [Next]_vars
    PROVE  DeadWasTried'
  <1> SUFFICES ASSUME NEW d \in Deliveries, status'[d] = "dead"
               PROVE  Reason(d)'
    BY DEF DeadWasTried, Reason
  <1>1. CASE Reason(d)
    BY <1>1, ReasonStays
  <1>2. CASE ~ Reason(d)
    <2>1. status[d] # "dead"
      BY <1>2 DEF DeadWasTried, Reason
    <2>2. ASSUME NEW j0 \in Jobs, NEW s, Record(target[j0], s)
          PROVE  target[j0] = d /\ s = "dead"
      BY <2>1, <2>2 DEF Record, TypeOK, rowVars
    <2>3. ASSUME NEW j0 \in Jobs, RecordInactive(j0)
          PROVE  Reason(d)'
      <3>1. endpoint[d] # "active"
        BY <2>2, <2>3 DEF RecordInactive, Step, JobByPlace
      <3> QED BY <1>2, <3>1 DEF Reason
    <2>4. ASSUME NEW j0 \in Jobs, RecordRefusal(j0)
          PROVE  Reason(d)'
      <3>1. posts[d] > 0 /\ refused[d]
        BY <2>2, <2>4 DEF RecordRefusal, Step, JobByPlace, Replies
      <3> QED BY <1>2, <3>1 DEF Reason
    <2>5. ASSUME NEW j0 \in Jobs, RecordRetryable(j0) \/ Catch(j0)
          PROVE  Reason(d)'
      <3>1. Record(target[j0], AfterFailure(j0)) /\ pc[j0] \in {"5xx", "catch"}
        BY <2>5 DEF RecordRetryable, Catch, Step
      <3>2. target[j0] = d /\ FinalAttempt(j0)
        BY <2>2, <3>1 DEF AfterFailure
      <3>3. posts[d] > 0 /\ j0 \in JobsOf(d) /\ made[j0] + 1 >= Tries
        BY <3>1, <3>2 DEF JobByPlace, Replies, FinalAttempt, JobsOf
      <3> QED BY <1>2, <3>3 DEF Reason
    <2>6. ASSUME NEW j0 \in Jobs, RecordSuccess(j0)
          PROVE  FALSE
      BY <2>2, <2>6 DEF RecordSuccess
    <2>7. CASE status'[d] # status[d] /\ status'[d] \in {"pending", "gone"}
      BY <2>7
    <2>8. ASSUME NEW j0 \in Jobs, Work(j0)
          PROVE  Reason(d)'
      <3>1. UNCHANGED rowVars \/ RecordInactive(j0) \/ RecordRefusal(j0)
              \/ RecordRetryable(j0) \/ Catch(j0) \/ RecordSuccess(j0)
        BY <2>8 DEF Work, LoadRow, LoadEndpoint, Post, Touch
      <3> QED BY <2>1, <2>3, <2>4, <2>5, <2>6, <3>1 DEF rowVars
    <2>9. ~ UNCHANGED status
      BY <2>1
    <2>10. ASSUME Produce \/ Fault
           PROVE  FALSE
      <3>1. ASSUME NEW e \in Deliveries, InsertDelivery(e)
            PROVE  FALSE
        BY <2>1, <3>1 DEF InsertDelivery, TypeOK
      <3>2. ASSUME NEW e \in Deliveries, InsertOrphan(e)
            PROVE  FALSE
        BY <2>9, <3>2 DEF InsertOrphan, rowVars
      <3>3. ASSUME Fault
            PROVE  FALSE
        BY <2>9, <3>3 DEF Fault, FanOutFault, ManualFault, QueryFault, WorkerDies, rowVars
      <3>4. ASSUME EnqueueDelivery \/ ManualEnqueue
            PROVE  FALSE
        BY <2>9, <3>4 DEF EnqueueDelivery, ManualEnqueue, rowVars
      <3> QED BY <2>10, <3>1, <3>2, <3>3, <3>4 DEF Produce
    <2>11. ASSUME NEW e \in Deliveries
           PROVE  /\ ~ ManualReset(e) /\ ~ ManualMismatch(e)
                  /\ ~ DeleteEndpoint(e) /\ ~ Deactivate(e)
      <3>1. ASSUME ResetRow(e)
            PROVE  FALSE
        BY <2>1, <3>1 DEF ResetRow, TypeOK
      <3>2. ASSUME DeleteEndpoint(e)
            PROVE  FALSE
        BY <2>1, <3>2 DEF DeleteEndpoint, TypeOK
      <3>3. ~ Deactivate(e)
        BY <2>9 DEF Deactivate, rowVars
      <3> QED BY <3>1, <3>2, <3>3 DEF ManualReset, ManualMismatch
    <2>12. ~ UNCHANGED vars
      BY <2>9 DEF vars, rowVars
    <2> QED BY <2>8, <2>10, <2>11, <2>12 DEF Next, Operator
  <1> QED BY <1>1, <1>2

(* No pending delivery is forgotten.                                       *)
LEMMA PendingStep ==
    ASSUME TypeOK, JobByPlace, PendingHasWorker, [Next]_vars
    PROVE  PendingHasWorker'
  <1> USE DEF producerVars, rowVars, jobVars, wireVars, faultVars, Replies, Active
  <1>1. ASSUME NEW d0 \in Deliveries, InsertDelivery(d0)
        PROVE  PendingHasWorker'
    <2>1. /\ \A d \in Deliveries \ {d0} : status'[d] = status[d]
          /\ fan'.cur = d0 /\ fan.cur = None /\ UNCHANGED reset
          /\ UNCHANGED <<jobVars, faulted>>
      BY <1>1 DEF InsertDelivery, TypeOK
    <2> QED BY <1>1, <2>1, NoneAssumption DEF InsertDelivery, TypeOK, PendingHasWorker, Live
  <1>2. ASSUME NEW d0 \in Deliveries, InsertOrphan(d0)
        PROVE  PendingHasWorker'
    BY <1>2 DEF TypeOK, JobByPlace, Live, PendingHasWorker, InsertOrphan
  <1>3. ASSUME EnqueueDelivery
        PROVE  PendingHasWorker'
    BY <1>3 DEF TypeOK, JobByPlace, Live, PendingHasWorker,
       EnqueueDelivery, AddJob
  <1>4. ASSUME ManualEnqueue
        PROVE  PendingHasWorker'
    BY <1>4 DEF TypeOK, JobByPlace, Live, PendingHasWorker, ManualEnqueue,
       AddJob
  <1>5. ASSUME NEW j0 \in Jobs, LoadRow(j0)
        PROVE  PendingHasWorker'
    BY <1>5 DEF TypeOK, JobByPlace, Live, PendingHasWorker, LoadRow, Step
  <1>6. ASSUME NEW j0 \in Jobs, LoadEndpoint(j0)
        PROVE  PendingHasWorker'
    BY <1>6 DEF TypeOK, JobByPlace, Live, PendingHasWorker, LoadEndpoint,
       Step
  <1>7. ASSUME NEW j0 \in Jobs, RecordInactive(j0)
        PROVE  PendingHasWorker'
    BY <1>7 DEF TypeOK, JobByPlace, Live, PendingHasWorker,
       RecordInactive, Step, Record
  <1>8. ASSUME NEW j0 \in Jobs, Post(j0)
        PROVE  PendingHasWorker'
    BY <1>8 DEF TypeOK, JobByPlace, Live, PendingHasWorker, Post, Step
  <1>9. ASSUME NEW j0 \in Jobs, RecordSuccess(j0)
        PROVE  PendingHasWorker'
    BY <1>9 DEF TypeOK, JobByPlace, Live, PendingHasWorker, RecordSuccess,
       Step, Record
  <1>10. ASSUME NEW j0 \in Jobs, RecordRefusal(j0)
        PROVE  PendingHasWorker'
    BY <1>10 DEF TypeOK, JobByPlace, Live, PendingHasWorker,
       RecordRefusal, Step, Record
  <1>11. ASSUME NEW j0 \in Jobs, RecordRetryable(j0)
        PROVE  PendingHasWorker'
    BY <1>11 DEF TypeOK, JobByPlace, Live, PendingHasWorker,
       RecordRetryable, Step, Record, AfterFailure, FinalAttempt
  <1>12. ASSUME NEW j0 \in Jobs, Catch(j0)
        PROVE  PendingHasWorker'
    BY <1>12 DEF TypeOK, JobByPlace, Live, PendingHasWorker, Catch,
       Thrown, Record, AfterFailure, FinalAttempt
  <1>13. ASSUME NEW j0 \in Jobs, Touch(j0)
        PROVE  PendingHasWorker'
    BY <1>13 DEF TypeOK, JobByPlace, Live, PendingHasWorker, Touch, Step
  <1>14. ASSUME FanOutFault
        PROVE  PendingHasWorker'
    BY <1>14 DEF TypeOK, JobByPlace, Live, PendingHasWorker, FanOutFault,
       FaultAt
  <1>15. ASSUME ManualFault
        PROVE  PendingHasWorker'
    BY <1>15 DEF TypeOK, JobByPlace, Live, PendingHasWorker, ManualFault,
       FaultAt
  <1>16. ASSUME NEW j0 \in Jobs, QueryFault(j0)
        PROVE  PendingHasWorker'
    <2>1. target[j0] \in Deliveries
      BY <1>16 DEF QueryFault, Step, Thrown, JobByPlace
    <2>2. /\ faulted'[target[j0]]
          /\ \A d \in Deliveries : faulted[d] => faulted'[d]
      BY <1>16, <2>1 DEF QueryFault, FaultAt
    <2>3. /\ \A j \in Jobs \ {j0} : pc'[j] = pc[j]
          /\ UNCHANGED <<fan, reset, strayed, status, target>>
      BY <1>16 DEF QueryFault, Step, Thrown, TypeOK
    <2> QED BY <2>1, <2>2, <2>3 DEF PendingHasWorker, Live
  <1>17. ASSUME NEW j0 \in Jobs, WorkerDies(j0)
        PROVE  PendingHasWorker'
    <2>1. target[j0] \in Deliveries
      BY <1>17 DEF WorkerDies, Step, Thrown, JobByPlace
    <2>2. /\ faulted'[target[j0]]
          /\ \A d \in Deliveries : faulted[d] => faulted'[d]
      BY <1>17, <2>1 DEF WorkerDies, FaultAt
    <2>3. /\ \A j \in Jobs \ {j0} : pc'[j] = pc[j]
          /\ UNCHANGED <<fan, reset, strayed, status, target>>
      BY <1>17 DEF WorkerDies, Step, Thrown, TypeOK
    <2> QED BY <2>1, <2>2, <2>3 DEF PendingHasWorker, Live
  <1>18. ASSUME NEW d0 \in Deliveries, ManualReset(d0)
        PROVE  PendingHasWorker'
    <2>1. /\ \A d \in Deliveries \ {d0} : status'[d] = status[d]
          /\ reset' = d0 /\ reset = None /\ UNCHANGED fan
          /\ UNCHANGED <<jobVars, faulted, strayed>>
      BY <1>18 DEF ManualReset, ResetRow, TypeOK
    <2> QED BY <1>18, <2>1, NoneAssumption DEF ManualReset, TypeOK, PendingHasWorker, Live
  <1>19. ASSUME NEW d0 \in Deliveries, DeleteEndpoint(d0)
        PROVE  PendingHasWorker'
    BY <1>19 DEF TypeOK, JobByPlace, Live, PendingHasWorker,
       DeleteEndpoint
  <1>20. ASSUME NEW d0 \in Deliveries, Deactivate(d0)
        PROVE  PendingHasWorker'
    BY <1>20 DEF TypeOK, JobByPlace, Live, PendingHasWorker, Deactivate
  <1>22. ASSUME NEW d0 \in Deliveries, ManualMismatch(d0)
        PROVE  PendingHasWorker'
    <2>1. /\ \A d \in Deliveries \ {d0} : status'[d] = status[d]
          /\ strayed'[d0]
          /\ \A d \in Deliveries \ {d0} : strayed'[d] = strayed[d]
          /\ UNCHANGED <<fan, reset, jobVars, faulted>>
      BY <1>22 DEF ManualMismatch, ResetRow, TypeOK
    <2> QED BY <2>1 DEF PendingHasWorker, Live
  <1>21. CASE UNCHANGED vars
    BY <1>21 DEF TypeOK, JobByPlace, Live, PendingHasWorker, vars
  <1> QED
    BY <1>1, <1>2, <1>3, <1>4, <1>5, <1>6, <1>7, <1>8, <1>9, <1>10, <1>11,
       <1>12, <1>13, <1>14, <1>15, <1>16, <1>17, <1>18, <1>19, <1>20,
       <1>21, <1>22, Zenon DEF Next, Produce, Work, Fault, Operator

LEMMA Inductive == Spec => []IInv
  <1>1. Init => IInv
    BY TriesAssumption, NoneAssumption
       DEF Init, IInv, TypeOK, JobByPlace, SuccessWasAcked, DeadWasTried,
           PendingHasWorker, UnusedIsFree, Live, Active, Replies
  <1>2. IInv /\ [Next]_vars => IInv'
    BY TypeStep, PlaceStep, FreeStep, AckedStep, TriedStep, PendingStep DEF IInv
  <1> QED BY <1>1, <1>2, PTL DEF Spec

(* Every reachable state has the declared shape; no job is tried more than *)
(* Tries times.                                                            *)
THEOREM TypeCorrect == Spec => []TypeOK
  BY Inductive, PTL DEF IInv

(* A delivery on file as a success was acknowledged by its endpoint.       *)
THEOREM SuccessWasAckedHolds == Spec => []SuccessWasAcked
  BY Inductive, PTL DEF IInv

(* A delivery is given up only if its endpoint is off, refused it for good *)
(* or was called by a job that is at its last try.                         *)
THEOREM DeadWasTriedHolds == Spec => []DeadWasTried
  BY Inductive, PTL DEF IInv

(* No pending delivery is forgotten but for a fault, or a manual retry     *)
(* that was for another endpoint.                                          *)
THEOREM PendingHasJobHolds == Spec => []PendingHasJob
  <1>1. IInv => PendingHasJob
    BY DEF IInv, PendingHasWorker, PendingHasJob, JobsOf
  <1> QED BY <1>1, Inductive, PTL

-----------------------------------------------------------------------------
(* How often an endpoint is called                                         *)

(* The tries of a job that may have called the endpoint: those BullMQ has  *)
(* counted, and the one under way or that ended the job.                   *)
Posted == Replies \union {"touch", "catch", "completed", "failed"}

Spent(j) == IF made[j] < Tries /\ pc[j] \in Posted THEN made[j] + 1 ELSE made[j]

(* One slot for each of them: how many there are is their number.          *)
Slots(d) == {s \in JobsOf(d) \X (1 .. Tries) : s[2] <= Spent(s[1])}

PostsAreSpent ==
    \A d \in Deliveries :
        /\ IsFiniteSet(JobsOf(d))
        /\ posts[d] <= Cardinality(Slots(d)) + faults

(* There are as many slots as the tries of the jobs at most.               *)
LEMMA SlotsAreTries ==
    ASSUME NEW d \in Deliveries, IsFiniteSet(JobsOf(d))
    PROVE  /\ IsFiniteSet(Slots(d))
           /\ Cardinality(Slots(d)) \in Nat
           /\ Cardinality(Slots(d)) <= Cardinality(JobsOf(d)) * Tries
  <1>1. /\ IsFiniteSet(1 .. Tries)
        /\ Cardinality(1 .. Tries) = Tries
    BY TriesAssumption, FS_Interval
  <1>2. /\ IsFiniteSet(JobsOf(d) \X (1 .. Tries))
        /\ Cardinality(JobsOf(d) \X (1 .. Tries)) = Cardinality(JobsOf(d)) * Tries
    BY <1>1, FS_Product
  <1>3. Slots(d) \in SUBSET (JobsOf(d) \X (1 .. Tries))
    BY DEF Slots
  <1>4. /\ IsFiniteSet(Slots(d))
        /\ Cardinality(Slots(d)) <= Cardinality(JobsOf(d) \X (1 .. Tries))
    BY <1>2, <1>3, FS_Subset
  <1>5. Cardinality(Slots(d)) \in Nat
    BY <1>4, FS_CardinalityType
  <1> QED BY <1>2, <1>4, <1>5

(* A job spends its tries, no more.                                        *)
LEMMA SpentType ==
    /\ TypeOK => \A j \in Jobs : Spent(j) \in 0 .. Tries
    /\ TypeOK' => \A j \in Jobs : Spent(j)' \in 0 .. Tries
  <1>1. ASSUME TypeOK, NEW j \in Jobs
        PROVE  Spent(j) \in 0 .. Tries
    BY <1>1, TriesAssumption DEF TypeOK, Spent
  <1>2. ASSUME TypeOK', NEW j \in Jobs
        PROVE  Spent(j)' \in 0 .. Tries
    BY <1>2, TriesAssumption DEF TypeOK, Spent
  <1> QED BY <1>1, <1>2

(* A step that takes no job from a delivery and no try from a job takes no *)
(* slot.                                                                   *)
Keeps(d) == \A j \in JobsOf(d) : j \in JobsOf(d)' /\ Spent(j)' >= Spent(j)

LEMMA SlotsGrow ==
    ASSUME TypeOK, TypeOK', NEW d \in Deliveries, IsFiniteSet(JobsOf(d)'), Keeps(d)
    PROVE  /\ IsFiniteSet(Slots(d)')
           /\ Cardinality(Slots(d)') \in Nat
           /\ Slots(d) \subseteq Slots(d)'
           /\ Cardinality(Slots(d)) <= Cardinality(Slots(d)')
  <1>1. IsFiniteSet(1 .. Tries)
    BY TriesAssumption, FS_Interval
  <1>2. IsFiniteSet(JobsOf(d)' \X (1 .. Tries))
    BY <1>1, FS_Product
  <1>3. Slots(d)' \subseteq JobsOf(d)' \X (1 .. Tries)
    BY DEF Slots
  <1>4. IsFiniteSet(Slots(d)')
    BY <1>2, <1>3, FS_Subset
  <1>5. Cardinality(Slots(d)') \in Nat
    BY <1>4, FS_CardinalityType
  <1>6. Slots(d) \subseteq Slots(d)'
    <2> SUFFICES ASSUME NEW j \in JobsOf(d), NEW k \in 1 .. Tries, k <= Spent(j)
                 PROVE  j \in JobsOf(d)' /\ k <= Spent(j)'
      BY DEF Slots
    <2>1. j \in JobsOf(d)' /\ Spent(j)' >= Spent(j)
      BY DEF Keeps
    <2>2. Spent(j) \in Int /\ Spent(j)' \in Int
      <3>1. j \in Jobs
        BY DEF JobsOf
      <3> QED BY <3>1, SpentType
    <2> QED BY <2>1, <2>2
  <1>7. Cardinality(Slots(d)) <= Cardinality(Slots(d)')
    BY <1>4, <1>6, FS_Subset
  <1> QED BY <1>4, <1>5, <1>6, <1>7

(* A job that spends one more try adds a slot.                             *)
LEMMA SlotAdded ==
    ASSUME TypeOK, TypeOK', NEW d \in Deliveries, IsFiniteSet(JobsOf(d)'), Keeps(d),
           NEW j0 \in JobsOf(d), Spent(j0)' = Spent(j0) + 1
    PROVE  Cardinality(Slots(d)) + 1 <= Cardinality(Slots(d)')
  <1> DEFINE x == <<j0, Spent(j0) + 1>>
  <1>1. Spent(j0) \in 0 .. Tries /\ Spent(j0)' \in 0 .. Tries
    BY SpentType DEF JobsOf
  <1>2. x \notin Slots(d)
    BY <1>1 DEF Slots
  <1>3. x \in Slots(d)'
    <2>1. Spent(j0) + 1 \in 1 .. Tries /\ Spent(j0) + 1 <= Spent(j0)'
      BY <1>1
    <2>2. j0 \in JobsOf(d)'
      BY DEF Keeps
    <2> QED BY <2>1, <2>2 DEF Slots
  <1>4. IsFiniteSet(Slots(d)') /\ Slots(d) \subseteq Slots(d)'
    BY SlotsGrow
  <1>5. IsFiniteSet(Slots(d))
    BY <1>4, FS_Subset
  <1>6. Cardinality(Slots(d) \union {x}) = Cardinality(Slots(d)) + 1
    BY <1>2, <1>5, FS_AddElement
  <1>7. Cardinality(Slots(d) \union {x}) <= Cardinality(Slots(d)')
    <2>1. Slots(d) \union {x} \in SUBSET Slots(d)'
      BY <1>3, <1>4
    <2> HIDE DEF x
    <2> QED BY <1>4, <2>1, FS_Subset
  <1> QED BY <1>6, <1>7

(* One whose try is not counted, because its worker died, loses one at most.*)
LEMMA SlotLost ==
    ASSUME TypeOK, TypeOK', NEW d \in Deliveries, IsFiniteSet(JobsOf(d)),
           UNCHANGED target, NEW j0 \in Jobs, Spent(j0)' >= Spent(j0) - 1,
           \A j \in Jobs \ {j0} : Spent(j)' = Spent(j)
    PROVE  Cardinality(Slots(d)) <= Cardinality(Slots(d)') + 1
  <1> DEFINE x == <<j0, Spent(j0)>>
  <1>1. JobsOf(d)' = JobsOf(d)
    BY DEF JobsOf
  <1>2. \A j \in Jobs : Spent(j) \in Int /\ Spent(j)' \in Int
    BY SpentType
  <1>3. Slots(d) \ {x} \subseteq Slots(d)'
    <2> SUFFICES ASSUME NEW j \in JobsOf(d), NEW k \in 1 .. Tries, k <= Spent(j),
                        <<j, k>> # x
                 PROVE  k <= Spent(j)'
      BY <1>1 DEF Slots
    <2>1. j \in Jobs
      BY DEF JobsOf
    <2>2. CASE j = j0
      BY <1>2, <2>2
    <2>3. CASE j # j0
      BY <1>2, <2>1, <2>3
    <2> QED BY <2>2, <2>3
  <1>4. IsFiniteSet(Slots(d)) /\ IsFiniteSet(Slots(d)')
    <2>1. IsFiniteSet(JobsOf(d) \X (1 .. Tries))
      <3>1. IsFiniteSet(1 .. Tries)
        BY TriesAssumption, FS_Interval
      <3> QED BY <3>1, FS_Product
    <2>2. Slots(d) \in SUBSET (JobsOf(d) \X (1 .. Tries))
      BY DEF Slots
    <2>3. Slots(d)' \in SUBSET (JobsOf(d) \X (1 .. Tries))
      BY <1>1 DEF Slots
    <2>4. IsFiniteSet(Slots(d))
      BY <2>1, <2>2, FS_Subset
    <2>5. IsFiniteSet(Slots(d)')
      BY <2>1, <2>3, FS_Subset
    <2> QED BY <2>4, <2>5
  <1>5. /\ Cardinality(Slots(d)) \in Nat
        /\ Cardinality(Slots(d)') \in Nat
    BY <1>4, FS_CardinalityType
  <1>6. /\ Cardinality(Slots(d) \ {x}) \in Nat
        /\ Cardinality(Slots(d) \ {x}) >= Cardinality(Slots(d)) - 1
    <2>1. CASE x \in Slots(d)
      <3>1. Cardinality(Slots(d) \ {x}) = Cardinality(Slots(d)) - 1
        BY <1>4, <2>1, FS_RemoveElement
      <3>2. Cardinality(Slots(d) \ {x}) \in Nat
        BY <1>4, FS_RemoveElement, FS_CardinalityType
      <3> QED BY <1>5, <3>1, <3>2
    <2>2. CASE x \notin Slots(d)
      <3>1. Slots(d) \ {x} = Slots(d)
        BY <2>2
      <3> QED BY <1>5, <3>1
    <2> QED BY <2>1, <2>2
  <1>7. Cardinality(Slots(d) \ {x}) <= Cardinality(Slots(d)')
    <2>1. Slots(d) \ {x} \in SUBSET Slots(d)'
      BY <1>3
    <2> HIDE DEF x
    <2> QED BY <1>4, <2>1, FS_Subset
  <1> QED BY <1>5, <1>6, <1>7

(* A step that takes no slot, calls nobody and undoes no fault keeps the   *)
(* count.                                                                  *)
LEMMA CountKept ==
    ASSUME TypeOK, TypeOK', PostsAreSpent, NEW d \in Deliveries,
           IsFiniteSet(JobsOf(d)'), Keeps(d), posts'[d] = posts[d], faults' >= faults
    PROVE  posts'[d] <= Cardinality(Slots(d)') + faults'
  <1>1. IsFiniteSet(Slots(d)') /\ Slots(d) \in SUBSET Slots(d)'
    BY SlotsGrow
  <1>2. IsFiniteSet(Slots(d))
    BY <1>1, FS_Subset
  <1>3. Cardinality(Slots(d)) \in Nat /\ Cardinality(Slots(d)') \in Nat
    BY <1>1, <1>2, FS_CardinalityType
  <1>4. Cardinality(Slots(d)) <= Cardinality(Slots(d)')
    BY SlotsGrow
  <1>5. posts[d] <= Cardinality(Slots(d)) + faults
    BY DEF PostsAreSpent
  <1>6. faults \in Nat /\ faults' \in Nat /\ posts[d] \in Nat
    BY TriesAssumption DEF TypeOK
  <1> QED BY <1>3, <1>4, <1>5, <1>6

(* No try of any job taken, no job added: the worker's steps but the POST, *)
(* and all that leave the jobs alone.                                      *)
LEMMA CountRests ==
    ASSUME TypeOK, TypeOK', PostsAreSpent, UNCHANGED <<target, posts>>,
           faults' >= faults, \A j \in Jobs : Spent(j)' >= Spent(j)
    PROVE  PostsAreSpent'
  <1> SUFFICES ASSUME NEW d \in Deliveries
               PROVE  /\ IsFiniteSet(JobsOf(d)')
                      /\ posts'[d] <= Cardinality(Slots(d)') + faults'
    BY DEF PostsAreSpent
  <1>1. JobsOf(d)' = JobsOf(d)
    BY DEF JobsOf
  <1>2. IsFiniteSet(JobsOf(d)')
    BY <1>1 DEF PostsAreSpent
  <1>3. Keeps(d)
    BY <1>1 DEF Keeps, JobsOf
  <1> QED BY <1>2, <1>3, CountKept

(* A job is queued.                                                        *)
LEMMA CountAdds ==
    ASSUME TypeOK, TypeOK', PostsAreSpent, UnusedIsFree, NEW d0 \in Deliveries,
           AddJob(d0), UNCHANGED <<posts, faults>>
    PROVE  PostsAreSpent'
  <1> SUFFICES ASSUME NEW d \in Deliveries
               PROVE  /\ IsFiniteSet(JobsOf(d)')
                      /\ posts'[d] <= Cardinality(Slots(d)') + faults'
    BY DEF PostsAreSpent
  <1>1. PICK j0 \in Jobs :
            /\ pc[j0] = "unused"
            /\ pc' = [pc EXCEPT ![j0] = "waiting"]
            /\ target' = [target EXCEPT ![j0] = d0]
            /\ UNCHANGED made
    BY DEF AddJob
  <1>2. target[j0] = None /\ \A j \in Jobs : j # j0 => target'[j] = target[j]
    BY <1>1 DEF UnusedIsFree, TypeOK
  <1>3. \A j \in Jobs : Spent(j)' = Spent(j)
    BY <1>1 DEF Spent, Posted, Replies, TypeOK
  <1>4. IsFiniteSet(JobsOf(d)')
    <2>1. JobsOf(d)' \in SUBSET (JobsOf(d) \union {j0})
      BY <1>2 DEF JobsOf
    <2>2. IsFiniteSet(JobsOf(d) \union {j0})
      BY FS_AddElement DEF PostsAreSpent
    <2> QED BY <2>1, <2>2, FS_Subset
  <1>5. Keeps(d)
    <2> SUFFICES ASSUME NEW j \in JobsOf(d)
                 PROVE  j \in JobsOf(d)' /\ Spent(j)' >= Spent(j)
      BY DEF Keeps
    <2>1. j \in Jobs /\ target[j] = d
      BY DEF JobsOf
    <2>2. j # j0
      BY <1>2, <2>1, NoneAssumption
    <2>3. Spent(j)' >= Spent(j)
      BY <1>3, <2>1, SpentType
    <2> QED BY <1>2, <2>1, <2>2, <2>3 DEF JobsOf
  <1> QED BY <1>4, <1>5, CountKept DEF TypeOK

(* The POST: its job spends the try.                                       *)
LEMMA CountPosts ==
    ASSUME TypeOK, TypeOK', JobByPlace, PostsAreSpent, NEW j0 \in Jobs, Post(j0)
    PROVE  PostsAreSpent'
  <1> SUFFICES ASSUME NEW d \in Deliveries
               PROVE  /\ IsFiniteSet(JobsOf(d)')
                      /\ posts'[d] <= Cardinality(Slots(d)') + faults'
    BY DEF PostsAreSpent
  <1>1. PICK next \in Replies \union {"catch"} :
            /\ pc[j0] = "post"
            /\ pc' = [pc EXCEPT ![j0] = next]
            /\ UNCHANGED <<target, made>>
    BY DEF Post, Step
  <1>2. made[j0] < Tries
    BY <1>1 DEF JobByPlace, Live, Active
  <1>3. Spent(j0)' = Spent(j0) + 1
    BY <1>1, <1>2 DEF Spent, Posted, Replies, TypeOK
  <1>4. \A j \in Jobs : j # j0 => Spent(j)' = Spent(j)
    BY <1>1 DEF Spent, Posted, Replies, TypeOK
  <1>5. JobsOf(d)' = JobsOf(d)
    BY <1>1 DEF JobsOf
  <1>6. IsFiniteSet(JobsOf(d)')
    BY <1>5 DEF PostsAreSpent
  <1>7. Keeps(d)
    BY <1>3, <1>4, <1>5, SpentType DEF Keeps, JobsOf
  <1>8. faults' = faults
    BY DEF Post, faultVars
  <1>9. CASE target[j0] = d
    <2>1. posts'[d] = posts[d] + 1
      BY <1>9 DEF Post, TypeOK
    <2>2. Cardinality(Slots(d)) + 1 <= Cardinality(Slots(d)')
      <3>1. j0 \in JobsOf(d)
        BY <1>9 DEF JobsOf
      <3> QED BY <1>3, <1>6, <1>7, <3>1, SlotAdded
    <2>3. Cardinality(Slots(d)) \in Nat /\ Cardinality(Slots(d)') \in Nat
      <3>1. IsFiniteSet(Slots(d)') /\ Slots(d) \in SUBSET Slots(d)'
        BY <1>6, <1>7, SlotsGrow
      <3>2. IsFiniteSet(Slots(d))
        BY <3>1, FS_Subset
      <3> QED BY <3>1, <3>2, FS_CardinalityType
    <2>4. posts[d] <= Cardinality(Slots(d)) + faults
      BY DEF PostsAreSpent
    <2>5. faults \in Nat /\ posts[d] \in Nat
      BY TriesAssumption DEF TypeOK
    <2> QED BY <1>6, <1>8, <2>1, <2>2, <2>3, <2>4, <2>5
  <1>10. CASE target[j0] # d
    <2>1. posts'[d] = posts[d]
      BY <1>10 DEF Post, TypeOK
    <2>2. faults' >= faults
      BY <1>8, TriesAssumption DEF TypeOK
    <2> QED BY <1>6, <1>7, <2>1, <2>2, CountKept
  <1> QED BY <1>9, <1>10

(* A worker dies: the try may be made again, and the fault pays for it.    *)
LEMMA CountDies ==
    ASSUME TypeOK, TypeOK', PostsAreSpent, NEW j0 \in Jobs, WorkerDies(j0)
    PROVE  PostsAreSpent'
  <1> SUFFICES ASSUME NEW d \in Deliveries
               PROVE  /\ IsFiniteSet(JobsOf(d)')
                      /\ posts'[d] <= Cardinality(Slots(d)') + faults'
    BY DEF PostsAreSpent
  <1>1. PICK next \in {"waiting", "failed"} : pc' = [pc EXCEPT ![j0] = next]
    BY DEF WorkerDies
  <1>2. UNCHANGED <<target, made>> /\ posts' = posts /\ faults' = faults + 1
    BY DEF WorkerDies, FaultAt, wireVars
  <1>3. Spent(j0)' >= Spent(j0) - 1
    BY <1>1, <1>2 DEF Spent, TypeOK
  <1>4. \A j \in Jobs \ {j0} : Spent(j)' = Spent(j)
    BY <1>1, <1>2 DEF Spent, TypeOK
  <1>5. JobsOf(d)' = JobsOf(d) /\ IsFiniteSet(JobsOf(d))
    BY <1>2 DEF JobsOf, PostsAreSpent
  <1>6. Cardinality(Slots(d)) <= Cardinality(Slots(d)') + 1
    BY <1>2, <1>3, <1>4, <1>5, SlotLost
  <1>7. Cardinality(Slots(d)) \in Nat /\ Cardinality(Slots(d)') \in Nat
    <2>1. IsFiniteSet(JobsOf(d) \X (1 .. Tries))
      <3>1. IsFiniteSet(1 .. Tries)
        BY TriesAssumption, FS_Interval
      <3> QED BY <1>5, <3>1, FS_Product
    <2>2. /\ Slots(d) \in SUBSET (JobsOf(d) \X (1 .. Tries))
          /\ Slots(d)' \in SUBSET (JobsOf(d) \X (1 .. Tries))
      BY <1>5 DEF Slots
    <2>3. IsFiniteSet(Slots(d))
      BY <2>1, <2>2, FS_Subset
    <2>4. IsFiniteSet(Slots(d)')
      BY <2>1, <2>2, FS_Subset
    <2> QED BY <2>3, <2>4, FS_CardinalityType
  <1>8. posts[d] <= Cardinality(Slots(d)) + faults
    BY DEF PostsAreSpent
  <1>9. faults \in Nat /\ posts[d] \in Nat
    BY TriesAssumption DEF TypeOK
  <1> QED BY <1>2, <1>5, <1>6, <1>7, <1>8, <1>9

(* The count, step by step.                                                *)
LEMMA SpentStep ==
    ASSUME TypeOK, TypeOK', JobByPlace, UnusedIsFree, PostsAreSpent, [Next]_vars
    PROVE  PostsAreSpent'
  <1>1. faults \in Int
    BY DEF TypeOK
  <1>2. ASSUME UNCHANGED <<jobVars, posts>>, faults' >= faults
        PROVE  PostsAreSpent'
    <2>1. \A j \in Jobs : Spent(j)' = Spent(j)
      BY <1>2 DEF jobVars, Spent
    <2>2. \A j \in Jobs : Spent(j)' >= Spent(j)
      BY <2>1, SpentType
    <2> QED BY <1>2, <2>2, CountRests DEF jobVars
  <1>3. CASE \E d \in Deliveries : InsertDelivery(d) \/ InsertOrphan(d)
    BY <1>1, <1>2, <1>3 DEF InsertDelivery, InsertOrphan, wireVars, faultVars
  <1>4. CASE EnqueueDelivery
    BY <1>4, CountAdds DEF EnqueueDelivery, wireVars, faultVars, TypeOK
  <1>5. CASE ManualEnqueue
    BY <1>5, CountAdds DEF ManualEnqueue, wireVars, faultVars, TypeOK
  <1>6. ASSUME NEW j0 \in Jobs, Work(j0), ~ Post(j0)
        PROVE  PostsAreSpent'
    <2>1. UNCHANGED <<target, posts, faults>>
      BY <1>6 DEF Work, LoadRow, LoadEndpoint, RecordInactive, RecordSuccess,
         RecordRefusal, RecordRetryable, Catch, Touch, Step, Thrown, wireVars, faultVars
    <2>2. \A j \in Jobs : Spent(j)' >= Spent(j)
      <3>1. CASE Catch(j0)
        BY <3>1, TriesAssumption DEF Catch, Thrown, Spent, Posted, Replies, TypeOK
      <3>2. CASE LoadRow(j0) \/ LoadEndpoint(j0) \/ RecordInactive(j0)
        BY <3>2, TriesAssumption DEF LoadRow, LoadEndpoint, RecordInactive, Step, Spent,
           Posted, Replies, TypeOK
      <3>3. CASE RecordSuccess(j0) \/ RecordRefusal(j0) \/ RecordRetryable(j0) \/ Touch(j0)
        BY <3>3, TriesAssumption DEF RecordSuccess, RecordRefusal, RecordRetryable, Touch,
           Step, Spent, Posted, Replies, TypeOK
      <3> QED BY <1>6, <3>1, <3>2, <3>3 DEF Work
    <2> QED BY <1>1, <2>1, <2>2, CountRests
  <1>7. ASSUME NEW j0 \in Jobs, Post(j0)
        PROVE  PostsAreSpent'
    BY <1>7, CountPosts
  <1>8. ASSUME NEW j0 \in Jobs, QueryFault(j0)
        PROVE  PostsAreSpent'
    <2>1. UNCHANGED <<target, posts>> /\ faults' >= faults
      BY <1>1, <1>8 DEF QueryFault, FaultAt, Step, Thrown, wireVars
    <2>2. \A j \in Jobs : Spent(j)' >= Spent(j)
      <3>1. CASE \E from \in Replies \union {"touch"} : Step(j0, from, "catch")
        BY <3>1, TriesAssumption DEF Step, Spent, Posted, Replies, TypeOK
      <3>2. CASE /\ pc[j0] \in {"waiting", "endpoint", "inactive", "catch"}
                 /\ Thrown(j0)
        BY <3>2, TriesAssumption DEF Thrown, Spent, Posted, Replies, TypeOK
      <3> QED BY <1>8, <3>1, <3>2 DEF QueryFault
    <2> QED BY <2>1, <2>2, CountRests
  <1>9. ASSUME NEW j0 \in Jobs, WorkerDies(j0)
        PROVE  PostsAreSpent'
    BY <1>9, CountDies
  <1>10. CASE FanOutFault \/ ManualFault
    BY <1>1, <1>2, <1>10 DEF FanOutFault, ManualFault, FaultAt, wireVars
  <1>11. CASE Operator
    BY <1>1, <1>2, <1>11 DEF Operator, ManualReset, ManualMismatch, ResetRow,
       DeleteEndpoint, Deactivate, wireVars,
       faultVars
  <1>12. CASE UNCHANGED vars
    BY <1>1, <1>2, <1>12 DEF vars, wireVars, faultVars
  <1> QED
    BY <1>3, <1>4, <1>5, <1>6, <1>7, <1>8, <1>9, <1>10, <1>11, <1>12, Zenon
       DEF Next, Produce, Fault

(* An endpoint is called no more often than the tries of the jobs for it,  *)
(* and once again for each worker that died: whatever the retries, the     *)
(* manual retries and the faults, no loop of the worker calls for ever.    *)
THEOREM PostsAreBoundedHolds == Spec => []PostsAreBounded
  <1>2. Init => PostsAreSpent
    <2> SUFFICES ASSUME Init, NEW d \in Deliveries
                 PROVE  /\ IsFiniteSet(JobsOf(d))
                        /\ posts[d] <= Cardinality(Slots(d)) + faults
      BY DEF PostsAreSpent
    <2>1. JobsOf(d) = {}
      BY NoneAssumption DEF Init, JobsOf
    <2>2. Slots(d) = {}
      BY <2>1 DEF Slots
    <2>3. posts[d] = 0 /\ faults = 0
      BY DEF Init
    <2> QED BY <2>1, <2>2, <2>3, FS_EmptySet
  <1>3. IInv /\ IInv' /\ PostsAreSpent /\ [Next]_vars => PostsAreSpent'
    BY SpentStep DEF IInv
  <1>4. IInv /\ PostsAreSpent => PostsAreBounded
    <2> SUFFICES ASSUME IInv, PostsAreSpent, NEW d \in Deliveries
                 PROVE  posts[d] <= Cardinality(JobsOf(d)) * Tries + faults
      BY DEF PostsAreBounded
    <2>1. /\ Cardinality(JobsOf(d)) \in Nat
          /\ Cardinality(Slots(d)) \in Nat
          /\ Cardinality(Slots(d)) <= Cardinality(JobsOf(d)) * Tries
      BY SlotsAreTries, FS_CardinalityType DEF PostsAreSpent
    <2>2. Cardinality(JobsOf(d)) * Tries \in Nat
      BY <2>1, TriesAssumption
    <2>3. posts[d] <= Cardinality(Slots(d)) + faults
      BY DEF PostsAreSpent
    <2>4. posts[d] \in Nat /\ faults \in Nat
      BY TriesAssumption DEF IInv, TypeOK
    <2> HIDE DEF Slots, JobsOf
    <2> QED BY <2>1, <2>2, <2>3, <2>4
  <1> QED BY <1>2, <1>3, <1>4, Inductive, PTL DEF Spec
=============================================================================
