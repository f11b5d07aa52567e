---------------------- MODULE FacilitatorSettle_proofs ----------------------
(* The facilitator's settle, for any number of requests, payloads and hours*)
(* and any failover order; and its sellers, for any number of exchanges    *)
(* and tries.                                                              *)
EXTENDS SellerSettle, TLAPS

(* The row of a request, by where it is.                                   *)
RowByPlace ==
    \A q \in Requests :
        /\ pc[q] = "idle" <=> key[q] = None
        /\ pc[q] \in {"idle", "insert", "fetch"} => status[q] = "none"
        /\ pc[q] \in {"settle", "wait", "record"} => status[q] = "pending"
        /\ pc[q] = "notify" => status[q] \in {"settled", "failed"}
        /\ pc[q] \notin {"done", "crashed"} => answer[q] = None
        /\ key[q] = None => status[q] = "none"

(* The unique index.                                                       *)
OneRowPerKey ==
    \A p, q \in Requests :
        key[p] = key[q] /\ status[p] # "none" /\ status[q] # "none" => p = q

(* Whoever calls an adapter has its row.                                   *)
CallsHaveRows == \A c \in calls : status[c[1]] # "none"

(* The failover events are written after the last call, one for each       *)
(* adapter that was failed over from.                                      *)
TrailSoFar ==
    \A q \in Requests :
        /\ Len(events[q]) <= failed[q]
        /\ pc[q] \notin {"record", "notify", "done", "crashed"} => events[q] = <<>>
        /\ \A i \in 1 .. Len(events[q]) :
              events[q][i] = <<Priority[i], Priority[failed[q] + 1]>>
        /\ status[q] \in {"settled", "failed"} =>
              Len(events[q]) = failed[q] /\ used[q] = Priority[failed[q] + 1]

(* A hash vouches for the chain from the moment an adapter returns it.     *)
HashVouches ==
    \A q \in Requests :
        /\ pc[q] = "record" /\ outcome[q] = "hash" =>
              paidBy[key[q][1]] = Priority[failed[q] + 1]
        /\ hash[q] = "present" =>
              /\ status[q] = "settled"
              /\ paidBy[key[q][1]] = Priority[failed[q] + 1]

FacilitatorInv ==
    /\ TypeOK /\ RowByPlace /\ OneRowPerKey /\ CallsHaveRows /\ TrailSoFar
    /\ HashVouches /\ ToldIsOnFile

(* The adapter a request is at is one of the route's.                      *)
LEMMA AdapterOfRoute ==
    ASSUME TypeOK, NEW q \in Requests
    PROVE  /\ failed[q] \in Nat /\ failed[q] + 1 \in DOMAIN Priority
           /\ Priority[failed[q] + 1] \in Adapters
           /\ Priority[failed[q] + 1] # None
  <1>1. Len(Priority) \in Nat /\ Len(Priority) > 0 /\ DOMAIN Priority = 1 .. Len(Priority)
    BY PriorityAssumption
  <1>2. failed[q] \in 0 .. Len(Priority) - 1
    BY DEF TypeOK
  <1>3. failed[q] + 1 \in DOMAIN Priority
    BY <1>1, <1>2
  <1>4. Priority[failed[q] + 1] \in Adapters
    BY <1>3, PriorityAssumption
  <1> QED BY <1>2, <1>3, <1>4, NoneAssumption

(* Type correctness.                                                       *)
LEMMA TypeStep ==
    ASSUME TypeOK, RowByPlace, [Next]_vars
    PROVE  TypeOK'
  <1> USE DEF Goto, rowVars, workVars, chainVars
  <1>1. ASSUME NEW q0 \in Requests, NEW x0 \in Payloads, Receive(q0, x0)
        PROVE  TypeOK'
    <2>1. <<x0, hour>> \in Keys
      BY DEF Keys, TypeOK
    <2>2. key' \in [Requests -> Keys \union {None}]
      BY <1>1, <2>1 DEF Receive, DeriveKey, TypeOK
    <2> QED BY <1>1, <2>2 DEF Receive, TypeOK
  <1>2. ASSUME NEW q0 \in Requests, InsertRow(q0)
        PROVE  TypeOK'
    BY <1>2 DEF TypeOK, InsertRow, Rows
  <1>3. ASSUME NEW q0 \in Requests, InsertConflict(q0)
        PROVE  TypeOK'
    BY <1>3 DEF TypeOK, InsertConflict
  <1>4. ASSUME NEW q0 \in Requests, FetchExisting(q0)
        PROVE  TypeOK'
    <2>1. answer' \in [Requests -> Answers \union {None, Error}]
      <3>1. PICK p \in Rows(key[q0]) : AnswerWith(q0, p)
        BY <1>4 DEF FetchExisting
      <3>2. [payment |-> p, status |-> Response(status[p])] \in Answers
        BY <3>1 DEF Answers, Rows, Response
      <3> QED BY <3>1, <3>2 DEF AnswerWith, TypeOK
    <2> QED BY <1>4, <2>1 DEF FetchExisting, TypeOK
  <1>5. ASSUME NEW q0 \in Requests, CallAdapter(q0)
        PROVE  TypeOK'
    <2>1. Adapter(q0) \in Adapters
      BY AdapterOfRoute DEF Adapter
    <2> QED BY <1>5, <2>1 DEF CallAdapter, TypeOK
  <1>6. ASSUME NEW q0 \in Requests, NEW o0 \in Outcomes, AdapterReturns(q0, o0)
        PROVE  TypeOK'
    <2>1. CASE ~FailsOver(q0, o0)
      BY <1>6, <2>1, ZenonT(60) DEF AdapterReturns, TypeOK
    <2>2. CASE FailsOver(q0, o0)
      <3>1. failed[q0] + 1 \in 0 .. Len(Priority) - 1
        BY <2>2, AdapterOfRoute, PriorityAssumption DEF FailsOver, OnLast
      <3> QED BY <1>6, <2>2, <3>1 DEF AdapterReturns, TypeOK
    <2> QED BY <2>1, <2>2
  <1>7. ASSUME NEW q0 \in Requests, RecordFailover(q0)
        PROVE  TypeOK'
    <2>1. Len(events[q0]) \in Nat /\ Len(events[q0]) < failed[q0]
      BY <1>7 DEF RecordFailover, TypeOK
    <2>2. Priority[Len(events[q0]) + 1] \in Adapters
      <3>1. failed[q0] + 1 \in 1 .. Len(Priority) /\ Len(Priority) \in Nat
        BY AdapterOfRoute, PriorityAssumption
      <3>2. Len(events[q0]) + 1 \in 1 .. Len(Priority)
        BY <2>1, <3>1, AdapterOfRoute
      <3> QED BY <3>2, PriorityAssumption
    <2>3. Adapter(q0) \in Adapters
      BY AdapterOfRoute DEF Adapter
    <2>4. events' \in [Requests -> Seq(Adapters \X Adapters)]
      <3>1. Append(events[q0], <<Priority[Len(events[q0]) + 1], Adapter(q0)>>)
              \in Seq(Adapters \X Adapters)
        BY <2>2, <2>3 DEF TypeOK
      <3> QED BY <1>7, <3>1 DEF RecordFailover, TypeOK
    <2> QED BY <1>7, <2>4 DEF RecordFailover, TypeOK
  <1>8. ASSUME NEW q0 \in Requests, Finalize(q0)
        PROVE  TypeOK'
    <2>1. Adapter(q0) \in Adapters
      BY AdapterOfRoute DEF Adapter
    <2>2. HashAfter(outcome[q0]) \in {"null", "empty", "present"}
      BY DEF HashAfter
    <2> QED BY <1>8, <2>1, <2>2 DEF Finalize, TypeOK
  <1>9. ASSUME NEW q0 \in Requests, NotifyAndRespond(q0)
        PROVE  TypeOK'
    <2>1. status[q0] \in {"settled", "failed"}
      BY <1>9 DEF NotifyAndRespond, RowByPlace
    <2>2. [payment |-> q0, status |-> Response(status[q0])] \in Answers
      BY DEF Answers, Response
    <2> QED BY <1>9, <2>1, <2>2 DEF NotifyAndRespond, AnswerWith, TypeOK
  <1>10. ASSUME NEW q0 \in Requests, QueryFault(q0)
        PROVE  TypeOK'
    BY <1>10 DEF TypeOK, QueryFault
  <1>11. ASSUME NEW q0 \in Requests, Crash(q0)
        PROVE  TypeOK'
    BY <1>11 DEF TypeOK, Crash
  <1>12. ASSUME NEW q0 \in Requests, NEW a0 \in Adapters, Land(q0, a0)
        PROVE  TypeOK'
    BY <1>12 DEF TypeOK, Land
  <1>13. ASSUME HourPasses
        PROVE  TypeOK'
    <2>1. hour' \in Hours
      BY <1>13, LastHourAssumption DEF HourPasses, Hours, TypeOK
    <2> QED BY <1>13, <2>1 DEF HourPasses, TypeOK
  <1>14. CASE UNCHANGED vars
    BY <1>14 DEF TypeOK, vars
  <1> QED
    BY <1>1, <1>2, <1>3, <1>4, <1>5, <1>6, <1>7, <1>8, <1>9, <1>10, <1>11,
       <1>12, <1>13, <1>14, Zenon DEF Next, Handle, Fault, Environment

(* The row of a request, by where it is.                                   *)
LEMMA RowStep ==
    ASSUME TypeOK, RowByPlace, [Next]_vars
    PROVE  RowByPlace'
  <1> USE DEF Goto, rowVars, workVars, chainVars
  <1>1. ASSUME NEW q0 \in Requests, NEW x0 \in Payloads, Receive(q0, x0)
        PROVE  RowByPlace'
    <2>1. <<x0, hour>> # None
      BY NoneAssumption DEF Keys, TypeOK
    <2> QED BY <1>1, <2>1 DEF Receive, DeriveKey, TypeOK, RowByPlace
  <1>2. ASSUME NEW q0 \in Requests, InsertRow(q0)
        PROVE  RowByPlace'
    BY <1>2 DEF TypeOK, RowByPlace, InsertRow, Rows
  <1>3. ASSUME NEW q0 \in Requests, InsertConflict(q0)
        PROVE  RowByPlace'
    BY <1>3 DEF TypeOK, RowByPlace, InsertConflict
  <1>4. ASSUME NEW q0 \in Requests, FetchExisting(q0)
        PROVE  RowByPlace'
    BY <1>4 DEF TypeOK, RowByPlace, FetchExisting, Rows, AnswerWith
  <1>5. ASSUME NEW q0 \in Requests, CallAdapter(q0)
        PROVE  RowByPlace'
    BY <1>5 DEF TypeOK, RowByPlace, CallAdapter
  <1>6. ASSUME NEW q0 \in Requests, NEW o0 \in Outcomes, AdapterReturns(q0, o0)
        PROVE  RowByPlace'
    BY <1>6 DEF TypeOK, RowByPlace, AdapterReturns, FailsOver, OnLast
  <1>7. ASSUME NEW q0 \in Requests, RecordFailover(q0)
        PROVE  RowByPlace'
    BY <1>7 DEF TypeOK, RowByPlace, RecordFailover
  <1>8. ASSUME NEW q0 \in Requests, Finalize(q0)
        PROVE  RowByPlace'
    BY <1>8 DEF TypeOK, RowByPlace, Finalize, AllRecorded, HashAfter
  <1>9. ASSUME NEW q0 \in Requests, NotifyAndRespond(q0)
        PROVE  RowByPlace'
    BY <1>9 DEF TypeOK, RowByPlace, NotifyAndRespond, AnswerWith
  <1>10. ASSUME NEW q0 \in Requests, QueryFault(q0)
        PROVE  RowByPlace'
    BY <1>10 DEF TypeOK, RowByPlace, QueryFault
  <1>11. ASSUME NEW q0 \in Requests, Crash(q0)
        PROVE  RowByPlace'
    BY <1>11 DEF TypeOK, RowByPlace, Crash
  <1>12. ASSUME NEW q0 \in Requests, NEW a0 \in Adapters, Land(q0, a0)
        PROVE  RowByPlace'
    BY <1>12 DEF TypeOK, RowByPlace, Land
  <1>13. ASSUME HourPasses
        PROVE  RowByPlace'
    BY <1>13 DEF TypeOK, RowByPlace, HourPasses
  <1>14. CASE UNCHANGED vars
    BY <1>14 DEF TypeOK, RowByPlace, vars
  <1> QED
    BY <1>1, <1>2, <1>3, <1>4, <1>5, <1>6, <1>7, <1>8, <1>9, <1>10, <1>11,
       <1>12, <1>13, <1>14, Zenon DEF Next, Handle, Fault, Environment

(* One row per key.                                                        *)
LEMMA OneRowStep ==
    ASSUME TypeOK, RowByPlace, OneRowPerKey, [Next]_vars
    PROVE  OneRowPerKey'
  <1> USE DEF Goto, rowVars, workVars, chainVars
  <1>1. ASSUME NEW q0 \in Requests, NEW x0 \in Payloads, Receive(q0, x0)
        PROVE  OneRowPerKey'
    BY <1>1 DEF TypeOK, RowByPlace, OneRowPerKey, Receive, DeriveKey
  <1>2. ASSUME NEW q0 \in Requests, InsertRow(q0)
        PROVE  OneRowPerKey'
    BY <1>2 DEF TypeOK, RowByPlace, OneRowPerKey, InsertRow, Rows
  <1>3. ASSUME NEW q0 \in Requests, InsertConflict(q0)
        PROVE  OneRowPerKey'
    BY <1>3 DEF TypeOK, RowByPlace, OneRowPerKey, InsertConflict
  <1>4. ASSUME NEW q0 \in Requests, FetchExisting(q0)
        PROVE  OneRowPerKey'
    BY <1>4 DEF TypeOK, RowByPlace, OneRowPerKey, FetchExisting, Rows,
       AnswerWith
  <1>5. ASSUME NEW q0 \in Requests, CallAdapter(q0)
        PROVE  OneRowPerKey'
    BY <1>5 DEF TypeOK, RowByPlace, OneRowPerKey, CallAdapter
  <1>6. ASSUME NEW q0 \in Requests, NEW o0 \in Outcomes, AdapterReturns(q0, o0)
        PROVE  OneRowPerKey'
    BY <1>6 DEF TypeOK, RowByPlace, OneRowPerKey, AdapterReturns,
       FailsOver, OnLast
  <1>7. ASSUME NEW q0 \in Requests, RecordFailover(q0)
        PROVE  OneRowPerKey'
    BY <1>7 DEF TypeOK, RowByPlace, OneRowPerKey, RecordFailover
  <1>8. ASSUME NEW q0 \in Requests, Finalize(q0)
        PROVE  OneRowPerKey'
    BY <1>8 DEF TypeOK, RowByPlace, OneRowPerKey, Finalize, AllRecorded,
       HashAfter
  <1>9. ASSUME NEW q0 \in Requests, NotifyAndRespond(q0)
        PROVE  OneRowPerKey'
    BY <1>9 DEF TypeOK, RowByPlace, OneRowPerKey, NotifyAndRespond,
       AnswerWith
  <1>10. ASSUME NEW q0 \in Requests, QueryFault(q0)
        PROVE  OneRowPerKey'
    BY <1>10 DEF TypeOK, RowByPlace, OneRowPerKey, QueryFault
  <1>11. ASSUME NEW q0 \in Requests, Crash(q0)
        PROVE  OneRowPerKey'
    BY <1>11 DEF TypeOK, RowByPlace, OneRowPerKey, Crash
  <1>12. ASSUME NEW q0 \in Requests, NEW a0 \in Adapters, Land(q0, a0)
        PROVE  OneRowPerKey'
    BY <1>12 DEF TypeOK, RowByPlace, OneRowPerKey, Land
  <1>13. ASSUME HourPasses
        PROVE  OneRowPerKey'
    BY <1>13 DEF TypeOK, RowByPlace, OneRowPerKey, HourPasses
  <1>14. CASE UNCHANGED vars
    BY <1>14 DEF TypeOK, RowByPlace, OneRowPerKey, vars
  <1> QED
    BY <1>1, <1>2, <1>3, <1>4, <1>5, <1>6, <1>7, <1>8, <1>9, <1>10, <1>11,
       <1>12, <1>13, <1>14, Zenon DEF Next, Handle, Fault, Environment

(* Whoever calls an adapter has its row.                                   *)
LEMMA CallsStep ==
    ASSUME TypeOK, RowByPlace, CallsHaveRows, [Next]_vars
    PROVE  CallsHaveRows'
  <1> USE DEF Goto, rowVars, workVars, chainVars
  <1>1. ASSUME NEW q0 \in Requests, NEW x0 \in Payloads, Receive(q0, x0)
        PROVE  CallsHaveRows'
    BY <1>1 DEF TypeOK, RowByPlace, CallsHaveRows, Receive, DeriveKey
  <1>2. ASSUME NEW q0 \in Requests, InsertRow(q0)
        PROVE  CallsHaveRows'
    BY <1>2 DEF TypeOK, RowByPlace, CallsHaveRows, InsertRow, Rows
  <1>3. ASSUME NEW q0 \in Requests, InsertConflict(q0)
        PROVE  CallsHaveRows'
    BY <1>3 DEF TypeOK, RowByPlace, CallsHaveRows, InsertConflict
  <1>4. ASSUME NEW q0 \in Requests, FetchExisting(q0)
        PROVE  CallsHaveRows'
    BY <1>4 DEF TypeOK, RowByPlace, CallsHaveRows, FetchExisting, Rows,
       AnswerWith
  <1>5. ASSUME NEW q0 \in Requests, CallAdapter(q0)
        PROVE  CallsHaveRows'
    BY <1>5 DEF TypeOK, RowByPlace, CallsHaveRows, CallAdapter
  <1>6. ASSUME NEW q0 \in Requests, NEW o0 \in Outcomes, AdapterReturns(q0, o0)
        PROVE  CallsHaveRows'
    BY <1>6 DEF TypeOK, RowByPlace, CallsHaveRows, AdapterReturns,
       FailsOver, OnLast
  <1>7. ASSUME NEW q0 \in Requests, RecordFailover(q0)
        PROVE  CallsHaveRows'
    BY <1>7 DEF TypeOK, RowByPlace, CallsHaveRows, RecordFailover
  <1>8. ASSUME NEW q0 \in Requests, Finalize(q0)
        PROVE  CallsHaveRows'
    BY <1>8 DEF TypeOK, RowByPlace, CallsHaveRows, Finalize, AllRecorded,
       HashAfter
  <1>9. ASSUME NEW q0 \in Requests, NotifyAndRespond(q0)
        PROVE  CallsHaveRows'
    BY <1>9 DEF TypeOK, RowByPlace, CallsHaveRows, NotifyAndRespond,
       AnswerWith
  <1>10. ASSUME NEW q0 \in Requests, QueryFault(q0)
        PROVE  CallsHaveRows'
    BY <1>10 DEF TypeOK, RowByPlace, CallsHaveRows, QueryFault
  <1>11. ASSUME NEW q0 \in Requests, Crash(q0)
        PROVE  CallsHaveRows'
    BY <1>11 DEF TypeOK, RowByPlace, CallsHaveRows, Crash
  <1>12. ASSUME NEW q0 \in Requests, NEW a0 \in Adapters, Land(q0, a0)
        PROVE  CallsHaveRows'
    BY <1>12 DEF TypeOK, RowByPlace, CallsHaveRows, Land
  <1>13. ASSUME HourPasses
        PROVE  CallsHaveRows'
    BY <1>13 DEF TypeOK, RowByPlace, CallsHaveRows, HourPasses
  <1>14. CASE UNCHANGED vars
    BY <1>14 DEF TypeOK, RowByPlace, CallsHaveRows, vars
  <1> QED
    BY <1>1, <1>2, <1>3, <1>4, <1>5, <1>6, <1>7, <1>8, <1>9, <1>10, <1>11,
       <1>12, <1>13, <1>14, Zenon DEF Next, Handle, Fault, Environment

(* The events, so far.                                                     *)
LEMMA TrailStep ==
    ASSUME TypeOK, RowByPlace, TrailSoFar, [Next]_vars
    PROVE  TrailSoFar'
  <1> USE DEF Goto, rowVars, workVars, chainVars
  <1>1. ASSUME NEW q0 \in Requests, NEW x0 \in Payloads, Receive(q0, x0)
        PROVE  TrailSoFar'
    BY <1>1 DEF TypeOK, RowByPlace, TrailSoFar, Receive, DeriveKey
  <1>2. ASSUME NEW q0 \in Requests, InsertRow(q0)
        PROVE  TrailSoFar'
    BY <1>2 DEF TypeOK, RowByPlace, TrailSoFar, InsertRow, Rows
  <1>3. ASSUME NEW q0 \in Requests, InsertConflict(q0)
        PROVE  TrailSoFar'
    BY <1>3 DEF TypeOK, RowByPlace, TrailSoFar, InsertConflict
  <1>4. ASSUME NEW q0 \in Requests, FetchExisting(q0)
        PROVE  TrailSoFar'
    BY <1>4 DEF TypeOK, RowByPlace, TrailSoFar, FetchExisting, Rows,
       AnswerWith
  <1>5. ASSUME NEW q0 \in Requests, CallAdapter(q0)
        PROVE  TrailSoFar'
    BY <1>5 DEF TypeOK, RowByPlace, TrailSoFar, CallAdapter
  <1>6. ASSUME NEW q0 \in Requests, NEW o0 \in Outcomes, AdapterReturns(q0, o0)
        PROVE  TrailSoFar'
    BY <1>6, AdapterOfRoute, SMTT(60) DEF TypeOK, RowByPlace, TrailSoFar,
       AdapterReturns, FailsOver, OnLast
  <1>7. ASSUME NEW q0 \in Requests, RecordFailover(q0)
        PROVE  TrailSoFar'
    <2> DEFINE n == Len(events[q0])
    <2>1. n \in Nat /\ n < failed[q0] /\ events[q0] \in Seq(Adapters \X Adapters)
      BY <1>7 DEF RecordFailover, TypeOK
    <2>2. /\ events'[q0] = Append(events[q0], <<Priority[n + 1], Priority[failed[q0] + 1]>>)
          /\ \A q \in Requests \ {q0} : events'[q] = events[q]
      BY <1>7 DEF RecordFailover, Adapter, TypeOK
    <2>3. /\ Len(events'[q0]) = n + 1
          /\ events'[q0][n + 1] = <<Priority[n + 1], Priority[failed[q0] + 1]>>
          /\ \A i \in 1 .. n : events'[q0][i] = events[q0][i]
      BY <2>1, <2>2
    <2>4. /\ Len(events'[q0]) <= failed[q0]
          /\ \A i \in 1 .. Len(events'[q0]) :
                events'[q0][i] = <<Priority[i], Priority[failed[q0] + 1]>>
      <3>1. Len(events'[q0]) <= failed[q0]
        BY <2>1, <2>3, AdapterOfRoute
      <3>2. ASSUME NEW i \in 1 .. n + 1
            PROVE  events'[q0][i] = <<Priority[i], Priority[failed[q0] + 1]>>
        <4>1. CASE i = n + 1
          BY <2>3, <4>1
        <4>2. CASE i \in 1 .. n
          BY <2>3, <4>2 DEF TrailSoFar
        <4>3. i = n + 1 \/ i \in 1 .. n
          <5>1. n \in Nat
            BY <2>1
          <5> HIDE DEF n
          <5> QED BY <5>1
        <4> QED BY <4>1, <4>2, <4>3
      <3> QED BY <2>3, <3>1, <3>2
    <2>5. status[q0] = "pending"
      BY <1>7 DEF RecordFailover, RowByPlace
    <2>6. UNCHANGED <<pc, failed, status, used>> /\ pc[q0] = "record"
      BY <1>7 DEF RecordFailover, TypeOK
    <2> SUFFICES ASSUME NEW q \in Requests
                 PROVE  /\ Len(events'[q]) <= failed[q]
                        /\ pc[q] \notin {"record", "notify", "done", "crashed"} =>
                              events'[q] = <<>>
                        /\ \A i \in 1 .. Len(events'[q]) :
                              events'[q][i] = <<Priority[i], Priority[failed[q] + 1]>>
                        /\ status[q] \in {"settled", "failed"} =>
                              /\ Len(events'[q]) = failed[q]
                              /\ used[q] = Priority[failed[q] + 1]
      BY <2>6, Zenon DEF TrailSoFar
    <2>7. CASE q = q0
      BY <2>4, <2>5, <2>6, <2>7
    <2>8. CASE q # q0
      <3>1. events'[q] = events[q]
        BY <2>2, <2>8
      <3> QED BY <3>1 DEF TrailSoFar
    <2> QED BY <2>7, <2>8
  <1>8. ASSUME NEW q0 \in Requests, Finalize(q0)
        PROVE  TrailSoFar'
    <2>1. /\ Len(events[q0]) = failed[q0] /\ pc[q0] = "record"
          /\ used'[q0] = Priority[failed[q0] + 1]
          /\ UNCHANGED <<events, failed>>
      BY <1>8 DEF Finalize, AllRecorded, Adapter, TypeOK
    <2>2. \A q \in Requests \ {q0} :
              pc'[q] = pc[q] /\ used'[q] = used[q] /\ status'[q] = status[q]
      BY <1>8 DEF Finalize, TypeOK
    <2>3. pc'[q0] = "notify"
      BY <1>8 DEF Finalize, TypeOK
    <2> QED BY <2>1, <2>2, <2>3 DEF TrailSoFar
  <1>9. ASSUME NEW q0 \in Requests, NotifyAndRespond(q0)
        PROVE  TrailSoFar'
    BY <1>9 DEF TypeOK, RowByPlace, TrailSoFar, NotifyAndRespond,
       AnswerWith
  <1>10. ASSUME NEW q0 \in Requests, QueryFault(q0)
        PROVE  TrailSoFar'
    <2>1. pc' = [pc EXCEPT ![q0] = "done"] /\ UNCHANGED <<status, used, failed, events>>
      BY <1>10 DEF QueryFault, Goto, rowVars
    <2> QED BY <2>1 DEF TypeOK, TrailSoFar
  <1>11. ASSUME NEW q0 \in Requests, Crash(q0)
        PROVE  TrailSoFar'
    BY <1>11 DEF TypeOK, RowByPlace, TrailSoFar, Crash
  <1>12. ASSUME NEW q0 \in Requests, NEW a0 \in Adapters, Land(q0, a0)
        PROVE  TrailSoFar'
    BY <1>12 DEF TypeOK, RowByPlace, TrailSoFar, Land
  <1>13. ASSUME HourPasses
        PROVE  TrailSoFar'
    BY <1>13 DEF TypeOK, RowByPlace, TrailSoFar, HourPasses
  <1>14. CASE UNCHANGED vars
    BY <1>14 DEF TypeOK, RowByPlace, TrailSoFar, vars
  <1> QED
    BY <1>1, <1>2, <1>3, <1>4, <1>5, <1>6, <1>7, <1>8, <1>9, <1>10, <1>11,
       <1>12, <1>13, <1>14, Zenon DEF Next, Handle, Fault, Environment

(* A hash vouches for the chain.                                           *)
LEMMA HashStep ==
    ASSUME TypeOK, RowByPlace, HashVouches, [Next]_vars
    PROVE  HashVouches'
  <1> USE DEF Goto, rowVars, workVars, chainVars
  <1>1. ASSUME NEW q0 \in Requests, NEW x0 \in Payloads, Receive(q0, x0)
        PROVE  HashVouches'
    BY <1>1 DEF TypeOK, RowByPlace, HashVouches, Adapter, Receive,
       DeriveKey
  <1>2. ASSUME NEW q0 \in Requests, InsertRow(q0)
        PROVE  HashVouches'
    BY <1>2 DEF TypeOK, RowByPlace, HashVouches, Adapter, InsertRow, Rows
  <1>3. ASSUME NEW q0 \in Requests, InsertConflict(q0)
        PROVE  HashVouches'
    BY <1>3 DEF TypeOK, RowByPlace, HashVouches, Adapter, InsertConflict
  <1>4. ASSUME NEW q0 \in Requests, FetchExisting(q0)
        PROVE  HashVouches'
    BY <1>4 DEF TypeOK, RowByPlace, HashVouches, Adapter, FetchExisting,
       Rows, AnswerWith
  <1>5. ASSUME NEW q0 \in Requests, CallAdapter(q0)
        PROVE  HashVouches'
    BY <1>5 DEF TypeOK, RowByPlace, HashVouches, Adapter, CallAdapter
  <1>6. ASSUME NEW q0 \in Requests, NEW o0 \in Outcomes, AdapterReturns(q0, o0)
        PROVE  HashVouches'
    BY <1>6, AdapterOfRoute, SMTT(60) DEF TypeOK, RowByPlace, HashVouches, Adapter,
       AdapterReturns, FailsOver, OnLast
  <1>7. ASSUME NEW q0 \in Requests, RecordFailover(q0)
        PROVE  HashVouches'
    BY <1>7 DEF TypeOK, RowByPlace, HashVouches, Adapter, RecordFailover
  <1>8. ASSUME NEW q0 \in Requests, Finalize(q0)
        PROVE  HashVouches'
    BY <1>8 DEF TypeOK, RowByPlace, HashVouches, Adapter, Finalize,
       AllRecorded, HashAfter
  <1>9. ASSUME NEW q0 \in Requests, NotifyAndRespond(q0)
        PROVE  HashVouches'
    BY <1>9 DEF TypeOK, RowByPlace, HashVouches, Adapter,
       NotifyAndRespond, AnswerWith
  <1>10. ASSUME NEW q0 \in Requests, QueryFault(q0)
        PROVE  HashVouches'
    BY <1>10 DEF TypeOK, RowByPlace, HashVouches, Adapter, QueryFault
  <1>11. ASSUME NEW q0 \in Requests, Crash(q0)
        PROVE  HashVouches'
    BY <1>11 DEF TypeOK, RowByPlace, HashVouches, Adapter, Crash
  <1>12. ASSUME NEW q0 \in Requests, NEW a0 \in Adapters, Land(q0, a0)
        PROVE  HashVouches'
    BY <1>12, AdapterOfRoute, SMTT(60) DEF TypeOK, RowByPlace, HashVouches, Adapter,
       Land
  <1>13. ASSUME HourPasses
        PROVE  HashVouches'
    BY <1>13 DEF TypeOK, RowByPlace, HashVouches, Adapter, HourPasses
  <1>14. CASE UNCHANGED vars
    BY <1>14 DEF TypeOK, RowByPlace, HashVouches, Adapter, vars
  <1> QED
    BY <1>1, <1>2, <1>3, <1>4, <1>5, <1>6, <1>7, <1>8, <1>9, <1>10, <1>11,
       <1>12, <1>13, <1>14, Zenon DEF Next, Handle, Fault, Environment

(* An outcome that was told is final.                                      *)
LEMMA ToldStep ==
    ASSUME TypeOK, RowByPlace, ToldIsOnFile, [Next]_vars
    PROVE  ToldIsOnFile'
  <1> USE DEF Goto, rowVars, workVars, chainVars
  <1>1. ASSUME NEW q0 \in Requests, NEW x0 \in Payloads, Receive(q0, x0)
        PROVE  ToldIsOnFile'
    BY <1>1 DEF TypeOK, RowByPlace, ToldIsOnFile, Answers, Receive,
       DeriveKey
  <1>2. ASSUME NEW q0 \in Requests, InsertRow(q0)
        PROVE  ToldIsOnFile'
    BY <1>2 DEF TypeOK, RowByPlace, ToldIsOnFile, Answers, InsertRow, Rows
  <1>3. ASSUME NEW q0 \in Requests, InsertConflict(q0)
        PROVE  ToldIsOnFile'
    BY <1>3 DEF TypeOK, RowByPlace, ToldIsOnFile, Answers, InsertConflict
  <1>4. ASSUME NEW q0 \in Requests, FetchExisting(q0)
        PROVE  ToldIsOnFile'
    BY <1>4 DEF TypeOK, RowByPlace, ToldIsOnFile, Answers, FetchExisting,
       Rows, AnswerWith, Response
  <1>5. ASSUME NEW q0 \in Requests, CallAdapter(q0)
        PROVE  ToldIsOnFile'
    BY <1>5 DEF TypeOK, RowByPlace, ToldIsOnFile, Answers, CallAdapter
  <1>6. ASSUME NEW q0 \in Requests, NEW o0 \in Outcomes, AdapterReturns(q0, o0)
        PROVE  ToldIsOnFile'
    BY <1>6 DEF TypeOK, RowByPlace, ToldIsOnFile, Answers, AdapterReturns,
       FailsOver, OnLast
  <1>7. ASSUME NEW q0 \in Requests, RecordFailover(q0)
        PROVE  ToldIsOnFile'
    BY <1>7 DEF TypeOK, RowByPlace, ToldIsOnFile, Answers, RecordFailover
  <1>8. ASSUME NEW q0 \in Requests, Finalize(q0)
        PROVE  ToldIsOnFile'
    BY <1>8 DEF TypeOK, RowByPlace, ToldIsOnFile, Answers, Finalize,
       AllRecorded, HashAfter
  <1>9. ASSUME NEW q0 \in Requests, NotifyAndRespond(q0)
        PROVE  ToldIsOnFile'
    BY <1>9 DEF TypeOK, RowByPlace, ToldIsOnFile, Answers,
       NotifyAndRespond, AnswerWith, Response
  <1>10. ASSUME NEW q0 \in Requests, QueryFault(q0)
        PROVE  ToldIsOnFile'
    <2>1. /\ answer'[q0] = Error
          /\ \A q \in Requests \ {q0} : answer'[q] = answer[q]
          /\ UNCHANGED <<hook, status>>
      BY <1>10 DEF QueryFault, TypeOK
    <2>2. Error \notin Answers
      BY NoneAssumption DEF Error, Answers
    <2> QED BY <2>1, <2>2 DEF ToldIsOnFile
  <1>11. ASSUME NEW q0 \in Requests, Crash(q0)
        PROVE  ToldIsOnFile'
    BY <1>11 DEF TypeOK, RowByPlace, ToldIsOnFile, Answers, Crash
  <1>12. ASSUME NEW q0 \in Requests, NEW a0 \in Adapters, Land(q0, a0)
        PROVE  ToldIsOnFile'
    BY <1>12 DEF TypeOK, RowByPlace, ToldIsOnFile, Answers, Land
  <1>13. ASSUME HourPasses
        PROVE  ToldIsOnFile'
    BY <1>13 DEF TypeOK, RowByPlace, ToldIsOnFile, Answers, HourPasses
  <1>14. CASE UNCHANGED vars
    BY <1>14 DEF TypeOK, RowByPlace, ToldIsOnFile, Answers, vars
  <1> QED
    BY <1>1, <1>2, <1>3, <1>4, <1>5, <1>6, <1>7, <1>8, <1>9, <1>10, <1>11,
       <1>12, <1>13, <1>14, Zenon DEF Next, Handle, Fault, Environment

(* The invariant, initially and at every step.                             *)
LEMMA FacilitatorInvInit == Init => FacilitatorInv
  <1> SUFFICES ASSUME Init
               PROVE  FacilitatorInv
    OBVIOUS
  <1>1. TypeOK
    <2>1. 0 \in 0 .. Len(Priority) - 1 /\ 0 \in Hours
      BY PriorityAssumption, LastHourAssumption DEF Hours
    <2> QED BY <2>1 DEF Init, TypeOK
  <1>2. RowByPlace /\ OneRowPerKey /\ CallsHaveRows /\ HashVouches
    BY DEF Init, RowByPlace, OneRowPerKey, CallsHaveRows, HashVouches
  <1>3. TrailSoFar
    <2>1. \A q \in Requests :
              events[q] = <<>> /\ failed[q] = 0 /\ status[q] = "none"
      BY DEF Init
    <2>2. \A q \in Requests : Len(events[q]) = 0
      <3>1. Len(<<>>) = 0
        OBVIOUS
      <3> QED BY <2>1, <3>1, Zenon
    <2>3. ASSUME NEW q \in Requests, NEW i \in 1 .. Len(events[q])
          PROVE  FALSE
      <3>1. i \in 1 .. 0
        BY <2>2
      <3> QED BY <3>1
    <2>4. \A q \in Requests : Len(events[q]) <= failed[q]
      <3>1. 0 <= 0
        OBVIOUS
      <3> QED BY <2>1, <2>2, <3>1, Zenon
    <2> QED BY <2>1, <2>3, <2>4, Zenon DEF TrailSoFar
  <1>4. ToldIsOnFile
    BY NoneAssumption DEF Init, ToldIsOnFile, Answers
  <1> QED BY <1>1, <1>2, <1>3, <1>4 DEF FacilitatorInv

LEMMA FacilitatorInvStep == FacilitatorInv /\ [Next]_vars => FacilitatorInv'
  <1> SUFFICES ASSUME FacilitatorInv, [Next]_vars
               PROVE  FacilitatorInv'
    OBVIOUS
  <1> USE DEF FacilitatorInv
  <1>1. TypeOK' /\ RowByPlace' /\ OneRowPerKey' /\ CallsHaveRows'
    BY TypeStep, RowStep, OneRowStep, CallsStep
  <1>2. TrailSoFar' /\ HashVouches' /\ ToldIsOnFile'
    BY TrailStep, HashStep, ToldStep
  <1> QED BY <1>1, <1>2

LEMMA Inductive == Spec => []FacilitatorInv
  BY FacilitatorInvInit, FacilitatorInvStep, PTL DEF Spec

(* Every reachable state has the declared shape.                           *)
THEOREM TypeCorrect == Spec => []TypeOK
  BY Inductive, PTL DEF FacilitatorInv

(* Within an hour one request at most broadcasts a payload.                *)
THEOREM OneSettlePerKeyHolds == Spec => []OneSettlePerKey
  <1>1. FacilitatorInv => OneSettlePerKey
    <2> SUFFICES ASSUME FacilitatorInv, NEW c \in calls
                 PROVE  Rows(key[c[1]]) = {c[1]}
      BY DEF OneSettlePerKey
    <2>1. c[1] \in Requests /\ status[c[1]] # "none"
      BY DEF FacilitatorInv, TypeOK, CallsHaveRows
    <2> QED BY <2>1 DEF FacilitatorInv, OneRowPerKey, Rows
  <1> QED BY <1>1, Inductive, PTL

(* The failover events of a resolved payment are complete and in order.    *)
THEOREM FailoverTrailHolds == Spec => []FailoverTrail
  <1>1. FacilitatorInv => FailoverTrail
    <2> SUFFICES ASSUME FacilitatorInv, NEW q \in Requests, status[q] \in {"settled", "failed"}
                 PROVE  \E n \in DOMAIN Priority :
                            /\ used[q] = Priority[n]
                            /\ events[q] = [i \in 1 .. n - 1 |-> <<Priority[i], Priority[n]>>]
      BY DEF FailoverTrail
    <2> DEFINE n == failed[q] + 1
    <2>1. n \in DOMAIN Priority /\ failed[q] \in Nat
      BY AdapterOfRoute DEF FacilitatorInv
    <2>2. /\ Len(events[q]) = failed[q] /\ used[q] = Priority[n]
          /\ \A i \in 1 .. failed[q] : events[q][i] = <<Priority[i], Priority[n]>>
      BY DEF FacilitatorInv, TrailSoFar
    <2>3. events[q] = [i \in 1 .. failed[q] |-> <<Priority[i], Priority[n]>>]
      <3>1. events[q] \in Seq(Adapters \X Adapters)
        BY DEF FacilitatorInv, TypeOK
      <3>2. events[q] = [i \in 1 .. failed[q] |-> events[q][i]]
        BY <2>1, <2>2, <3>1
      <3> QED BY <2>2, <3>2
    <2>4. n - 1 = failed[q]
      BY <2>1
    <2> QED BY <2>1, <2>2, <2>3, <2>4
  <1> QED BY <1>1, Inductive, PTL

(* A hash on file is a payment through the adapter on file.                *)
THEOREM HashIsPaymentHolds == Spec => []HashIsPayment
  <1>1. FacilitatorInv => HashIsPayment
    BY DEF FacilitatorInv, HashVouches, TrailSoFar, HashIsPayment
  <1> QED BY <1>1, Inductive, PTL

(* What the webhook, the request that settled and a replay that was told   *)
(* of success were told stays on file.                                     *)
THEOREM ToldIsOnFileHolds == Spec => []ToldIsOnFile
  BY Inductive, PTL DEF FacilitatorInv

-----------------------------------------------------------------------------
(* A step of the endpoint is a step of the promise, or none of its concern.*)
LEMMA StepRefines == FacilitatorInv /\ [Next]_vars => [Promise!Next]_(Promise!vars)
  <1> SUFFICES ASSUME FacilitatorInv, [Next]_vars
               PROVE  Promise!Next \/ UNCHANGED <<key, status, answer>>
    BY DEF Promise!vars
  <1> USE DEF Goto, rowVars, workVars, chainVars, FacilitatorInv
  <1>1. ASSUME NEW q \in Requests, NEW x \in Payloads, Receive(q, x)
        PROVE  Promise!Next
    <2>1. <<x, hour>> \in Keys /\ key[q] = None
      BY <1>1 DEF Receive, Keys, TypeOK, RowByPlace
    <2>2. Promise!Arrive(q, <<x, hour>>)
      BY <1>1, <2>1 DEF Receive, DeriveKey, Promise!Arrive
    <2> QED BY <2>1, <2>2 DEF Promise!Next
  <1>2. ASSUME NEW q \in Requests, InsertRow(q)
        PROVE  Promise!Next
    <2>1. Promise!Open(q)
      BY <1>2 DEF InsertRow, Rows, RowByPlace, Promise!Open, Promise!Opened
    <2> QED BY <2>1 DEF Promise!Next
  <1>3. ASSUME NEW q \in Requests, FetchExisting(q)
        PROVE  Promise!Next
    <2>1. PICK p \in Rows(key[q]) : AnswerWith(q, p)
      BY <1>3 DEF FetchExisting
    <2>2. p \in Requests /\ Promise!Answer(q, p)
      BY <1>3, <2>1 DEF FetchExisting, AnswerWith, Response, Rows, RowByPlace,
         Promise!Answer, Promise!Said, Promise!Opened
    <2> QED BY <2>2 DEF Promise!Next
  <1>4. ASSUME NEW q \in Requests, Finalize(q)
        PROVE  Promise!Next
    <2>1. status[q] = "pending" /\ UNCHANGED <<key, answer>>
      BY <1>4 DEF Finalize, RowByPlace
    <2>2. \E s \in {"settled", "failed"} : status' = [status EXCEPT ![q] = s]
      BY <1>4 DEF Finalize
    <2>3. \E s \in {"settled", "failed"} : Promise!Resolve(q, s)
      BY <2>1, <2>2, Zenon DEF Promise!Resolve
    <2> QED BY <2>3, Zenon DEF Promise!Next
  <1>5. ASSUME NEW q \in Requests, NotifyAndRespond(q)
        PROVE  Promise!Next
    <2>1. Promise!Answer(q, q)
      BY <1>5 DEF NotifyAndRespond, AnswerWith, Response, RowByPlace,
         Promise!Answer, Promise!Said, Promise!Opened
    <2> QED BY <2>1, Zenon DEF Promise!Next
  <1>6. ASSUME NEW q \in Requests, QueryFault(q)
        PROVE  Promise!Next
    <2>1. Promise!Error(q)
      BY <1>6 DEF QueryFault, Error, RowByPlace, Promise!Error
    <2> QED BY <2>1, Zenon DEF Promise!Next
  <1>7. ASSUME NEW q \in Requests,
               \/ InsertConflict(q) \/ CallAdapter(q) \/ RecordFailover(q)
               \/ \E o \in Outcomes : AdapterReturns(q, o)
               \/ Crash(q)
        PROVE  UNCHANGED <<key, status, answer>>
    BY <1>7 DEF InsertConflict, CallAdapter, RecordFailover, AdapterReturns, Crash
  <1>8. ASSUME Environment
        PROVE  UNCHANGED <<key, status, answer>>
    BY <1>8 DEF Environment, HourPasses, Land
  <1>9. CASE UNCHANGED vars
    BY <1>9 DEF vars
  <1> QED
    BY <1>1, <1>2, <1>3, <1>4, <1>5, <1>6, <1>7, <1>8, <1>9, Zenon
       DEF Next, Handle, Fault

(* The facilitator implements the promise of IdempotentPayment.            *)
THEOREM Refinement == Spec => Implements
  <1>1. Init => Promise!Init
    BY DEF Init, Promise!Init
  <1> QED BY <1>1, StepRefines, Inductive, PTL DEF Spec, Implements, Promise!Spec

(* What IdempotentPayment_proofs proves of the promise, said of this one.   *)
Kept == INSTANCE IdempotentPayment_proofs WITH Candid <- FALSE

LEMMA PromiseIsKept ==
    Promise!Spec => []Promise!OneOutcome /\ [][Promise!SuccessIsKept]_(Promise!vars)
  <1>1. Promise!Init => Kept!Init
    BY DEF Promise!Init, Kept!Init
  <1>2. [Promise!Next]_(Promise!vars) => [Kept!Next]_(Kept!vars)
    BY DEF Promise!vars, Kept!vars, Promise!Next, Kept!Next, Promise!Arrive, Kept!Arrive,
       Promise!Open, Kept!Open, Promise!Opened, Kept!Opened, Promise!Resolve,
       Kept!Resolve, Promise!Answer, Kept!Answer, Promise!Said, Kept!Said, Promise!Error, Kept!Error
  <1>3. Kept!OneOutcome => Promise!OneOutcome
    BY DEF Promise!OneOutcome, Kept!OneOutcome, Promise!Told, Kept!Told
  <1>4. [Kept!SuccessIsKept]_(Kept!vars) => [Promise!SuccessIsKept]_(Promise!vars)
    BY DEF Promise!vars, Kept!vars, Promise!SuccessIsKept, Kept!SuccessIsKept,
       Promise!Told, Kept!Told
  <1> QED
    BY <1>1, <1>2, <1>3, <1>4, Kept!OneOutcomeHolds, Kept!SuccessIsKeptHolds, PTL
       DEF Promise!Spec, Kept!Spec

(* The requests for one payload in one hour are told of one payment, and   *)
(* once one of them is told of its success no later one is refused. (One   *)
(* that came earlier may have been, while the payment was pending.)        *)
THEOREM SuccessIsKeptPerPayload ==
    Spec => []Promise!OneOutcome /\ [][Promise!SuccessIsKept]_(Promise!vars)
  BY Refinement, PromiseIsKept, PTL DEF Implements

-----------------------------------------------------------------------------
(* Sellers                                                                 *)

(* Each step of a seller is a step of the facilitator or none, so what is  *)
(* proved of the facilitator, its refinement of IdempotentPayment included,*)
(* holds in the composition.                                               *)

(* An answer is about the payment of its request's key.                    *)
AnswerIsOfKey ==
    \A q \in Requests : answer[q] \in Answers =>
        answer[q].payment \in Rows(key[q])

SellerByPlace ==
    /\ place \in [Sellers -> {"ready", "waiting", "accepted", "rejected"}]
    /\ tries \in [Sellers -> 0 .. MaxTries]
    /\ \A s \in Sellers :
        /\ place[s] = "ready" => tries[s] < MaxTries
        /\ place[s] = "waiting" => tries[s] > 0

SellerInv ==
    /\ FacilitatorInv /\ AnswerIsOfKey /\ SellerByPlace /\ AcceptedIsSettled

(* Only tries of a seller are requests of the facilitator.                 *)
LEMMA SellersCall ==
    ASSUME SellerByPlace, [SellerNext]_<<vars, sellerVars>>
    PROVE  [Next]_vars
  <1>1. ASSUME NEW s \in Sellers, Exchange(s)
        PROVE  [Next]_vars
    <2>1. CASE Send(s)
      <3>1. place[s] = "ready" /\ tries[s] \in 0 .. MaxTries /\ tries[s] < MaxTries
        BY <2>1 DEF Send, SellerByPlace
      <3>2. tries[s] + 1 \in 1 .. MaxTries
        BY <3>1, SellerAssumption
      <3>3. <<s, tries[s] + 1>> \in Requests /\ PayloadOf[s] \in Payloads
        BY <3>2, SellerAssumption
      <3> QED BY <2>1, <3>3, Zenon DEF Send, Next
    <2>2. CASE Hear(s) \/ Miss(s) \/ Refused(s)
      BY <2>2 DEF Hear, Miss, Refused
    <2> QED BY <1>1, <2>1, <2>2 DEF Exchange
  <1>2. ASSUME Facilitator
        PROVE  [Next]_vars
    BY <1>2, Zenon DEF Facilitator, Next
  <1>3. CASE UNCHANGED <<vars, sellerVars>>
    BY <1>3
  <1> QED BY <1>1, <1>2, <1>3, Zenon DEF SellerNext

(* Keys, and settled rows, stay.                                           *)
LEMMA FileStays ==
    ASSUME FacilitatorInv, [Next]_vars
    PROVE  \A q \in Requests :
               /\ key[q] # None => key'[q] = key[q]
               /\ status[q] # "none" => status'[q] # "none"
               /\ status[q] = "settled" => status'[q] = "settled"
  <1> USE DEF FacilitatorInv
  <1>1. [Promise!Next]_(Promise!vars)
    BY StepRefines
  <1>2. CASE UNCHANGED Promise!vars
    BY <1>2 DEF Promise!vars
  <1>3. ASSUME NEW r \in Requests, NEW k \in Keys, Promise!Arrive(r, k)
        PROVE  \A q \in Requests :
                   /\ key[q] # None => key'[q] = key[q]
                   /\ status'[q] = status[q]
    BY <1>3 DEF Promise!Arrive, TypeOK
  <1>4. ASSUME NEW r \in Requests, Promise!Open(r)
        PROVE  \A q \in Requests :
                   /\ key'[q] = key[q]
                   /\ status[q] # "none" => status'[q] = status[q]
    BY <1>4 DEF Promise!Open, Promise!Opened, TypeOK
  <1>5. ASSUME NEW r \in Requests, NEW s \in {"settled", "failed"}, Promise!Resolve(r, s)
        PROVE  \A q \in Requests :
                   /\ key'[q] = key[q]
                   /\ status[q] # "pending" => status'[q] = status[q]
                   /\ status[q] = "pending" => status'[q] # "none"
    <2>1. status' = [status EXCEPT ![r] = s] /\ status[r] = "pending" /\ key' = key
      BY <1>5 DEF Promise!Resolve
    <2>2. status \in [Requests -> {"none", "pending", "settled", "failed"}]
      BY DEF TypeOK
    <2> QED BY <2>1, <2>2
  <1>6. ASSUME NEW r \in Requests, (\E p \in Requests : Promise!Answer(r, p)) \/ Promise!Error(r)
        PROVE  UNCHANGED <<key, status>>
    BY <1>6 DEF Promise!Answer, Promise!Error
  <1> QED BY <1>1, <1>2, <1>3, <1>4, <1>5, <1>6 DEF Promise!Next

LEMMA AnswerStep ==
    ASSUME FacilitatorInv, AnswerIsOfKey, [Next]_vars
    PROVE  AnswerIsOfKey'
  <1> USE DEF FacilitatorInv
  <1> SUFFICES ASSUME NEW q \in Requests, answer'[q] \in Answers
               PROVE  answer'[q].payment \in Rows(key[q])'
    BY DEF AnswerIsOfKey, Answers
  <1>1. [Promise!Next]_(Promise!vars)
    BY StepRefines
  <1>2. key[q] = None => answer[q] \notin Answers
    BY NoneAssumption DEF RowByPlace, Answers
  <1>3. CASE answer'[q] = answer[q]
    <2>1. answer[q].payment \in Rows(key[q]) /\ key[q] # None
      BY <1>2, <1>3 DEF AnswerIsOfKey
    <2> QED BY <1>3, <2>1, FileStays DEF Rows
  <1>4. CASE answer'[q] # answer[q]
    <2>1. \A r \in Requests : ~(\E k \in Keys : Promise!Arrive(r, k)) /\ ~Promise!Open(r)
      BY <1>4 DEF Promise!Arrive, Promise!Open
    <2>2. \A r \in Requests, s \in {"settled", "failed"} : ~Promise!Resolve(r, s)
      BY <1>4 DEF Promise!Resolve
    <2>3. answer # answer'
      BY <1>4
    <2>4. PICK r \in Requests : (\E p \in Requests : Promise!Answer(r, p)) \/ Promise!Error(r)
      BY <1>1, <2>1, <2>2, <2>3, Zenon DEF Promise!Next, Promise!vars
    <2>5. CASE Promise!Error(r)
      <3>1. answer'[q] = [payment |-> None, status |-> "error"] \/ answer'[q] = answer[q]
        BY <2>5 DEF Promise!Error, TypeOK
      <3> QED BY <1>4, <3>1, NoneAssumption DEF Answers
    <2>6. ASSUME NEW p \in Requests, Promise!Answer(r, p)
          PROVE  answer'[q].payment \in Rows(key[q])'
      <3>1. /\ UNCHANGED <<key, status>>
            /\ p \in Promise!Opened(key[r])
            /\ answer' = [answer EXCEPT ![r] = [payment |-> p, status |-> Promise!Said(status[p])]]
        BY <2>6 DEF Promise!Answer
      <3>2. q = r /\ answer'[q] = [payment |-> p, status |-> Promise!Said(status[p])]
        BY <1>4, <3>1 DEF TypeOK
      <3>3. p \in Rows(key[q])
        BY <3>1, <3>2 DEF Promise!Opened, Rows
      <3> QED BY <3>1, <3>2, <3>3 DEF Rows
    <2> QED BY <2>4, <2>5, <2>6
  <1> QED BY <1>3, <1>4

LEMMA SellerStep ==
    ASSUME SellerByPlace, [SellerNext]_<<vars, sellerVars>>
    PROVE  SellerByPlace'
  <1> USE SellerAssumption
  <1>1. ASSUME NEW s \in Sellers, Send(s)
        PROVE  SellerByPlace'
    BY <1>1 DEF Send, SellerByPlace
  <1>2. ASSUME NEW s \in Sellers, Hear(s)
        PROVE  SellerByPlace'
    <2>1. place' = [place EXCEPT ![s] = "accepted"] \/ place' = [place EXCEPT ![s] = "rejected"]
      BY <1>2 DEF Hear, Verdict
    <2> QED BY <1>2, <2>1 DEF Hear, SellerByPlace
  <1>3. ASSUME NEW s \in Sellers, Miss(s)
        PROVE  SellerByPlace'
    BY <1>3 DEF Miss, AfterMiss, SellerByPlace
  <1>4. CASE UNCHANGED sellerVars
    BY <1>4 DEF sellerVars, SellerByPlace
  <1>5. ASSUME NEW s \in Sellers, Refused(s)
        PROVE  SellerByPlace'
    BY <1>5 DEF Refused, SellerByPlace
  <1> QED BY <1>1, <1>2, <1>3, <1>4, <1>5, Zenon DEF SellerNext, Exchange, Facilitator

LEMMA AcceptedStep ==
    ASSUME FacilitatorInv, AnswerIsOfKey, SellerByPlace, AcceptedIsSettled,
           [SellerNext]_<<vars, sellerVars>>
    PROVE  AcceptedIsSettled'
  <1> USE SellerAssumption
  <1> DEFINE Paid(s, n) == \E p \in Rows(key[<<s, n>>]) : status[p] = "settled"
  <1>1. ASSUME NEW s \in Sellers, NEW n \in 1 .. MaxTries, Paid(s, n)
        PROVE  Paid(s, n)'
    <2>1. <<s, n>> \in Requests
      OBVIOUS
    <2>2. PICK p \in Rows(key[<<s, n>>]) : status[p] = "settled"
      BY <1>1
    <2>3. p \in Requests /\ key[p] = key[<<s, n>>] /\ status[p] = "settled"
      BY <2>2 DEF Rows
    <2>4. key[p] # None
      BY <2>3 DEF FacilitatorInv, RowByPlace
    <2>5. /\ key'[p] = key[p] /\ key'[<<s, n>>] = key[<<s, n>>]
          /\ status'[p] = "settled"
      BY <2>1, <2>3, <2>4, SellersCall, FileStays
    <2>6. p \in Rows(key[<<s, n>>])'
      BY <2>3, <2>5 DEF Rows
    <2> QED BY <2>5, <2>6
  <1> HIDE DEF Paid
  <1>2. \A s \in Sellers : place[s] = "accepted" => \E n \in 1 .. tries[s] : Paid(s, n)
    BY DEF AcceptedIsSettled, Paid
  <1>3. \A s \in Sellers : tries[s] \in 0 .. MaxTries /\ tries'[s] \in 0 .. MaxTries
    BY SellerStep DEF SellerByPlace
  <1> SUFFICES ASSUME NEW s \in Sellers, place'[s] = "accepted"
               PROVE  \E n \in 1 .. tries'[s] : Paid(s, n)'
    BY DEF AcceptedIsSettled, Paid
  <1>4. CASE place[s] = "accepted" /\ tries'[s] = tries[s]
    BY <1>1, <1>2, <1>3, <1>4
  <1>5. CASE Hear(s)
    <2> DEFINE q == <<s, tries[s]>>
    <2>1. /\ place[s] = "waiting" /\ answer[q] \in Answers
          /\ place'[s] = Verdict(answer[q].status) /\ tries' = tries
      BY <1>5 DEF Hear, Current, SellerByPlace
    <2>2. tries[s] \in 1 .. MaxTries /\ q \in Requests
      BY <1>3, <2>1 DEF SellerByPlace
    <2>3. answer[q].status = "settled"
      BY <2>1 DEF Verdict
    <2>4. /\ answer[q].payment \in Rows(key[q])
          /\ status[answer[q].payment] = "settled"
      BY <2>1, <2>2, <2>3 DEF AnswerIsOfKey, FacilitatorInv, ToldIsOnFile
    <2>5. Paid(s, tries[s])
      BY <2>4 DEF Paid
    <2> QED BY <1>1, <2>1, <2>2, <2>5
  <1>6. Hear(s) \/ (place[s] = "accepted" /\ tries'[s] = tries[s])
    <2>1. ASSUME NEW x \in Sellers, Send(x)
          PROVE  place[s] = "accepted" /\ tries'[s] = tries[s]
      BY <2>1 DEF Send, SellerByPlace
    <2>2. ASSUME NEW x \in Sellers, Miss(x)
          PROVE  place[s] = "accepted" /\ tries'[s] = tries[s]
      BY <2>2 DEF Miss, AfterMiss, SellerByPlace
    <2>3. ASSUME NEW x \in Sellers, Hear(x), x # s
          PROVE  place[s] = "accepted" /\ tries'[s] = tries[s]
      BY <2>3 DEF Hear, SellerByPlace
    <2>4. CASE UNCHANGED sellerVars
      BY <2>4 DEF sellerVars
    <2>5. ASSUME NEW x \in Sellers, Refused(x)
          PROVE  place[s] = "accepted" /\ tries'[s] = tries[s]
      BY <2>5 DEF Refused, SellerByPlace
    <2> QED BY <2>1, <2>2, <2>3, <2>4, <2>5, Zenon DEF SellerNext, Exchange, Facilitator
  <1> QED BY <1>4, <1>5, <1>6

LEMMA SellerInductive == SellerSpec => []SellerInv
  <1>1. SellerInit => SellerInv
    <2> SUFFICES ASSUME SellerInit
                 PROVE  SellerInv
      OBVIOUS
    <2>1. FacilitatorInv
      BY FacilitatorInvInit DEF SellerInit
    <2>2. SellerByPlace /\ AcceptedIsSettled
      BY SellerAssumption DEF SellerInit, SellerByPlace, AcceptedIsSettled
    <2>3. AnswerIsOfKey
      BY NoneAssumption DEF SellerInit, Init, AnswerIsOfKey, Answers
    <2> QED BY <2>1, <2>2, <2>3 DEF SellerInv
  <1>2. SellerInv /\ [SellerNext]_<<vars, sellerVars>> => SellerInv'
    <2> SUFFICES ASSUME SellerInv, [SellerNext]_<<vars, sellerVars>>
                 PROVE  SellerInv'
      OBVIOUS
    <2> USE DEF SellerInv
    <2>1. [Next]_vars
      BY SellersCall
    <2>2. FacilitatorInv' /\ AnswerIsOfKey'
      BY <2>1, FacilitatorInvStep, AnswerStep
    <2>3. SellerByPlace' /\ AcceptedIsSettled'
      BY SellerStep, AcceptedStep
    <2> QED BY <2>2, <2>3
  <1> QED BY <1>1, <1>2, PTL DEF SellerSpec

(* A seller serves its resource only for a payment that is settled on file *)
(* under one of its tries' keys.                                           *)
THEOREM AcceptedIsSettledHolds == SellerSpec => []AcceptedIsSettled
  BY SellerInductive, PTL DEF SellerInv

(* Composed with its sellers, the facilitator keeps its promise.           *)
THEOREM RefinementWithSellers == SellerSpec => Implements
  <1>1. SellerInit => Promise!Init
    BY DEF SellerInit, Init, Promise!Init
  <1>2. SellerInv /\ [SellerNext]_<<vars, sellerVars>> => [Promise!Next]_(Promise!vars)
    BY SellersCall, StepRefines DEF SellerInv
  <1> QED BY <1>1, <1>2, SellerInductive, PTL DEF SellerSpec, Implements, Promise!Spec

(* So are the tries of sellers, within the hour: none of them is refused   *)
(* after one was told of success.                                          *)
THEOREM SuccessIsKeptToSellers ==
    SellerSpec => []Promise!OneOutcome /\ [][Promise!SuccessIsKept]_(Promise!vars)
  BY RefinementWithSellers, PromiseIsKept, PTL DEF Implements
=============================================================================
