------------------------ MODULE RefundWorker_proofs ------------------------
(* The refund worker, for any number of rows, workers and faults; and the  *)
(* proxy's requests that fill its queue, for any number of requests and    *)
(* payments.                                                               *)
EXTENDS ProxyRequest, FiniteSetTheorems, TLAPS

(* A worker at a row: the row it has claimed, and the transfer it has sent.*)
WorkerByPlace ==
    \A w \in Workers :
        /\ at[w] \in {"send", "wait", "record"} => row[w] \in Rows
        /\ held[w] => at[w] \in {"send", "wait", "record"}
        /\ result[w] # "none" <=> at[w] = "record"
        /\ at[w] = "wait" \/ result[w] = "ok" =>
              row[w] \in Rows /\ sent[w] \in DOMAIN transfers[row[w]]
        /\ at[w] = "wait" \/ result[w] = "ok" =>
              row[w] \in Rows /\ ChainOf[row[w]] # "none"
        /\ at[w] = "record" /\ result[w] = "skip" => ChainOf[row[w]] = "none"

(* The row lock keeps workers apart, and a locked row has a retry left.    *)
LockIsAlone ==
    /\ \A v, w \in Workers : held[v] /\ held[w] /\ row[v] = row[w] => v = w
    /\ \A w \in Workers : held[w] => retries[row[w]] < MaxRetries

(* A transfer that was confirmed stays so.                                 *)
OkWasSent ==
    \A w \in Workers : result[w] = "ok" =>
        /\ ChainOf[row[w]] # "none"
        /\ Confirms(row[w], transfers[row[w]][sent[w]])

(* The workers that are about to send d.                                   *)
Senders(d) == {w \in Workers : at[w] = "send" /\ row[w] = d}

(* Its tries cannot end without a retry on file or a fault: d is locked, or*)
(* refunded.                                                               *)
Closed(d) == d \in Locked \/ status[d] = "refunded"

Budget(d) == retries[d] + faults + IF Closed(d) THEN 1 ELSE 0

(* What is sent, or about to be, was tried, lost or is being tried.        *)
TriesAreCounted ==
    \A d \in Rows :
        /\ ChainOf[d] = "none" => Len(transfers[d]) = 0
        /\ ChainOf[d] # "none" =>
              Len(transfers[d]) + Cardinality(Senders(d)) <= Budget(d)

RefundInv ==
    /\ RefundTypeOK /\ WorkerByPlace /\ LockIsAlone /\ OkWasSent
    /\ RefundedWasSent /\ TriesAreCounted

LEMMA SendersFinite ==
    ASSUME NEW d
    PROVE  IsFiniteSet(Senders(d)) /\ Cardinality(Senders(d)) \in Nat
  <1>1. Senders(d) \subseteq Workers
    BY DEF Senders
  <1> QED BY <1>1, WorkerAssumption, FS_Subset, FS_CardinalityType

(* A transfer stays where it is, and as it is once its end is known.       *)
Kept ==
    \A d \in Rows : \A i \in DOMAIN transfers[d] :
        /\ i \in DOMAIN transfers'[d]
        /\ transfers[d][i] # "flying" => transfers'[d][i] = transfers[d][i]

LEMMA SendKeeps ==
    ASSUME RefundTypeOK, NEW w \in Workers, row[w] \in Rows, Send(w)
    PROVE  /\ Kept
           /\ transfers'[row[w]] \in Seq({"flying", "landed", "reverted"})
           /\ Len(transfers'[row[w]]) = Len(transfers[row[w]]) + 1
           /\ \A d \in Rows \ {row[w]} : transfers'[d] = transfers[d]
  <1>1. /\ transfers'[row[w]] = Append(transfers[row[w]], "flying")
        /\ \A d \in Rows \ {row[w]} : transfers'[d] = transfers[d]
    BY DEF Send, RefundTypeOK
  <1>2. transfers[row[w]] \in Seq({"flying", "landed", "reverted"})
    BY DEF RefundTypeOK
  <1>3. /\ transfers'[row[w]] \in Seq({"flying", "landed", "reverted"})
        /\ Len(transfers'[row[w]]) = Len(transfers[row[w]]) + 1
        /\ \A i \in DOMAIN transfers[row[w]] :
              i \in DOMAIN transfers'[row[w]] /\ transfers'[row[w]][i] = transfers[row[w]][i]
    BY <1>1, <1>2
  <1> QED BY <1>1, <1>3 DEF Kept

LEMMA SettlesKeeps ==
    ASSUME RefundTypeOK, NEW d \in Rows, Settles(d)
    PROVE  /\ Kept
           /\ transfers' \in [Rows -> Seq({"flying", "landed", "reverted"})]
           /\ \A x \in Rows : Len(transfers'[x]) = Len(transfers[x])
  <1>1. PICK i \in DOMAIN transfers[d], end \in {"landed", "reverted"} :
            /\ transfers[d][i] = "flying"
            /\ transfers' = [transfers EXCEPT ![d][i] = end]
    BY DEF Settles
  <1>2. transfers[d] \in Seq({"flying", "landed", "reverted"})
    BY DEF RefundTypeOK
  <1>3. /\ transfers'[d] = [transfers[d] EXCEPT ![i] = end]
        /\ \A x \in Rows \ {d} : transfers'[x] = transfers[x]
    BY <1>1 DEF RefundTypeOK
  <1>4. /\ transfers'[d] \in Seq({"flying", "landed", "reverted"})
        /\ Len(transfers'[d]) = Len(transfers[d])
        /\ \A j \in DOMAIN transfers[d] :
              /\ j \in DOMAIN transfers'[d]
              /\ j # i => transfers'[d][j] = transfers[d][j]
    BY <1>1, <1>2, <1>3
  <1>5. transfers' \in [Rows -> Seq({"flying", "landed", "reverted"})]
    BY <1>1, <1>3, <1>4 DEF RefundTypeOK
  <1> QED BY <1>1, <1>3, <1>4, <1>5 DEF Kept

LEMMA Numbers ==
    ASSUME RefundTypeOK, NEW d \in Rows
    PROVE  /\ Len(transfers[d]) \in Nat /\ retries[d] \in Nat /\ faults \in Nat
           /\ Budget(d) \in Nat
           /\ Cardinality(Senders(d)) \in Nat
  <1>1. Len(transfers[d]) \in Nat /\ retries[d] \in Nat /\ faults \in Nat
    BY BoundAssumption DEF RefundTypeOK
  <1>2. Budget(d) \in Nat
    BY <1>1 DEF Budget
  <1> QED BY <1>1, <1>2, SendersFinite

(* A step that sends nothing, brings no sender and takes nothing away from *)
(* a budget keeps the count.                                               *)
LEMMA CountsKept ==
    ASSUME RefundTypeOK, RefundTypeOK', TriesAreCounted,
           \A d \in Rows : Len(transfers'[d]) = Len(transfers[d]),
           \A d \in Rows : Senders(d)' \subseteq Senders(d),
           \A d \in Rows : ChainOf[d] # "none" => Budget(d) <= Budget(d)'
    PROVE  TriesAreCounted'
  <1> SUFFICES ASSUME NEW d \in Rows
               PROVE  /\ ChainOf[d] = "none" => Len(transfers'[d]) = 0
                      /\ ChainOf[d] # "none" =>
                            Len(transfers'[d]) + Cardinality(Senders(d)') <= Budget(d)'
    BY DEF TriesAreCounted
  <1>1. CASE ChainOf[d] = "none"
    BY <1>1 DEF TriesAreCounted
  <1>2. CASE ChainOf[d] # "none"
    <2>1. Cardinality(Senders(d)') <= Cardinality(Senders(d))
      BY SendersFinite, FS_Subset
    <2>2. /\ Len(transfers[d]) \in Nat /\ Budget(d) \in Nat
          /\ Cardinality(Senders(d)) \in Nat
      BY Numbers
    <2>3. (Budget(d) \in Nat /\ Cardinality(Senders(d)) \in Nat)'
      <3>1. retries'[d] \in Nat /\ faults' \in Nat
        BY BoundAssumption DEF RefundTypeOK
      <3>2. Budget(d)' \in Nat
        BY <3>1 DEF Budget
      <3>3. Cardinality(Senders(d)') \in Nat
        <4>1. IsFiniteSet(Senders(d)')
          BY SendersFinite, FS_Subset
        <4> QED BY <4>1, FS_CardinalityType
      <3> QED BY <3>2, <3>3
    <2>4. Len(transfers[d]) + Cardinality(Senders(d)) <= Budget(d)
      BY <1>2 DEF TriesAreCounted
    <2>5. Budget(d) <= Budget(d)' /\ Len(transfers'[d]) = Len(transfers[d])
      BY <1>2
    <2> QED BY <1>2, <2>1, <2>2, <2>3, <2>4, <2>5
  <1> QED BY <1>1, <1>2

(* Type correctness.                                                       *)
LEMMA TypeStep ==
    ASSUME RefundTypeOK, WorkerByPlace, LockIsAlone,
       [RefundNext]_refundVars
    PROVE  RefundTypeOK'
  <1> USE DEF LetGo, rowVars, workVars
  <1>1. ASSUME NEW d0 \in Rows, Produce(d0)
        PROVE  RefundTypeOK'
    BY <1>1 DEF RefundTypeOK, WorkerByPlace, LockIsAlone, Produce, AddRow
  <1>2. ASSUME NEW w0 \in Workers, Tick(w0)
        PROVE  RefundTypeOK'
    BY <1>2 DEF RefundTypeOK, WorkerByPlace, LockIsAlone, Tick
  <1>3. ASSUME NEW w0 \in Workers, Claim(w0)
        PROVE  RefundTypeOK'
    BY <1>3, SMTT(60) DEF RefundTypeOK, WorkerByPlace, LockIsAlone, Claim
  <1>4. ASSUME NEW w0 \in Workers, NoneLeft(w0)
        PROVE  RefundTypeOK'
    BY <1>4 DEF RefundTypeOK, WorkerByPlace, LockIsAlone, NoneLeft,
       EndDrain
  <1>5. ASSUME NEW w0 \in Workers, SendNothing(w0)
        PROVE  RefundTypeOK'
    BY <1>5 DEF RefundTypeOK, WorkerByPlace, LockIsAlone, SendNothing,
       Report
  <1>6. ASSUME NEW w0 \in Workers, Send(w0)
        PROVE  RefundTypeOK'
    BY <1>6 DEF RefundTypeOK, WorkerByPlace, LockIsAlone, Send
  <1>7. ASSUME NEW w0 \in Workers, SendReturns(w0)
        PROVE  RefundTypeOK'
    BY <1>7 DEF RefundTypeOK, WorkerByPlace, LockIsAlone, SendReturns,
       Report
  <1>8. ASSUME NEW w0 \in Workers, Record(w0)
        PROVE  RefundTypeOK'
    BY <1>8, BoundAssumption DEF RefundTypeOK, WorkerByPlace, LockIsAlone,
       Record, Write
  <1>9. ASSUME NEW w0 \in Workers, RecordInVain(w0)
        PROVE  RefundTypeOK'
    BY <1>9 DEF RefundTypeOK, WorkerByPlace, LockIsAlone, RecordInVain,
       EndDrain
  <1>10. ASSUME NEW w0 \in Workers, QueryFault(w0)
        PROVE  RefundTypeOK'
    <2>1. faults' \in 0 .. MaxFaults
      BY <1>10, BoundAssumption DEF QueryFault, Faulty, RefundTypeOK
    <2>2. CASE UNCHANGED rowVars
      BY <1>10, <2>1, <2>2 DEF QueryFault, EndDrain, RefundTypeOK
    <2>3. CASE held[w0] /\ Write(w0)
      <3>1. status' \in [Rows -> {"none", "pending", "refunded"}]
        BY <2>3 DEF Write, RefundTypeOK
      <3>2. retries' \in [Rows -> 0 .. MaxRetries]
        BY <2>3, BoundAssumption DEF Write, RefundTypeOK, LockIsAlone, WorkerByPlace
      <3> QED BY <1>10, <2>1, <2>3, <3>1, <3>2 DEF QueryFault, EndDrain, Write, RefundTypeOK
    <2> QED BY <1>10, <2>2, <2>3 DEF QueryFault
  <1>11. ASSUME NEW w0 \in Workers, LoseConnection(w0)
        PROVE  RefundTypeOK'
    BY <1>11, BoundAssumption DEF RefundTypeOK, WorkerByPlace,
       LockIsAlone, LoseConnection, Faulty
  <1>12. ASSUME NEW w0 \in Workers, Crash(w0)
        PROVE  RefundTypeOK'
    BY <1>12, BoundAssumption DEF RefundTypeOK, WorkerByPlace,
       LockIsAlone, Crash, Faulty
  <1>13. ASSUME NEW d0 \in Rows, Settles(d0)
        PROVE  RefundTypeOK'
    <2>1. transfers' \in [Rows -> Seq({"flying", "landed", "reverted"})]
      BY <1>13, SettlesKeeps
    <2> QED BY <1>13, <2>1 DEF Settles, RefundTypeOK
  <1>14. CASE UNCHANGED refundVars
    BY <1>14 DEF RefundTypeOK, WorkerByPlace, LockIsAlone, refundVars
  <1> QED
    BY <1>1, <1>2, <1>3, <1>4, <1>5, <1>6, <1>7, <1>8, <1>9, <1>10, <1>11,
       <1>12, <1>13, <1>14, Zenon DEF RefundNext, Drain, Work, Fault

(* A worker at a row.                                                      *)
LEMMA WorkerStep ==
    ASSUME RefundTypeOK, WorkerByPlace, [RefundNext]_refundVars
    PROVE  WorkerByPlace'
  <1> USE DEF LetGo, rowVars, workVars
  <1>1. ASSUME NEW d0 \in Rows, Produce(d0)
        PROVE  WorkerByPlace'
    BY <1>1 DEF RefundTypeOK, WorkerByPlace, Produce, AddRow
  <1>2. ASSUME NEW w0 \in Workers, Tick(w0)
        PROVE  WorkerByPlace'
    BY <1>2 DEF RefundTypeOK, WorkerByPlace, Tick
  <1>3. ASSUME NEW w0 \in Workers, Claim(w0)
        PROVE  WorkerByPlace'
    BY <1>3, SMTT(60) DEF RefundTypeOK, WorkerByPlace, Claim
  <1>4. ASSUME NEW w0 \in Workers, NoneLeft(w0)
        PROVE  WorkerByPlace'
    BY <1>4 DEF RefundTypeOK, WorkerByPlace, NoneLeft, EndDrain
  <1>5. ASSUME NEW w0 \in Workers, SendNothing(w0)
        PROVE  WorkerByPlace'
    BY <1>5 DEF RefundTypeOK, WorkerByPlace, SendNothing, Report
  <1>6. ASSUME NEW w0 \in Workers, Send(w0)
        PROVE  WorkerByPlace'
    <2>1. row[w0] \in Rows
      BY <1>6 DEF Send, WorkerByPlace
    <2>2. /\ Kept
          /\ transfers'[row[w0]] \in Seq({"flying", "landed", "reverted"})
          /\ Len(transfers'[row[w0]]) = Len(transfers[row[w0]]) + 1
      BY <1>6, <2>1, SendKeeps
    <2>3. /\ sent'[w0] = Len(transfers'[row[w0]])
          /\ Len(transfers[row[w0]]) \in Nat
          /\ sent'[w0] \in DOMAIN transfers'[row[w0]]
      BY <1>6, <2>1, <2>2 DEF Send, RefundTypeOK
    <2> QED BY <1>6, <2>1, <2>2, <2>3 DEF Send, RefundTypeOK, WorkerByPlace, Kept
  <1>7. ASSUME NEW w0 \in Workers, SendReturns(w0)
        PROVE  WorkerByPlace'
    <2>1. PICK res \in {"ok", "error"} : Report(w0, res)
      BY <1>7 DEF SendReturns
    <2> QED BY <1>7, <2>1 DEF SendReturns, Report, RefundTypeOK, WorkerByPlace
  <1>8. ASSUME NEW w0 \in Workers, Record(w0)
        PROVE  WorkerByPlace'
    BY <1>8 DEF RefundTypeOK, WorkerByPlace, Record, Write
  <1>9. ASSUME NEW w0 \in Workers, RecordInVain(w0)
        PROVE  WorkerByPlace'
    BY <1>9 DEF RefundTypeOK, WorkerByPlace, RecordInVain, EndDrain
  <1>10. ASSUME NEW w0 \in Workers, QueryFault(w0)
        PROVE  WorkerByPlace'
    BY <1>10 DEF RefundTypeOK, WorkerByPlace, QueryFault, EndDrain, Write,
       Faulty
  <1>11. ASSUME NEW w0 \in Workers, LoseConnection(w0)
        PROVE  WorkerByPlace'
    BY <1>11 DEF RefundTypeOK, WorkerByPlace, LoseConnection, Faulty
  <1>12. ASSUME NEW w0 \in Workers, Crash(w0)
        PROVE  WorkerByPlace'
    BY <1>12 DEF RefundTypeOK, WorkerByPlace, Crash, Faulty
  <1>13. ASSUME NEW d0 \in Rows, Settles(d0)
        PROVE  WorkerByPlace'
    <2>1. Kept
      BY <1>13, SettlesKeeps
    <2> QED BY <1>13, <2>1 DEF Settles, WorkerByPlace, Kept
  <1>14. CASE UNCHANGED refundVars
    BY <1>14 DEF RefundTypeOK, WorkerByPlace, refundVars
  <1> QED
    BY <1>1, <1>2, <1>3, <1>4, <1>5, <1>6, <1>7, <1>8, <1>9, <1>10, <1>11,
       <1>12, <1>13, <1>14, Zenon DEF RefundNext, Drain, Work, Fault

(* The row lock keeps workers apart.                                       *)
LEMMA LockStep ==
    ASSUME RefundTypeOK, WorkerByPlace, LockIsAlone,
       [RefundNext]_refundVars
    PROVE  LockIsAlone'
  <1> USE DEF LetGo, rowVars, workVars
  <1>1. ASSUME NEW d0 \in Rows, Produce(d0)
        PROVE  LockIsAlone'
    BY <1>1 DEF RefundTypeOK, WorkerByPlace, LockIsAlone, Claimable,
       Locked, Produce, AddRow
  <1>2. ASSUME NEW w0 \in Workers, Tick(w0)
        PROVE  LockIsAlone'
    BY <1>2 DEF RefundTypeOK, WorkerByPlace, LockIsAlone, Claimable,
       Locked, Tick
  <1>3. ASSUME NEW w0 \in Workers, Claim(w0)
        PROVE  LockIsAlone'
    BY <1>3 DEF RefundTypeOK, WorkerByPlace, LockIsAlone, Claimable,
       Locked, Claim
  <1>4. ASSUME NEW w0 \in Workers, NoneLeft(w0)
        PROVE  LockIsAlone'
    BY <1>4 DEF RefundTypeOK, WorkerByPlace, LockIsAlone, Claimable,
       Locked, NoneLeft, EndDrain
  <1>5. ASSUME NEW w0 \in Workers, SendNothing(w0)
        PROVE  LockIsAlone'
    BY <1>5 DEF RefundTypeOK, WorkerByPlace, LockIsAlone, Claimable,
       Locked, SendNothing, Report
  <1>6. ASSUME NEW w0 \in Workers, Send(w0)
        PROVE  LockIsAlone'
    BY <1>6 DEF RefundTypeOK, WorkerByPlace, LockIsAlone, Claimable,
       Locked, Send
  <1>7. ASSUME NEW w0 \in Workers, SendReturns(w0)
        PROVE  LockIsAlone'
    BY <1>7 DEF RefundTypeOK, WorkerByPlace, LockIsAlone, Claimable,
       Locked, SendReturns, Report
  <1>8. ASSUME NEW w0 \in Workers, Record(w0)
        PROVE  LockIsAlone'
    BY <1>8 DEF RefundTypeOK, WorkerByPlace, LockIsAlone, Claimable,
       Locked, Record, Write
  <1>9. ASSUME NEW w0 \in Workers, RecordInVain(w0)
        PROVE  LockIsAlone'
    BY <1>9 DEF RefundTypeOK, WorkerByPlace, LockIsAlone, Claimable,
       Locked, RecordInVain, EndDrain
  <1>10. ASSUME NEW w0 \in Workers, QueryFault(w0)
        PROVE  LockIsAlone'
    BY <1>10 DEF RefundTypeOK, WorkerByPlace, LockIsAlone, Claimable,
       Locked, QueryFault, EndDrain, Write, Faulty
  <1>11. ASSUME NEW w0 \in Workers, LoseConnection(w0)
        PROVE  LockIsAlone'
    BY <1>11 DEF RefundTypeOK, WorkerByPlace, LockIsAlone, Claimable,
       Locked, LoseConnection, Faulty
  <1>12. ASSUME NEW w0 \in Workers, Crash(w0)
        PROVE  LockIsAlone'
    BY <1>12 DEF RefundTypeOK, WorkerByPlace, LockIsAlone, Claimable,
       Locked, Crash, Faulty
  <1>13. ASSUME NEW d0 \in Rows, Settles(d0)
        PROVE  LockIsAlone'
    BY <1>13 DEF RefundTypeOK, WorkerByPlace, LockIsAlone, Claimable,
       Locked, Settles
  <1>14. CASE UNCHANGED refundVars
    BY <1>14 DEF RefundTypeOK, WorkerByPlace, LockIsAlone, Claimable,
       Locked, refundVars
  <1> QED
    BY <1>1, <1>2, <1>3, <1>4, <1>5, <1>6, <1>7, <1>8, <1>9, <1>10, <1>11,
       <1>12, <1>13, <1>14, Zenon DEF RefundNext, Drain, Work, Fault

(* A confirmed transfer stays confirmed.                                   *)
LEMMA OkStep ==
    ASSUME RefundTypeOK, WorkerByPlace, OkWasSent, [RefundNext]_refundVars
    PROVE  OkWasSent'
  <1> USE DEF LetGo, rowVars, workVars
  <1>1. ASSUME NEW d0 \in Rows, Produce(d0)
        PROVE  OkWasSent'
    BY <1>1 DEF RefundTypeOK, WorkerByPlace, OkWasSent, Confirms, Produce,
       AddRow
  <1>2. ASSUME NEW w0 \in Workers, Tick(w0)
        PROVE  OkWasSent'
    BY <1>2 DEF RefundTypeOK, WorkerByPlace, OkWasSent, Confirms, Tick
  <1>3. ASSUME NEW w0 \in Workers, Claim(w0)
        PROVE  OkWasSent'
    <2>1. result[w0] # "ok" /\ \A w \in Workers \ {w0} : row'[w] = row[w]
      BY <1>3 DEF Claim, RefundTypeOK, WorkerByPlace
    <2> QED BY <1>3, <2>1 DEF Claim, OkWasSent, Confirms
  <1>4. ASSUME NEW w0 \in Workers, NoneLeft(w0)
        PROVE  OkWasSent'
    BY <1>4 DEF RefundTypeOK, WorkerByPlace, OkWasSent, Confirms,
       NoneLeft, EndDrain
  <1>5. ASSUME NEW w0 \in Workers, SendNothing(w0)
        PROVE  OkWasSent'
    BY <1>5 DEF RefundTypeOK, WorkerByPlace, OkWasSent, Confirms,
       SendNothing, Report
  <1>6. ASSUME NEW w0 \in Workers, Send(w0)
        PROVE  OkWasSent'
    <2>1. row[w0] \in Rows
      BY <1>6 DEF Send, WorkerByPlace
    <2>2. Kept
      BY <1>6, <2>1, SendKeeps
    <2>3. UNCHANGED <<row, result>> /\ \A w \in Workers \ {w0} : sent'[w] = sent[w]
      BY <1>6 DEF Send, RefundTypeOK
    <2>4. result[w0] # "ok"
      BY <1>6 DEF Send, WorkerByPlace
    <2> QED BY <2>2, <2>3, <2>4 DEF OkWasSent, WorkerByPlace, Confirms, Kept
  <1>7. ASSUME NEW w0 \in Workers, SendReturns(w0)
        PROVE  OkWasSent'
    <2>1. PICK res \in {"ok", "error"} :
              /\ res = "ok" => Confirms(row[w0], transfers[row[w0]][sent[w0]])
              /\ Report(w0, res)
      BY <1>7 DEF SendReturns
    <2>2. ChainOf[row[w0]] # "none"
      BY <1>7 DEF SendReturns, WorkerByPlace
    <2>3. /\ \A w \in Workers \ {w0} : result'[w] = result[w]
          /\ result'[w0] = res
          /\ UNCHANGED <<row, sent, transfers>>
      BY <1>7, <2>1 DEF SendReturns, Report, RefundTypeOK
    <2> QED BY <2>1, <2>2, <2>3 DEF OkWasSent, Confirms
  <1>8. ASSUME NEW w0 \in Workers, Record(w0)
        PROVE  OkWasSent'
    BY <1>8 DEF RefundTypeOK, WorkerByPlace, OkWasSent, Confirms, Record,
       Write
  <1>9. ASSUME NEW w0 \in Workers, RecordInVain(w0)
        PROVE  OkWasSent'
    BY <1>9 DEF RefundTypeOK, WorkerByPlace, OkWasSent, Confirms,
       RecordInVain, EndDrain
  <1>10. ASSUME NEW w0 \in Workers, QueryFault(w0)
        PROVE  OkWasSent'
    BY <1>10 DEF RefundTypeOK, WorkerByPlace, OkWasSent, Confirms,
       QueryFault, EndDrain, Write, Faulty
  <1>11. ASSUME NEW w0 \in Workers, LoseConnection(w0)
        PROVE  OkWasSent'
    BY <1>11 DEF RefundTypeOK, WorkerByPlace, OkWasSent, Confirms,
       LoseConnection, Faulty
  <1>12. ASSUME NEW w0 \in Workers, Crash(w0)
        PROVE  OkWasSent'
    BY <1>12 DEF RefundTypeOK, WorkerByPlace, OkWasSent, Confirms, Crash,
       Faulty
  <1>13. ASSUME NEW d0 \in Rows, Settles(d0)
        PROVE  OkWasSent'
    <2>1. Kept
      BY <1>13, SettlesKeeps
    <2> QED BY <1>13, <2>1 DEF Settles, OkWasSent, WorkerByPlace, Confirms, Kept
  <1>14. CASE UNCHANGED refundVars
    BY <1>14 DEF RefundTypeOK, WorkerByPlace, OkWasSent, Confirms,
       refundVars
  <1> QED
    BY <1>1, <1>2, <1>3, <1>4, <1>5, <1>6, <1>7, <1>8, <1>9, <1>10, <1>11,
       <1>12, <1>13, <1>14, Zenon DEF RefundNext, Drain, Work, Fault

(* A refund on file was sent.                                              *)
LEMMA RefundedStep ==
    ASSUME RefundTypeOK, WorkerByPlace, OkWasSent, RefundedWasSent,
       [RefundNext]_refundVars
    PROVE  RefundedWasSent'
  <1> USE DEF LetGo, rowVars, workVars
  <1>1. ASSUME NEW d0 \in Rows, Produce(d0)
        PROVE  RefundedWasSent'
    BY <1>1 DEF RefundTypeOK, WorkerByPlace, OkWasSent, RefundedWasSent,
       Confirms, Produce, AddRow
  <1>2. ASSUME NEW w0 \in Workers, Tick(w0)
        PROVE  RefundedWasSent'
    BY <1>2 DEF RefundTypeOK, WorkerByPlace, OkWasSent, RefundedWasSent,
       Confirms, Tick
  <1>3. ASSUME NEW w0 \in Workers, Claim(w0)
        PROVE  RefundedWasSent'
    BY <1>3 DEF RefundTypeOK, WorkerByPlace, OkWasSent, RefundedWasSent,
       Confirms, Claim
  <1>4. ASSUME NEW w0 \in Workers, NoneLeft(w0)
        PROVE  RefundedWasSent'
    BY <1>4 DEF RefundTypeOK, WorkerByPlace, OkWasSent, RefundedWasSent,
       Confirms, NoneLeft, EndDrain
  <1>5. ASSUME NEW w0 \in Workers, SendNothing(w0)
        PROVE  RefundedWasSent'
    BY <1>5 DEF RefundTypeOK, WorkerByPlace, OkWasSent, RefundedWasSent,
       Confirms, SendNothing, Report
  <1>6. ASSUME NEW w0 \in Workers, Send(w0)
        PROVE  RefundedWasSent'
    <2>1. row[w0] \in Rows
      BY <1>6 DEF Send, WorkerByPlace
    <2>2. Kept
      BY <1>6, <2>1, SendKeeps
    <2> QED BY <1>6, <2>2 DEF Send, RefundedWasSent, Kept
  <1>7. ASSUME NEW w0 \in Workers, SendReturns(w0)
        PROVE  RefundedWasSent'
    BY <1>7 DEF RefundTypeOK, WorkerByPlace, OkWasSent, RefundedWasSent,
       Confirms, SendReturns, Report
  <1>8. ASSUME NEW w0 \in Workers, Record(w0)
        PROVE  RefundedWasSent'
    <2>1. Write(w0)
      BY <1>8 DEF Record
    <2>2. RefundedWasSent'
      <3>1. result[w0] = "ok" =>
                \E i \in DOMAIN transfers[row[w0]] :
                    \/ transfers[row[w0]][i] = "landed"
                    \/ transfers[row[w0]][i] = "reverted" /\ ChainOf[row[w0]] = "solana"
        <4>1. row[w0] \in Rows
          BY <1>8 DEF Record, WorkerByPlace
        <4>2. ChainOf[row[w0]] \in {"base", "solana", "none"}
          BY <4>1, RowAssumption
        <4> SUFFICES ASSUME result[w0] = "ok"
                     PROVE  \E i \in DOMAIN transfers[row[w0]] :
                                \/ transfers[row[w0]][i] = "landed"
                                \/ /\ transfers[row[w0]][i] = "reverted"
                                   /\ ChainOf[row[w0]] = "solana"
          OBVIOUS
        <4>3. /\ sent[w0] \in DOMAIN transfers[row[w0]]
              /\ Confirms(row[w0], transfers[row[w0]][sent[w0]])
              /\ ChainOf[row[w0]] # "none"
          BY DEF WorkerByPlace, OkWasSent
        <4>4. transfers[row[w0]][sent[w0]] \in {"flying", "landed", "reverted"}
          BY <4>1, <4>3 DEF RefundTypeOK
        <4> QED BY <4>2, <4>3, <4>4 DEF Confirms
      <3>2. \A d \in Rows :
                status'[d] = "refunded" =>
                    \/ status[d] = "refunded"
                    \/ d = row[w0] /\ result[w0] = "ok"
        <4>1. status' = [status EXCEPT ![row[w0]] =
                  IF result[w0] = "ok" THEN "refunded" ELSE @]
          BY <2>1 DEF Write
        <4>2. CASE result[w0] = "ok"
          BY <4>1, <4>2 DEF RefundTypeOK
        <4>3. CASE result[w0] # "ok"
          BY <4>1, <4>3 DEF RefundTypeOK
        <4> QED BY <4>2, <4>3
      <3> QED BY <1>8, <3>1, <3>2 DEF Record, RefundedWasSent
    <2> QED BY <2>2
  <1>9. ASSUME NEW w0 \in Workers, RecordInVain(w0)
        PROVE  RefundedWasSent'
    BY <1>9 DEF RefundTypeOK, WorkerByPlace, OkWasSent, RefundedWasSent,
       Confirms, RecordInVain, EndDrain
  <1>10. ASSUME NEW w0 \in Workers, QueryFault(w0)
        PROVE  RefundedWasSent'
    <2>1. CASE UNCHANGED rowVars
      BY <1>10, <2>1 DEF QueryFault, RefundedWasSent
    <2>2. CASE at[w0] = "record" /\ Write(w0)
      <3>1. result[w0] = "ok" =>
                \E i \in DOMAIN transfers[row[w0]] :
                    \/ transfers[row[w0]][i] = "landed"
                    \/ transfers[row[w0]][i] = "reverted" /\ ChainOf[row[w0]] = "solana"
        <4>1. row[w0] \in Rows
          BY <1>10, <2>2 DEF QueryFault, WorkerByPlace
        <4>2. ChainOf[row[w0]] \in {"base", "solana", "none"}
          BY <4>1, RowAssumption
        <4> SUFFICES ASSUME result[w0] = "ok"
                     PROVE  \E i \in DOMAIN transfers[row[w0]] :
                                \/ transfers[row[w0]][i] = "landed"
                                \/ /\ transfers[row[w0]][i] = "reverted"
                                   /\ ChainOf[row[w0]] = "solana"
          OBVIOUS
        <4>3. /\ sent[w0] \in DOMAIN transfers[row[w0]]
              /\ Confirms(row[w0], transfers[row[w0]][sent[w0]])
              /\ ChainOf[row[w0]] # "none"
          BY DEF WorkerByPlace, OkWasSent
        <4>4. transfers[row[w0]][sent[w0]] \in {"flying", "landed", "reverted"}
          BY <4>1, <4>3 DEF RefundTypeOK
        <4> QED BY <4>2, <4>3, <4>4 DEF Confirms
      <3>2. \A d \in Rows :
                status'[d] = "refunded" =>
                    \/ status[d] = "refunded"
                    \/ d = row[w0] /\ result[w0] = "ok"
        <4>1. status' = [status EXCEPT ![row[w0]] =
                  IF result[w0] = "ok" THEN "refunded" ELSE @]
          BY <2>2 DEF Write
        <4>2. CASE result[w0] = "ok"
          BY <4>1, <4>2 DEF RefundTypeOK
        <4>3. CASE result[w0] # "ok"
          BY <4>1, <4>3 DEF RefundTypeOK
        <4> QED BY <4>2, <4>3
      <3> QED BY <1>10, <3>1, <3>2 DEF QueryFault, RefundedWasSent
    <2> QED BY <1>10, <2>1, <2>2 DEF QueryFault
  <1>11. ASSUME NEW w0 \in Workers, LoseConnection(w0)
        PROVE  RefundedWasSent'
    BY <1>11 DEF RefundTypeOK, WorkerByPlace, OkWasSent, RefundedWasSent,
       Confirms, LoseConnection, Faulty
  <1>12. ASSUME NEW w0 \in Workers, Crash(w0)
        PROVE  RefundedWasSent'
    BY <1>12 DEF RefundTypeOK, WorkerByPlace, OkWasSent, RefundedWasSent,
       Confirms, Crash, Faulty
  <1>13. ASSUME NEW d0 \in Rows, Settles(d0)
        PROVE  RefundedWasSent'
    <2>1. Kept
      BY <1>13, SettlesKeeps
    <2> QED BY <1>13, <2>1 DEF Settles, RefundedWasSent, Kept
  <1>14. CASE UNCHANGED refundVars
    BY <1>14 DEF RefundTypeOK, WorkerByPlace, OkWasSent, RefundedWasSent,
       Confirms, refundVars
  <1> QED
    BY <1>1, <1>2, <1>3, <1>4, <1>5, <1>6, <1>7, <1>8, <1>9, <1>10, <1>11,
       <1>12, <1>13, <1>14, Zenon DEF RefundNext, Drain, Work, Fault

(* Every transfer is accounted for.                                        *)
LEMMA CountStep ==
    ASSUME RefundTypeOK, RefundTypeOK', WorkerByPlace, TriesAreCounted,
       [RefundNext]_refundVars
    PROVE  TriesAreCounted'
  <1> USE DEF LetGo, rowVars, workVars
  <1>1. ASSUME NEW d0 \in Rows, Produce(d0)
        PROVE  TriesAreCounted'
    <2>1. \A d \in Rows : Len(transfers'[d]) = Len(transfers[d])
      BY <1>1 DEF Produce, AddRow
    <2>2. \A d \in Rows : Senders(d)' \subseteq Senders(d)
      BY <1>1 DEF Produce, AddRow, Senders, RefundTypeOK, WorkerByPlace
    <2>3. \A d \in Rows : ChainOf[d] # "none" => Budget(d) <= Budget(d)'
      <3> SUFFICES ASSUME NEW d \in Rows
                   PROVE  Budget(d) <= Budget(d)'
        OBVIOUS
      <3>1. retries' = retries /\ faults' = faults
        BY <1>1 DEF Produce, AddRow
      <3>2. Closed(d) => Closed(d)'
        BY <1>1 DEF Produce, AddRow, Closed, Locked, RefundTypeOK, WorkerByPlace
      <3>3. retries[d] \in Nat /\ faults \in Nat
        BY Numbers
      <3> QED BY <3>1, <3>2, <3>3 DEF Budget
    <2> QED BY <2>1, <2>2, <2>3, CountsKept
  <1>2. ASSUME NEW w0 \in Workers, Tick(w0)
        PROVE  TriesAreCounted'
    <2>1. \A d \in Rows : Len(transfers'[d]) = Len(transfers[d])
      BY <1>2 DEF Tick
    <2>2. \A d \in Rows : Senders(d)' \subseteq Senders(d)
      BY <1>2 DEF Tick, Senders, RefundTypeOK, WorkerByPlace
    <2>3. \A d \in Rows : ChainOf[d] # "none" => Budget(d) <= Budget(d)'
      <3> SUFFICES ASSUME NEW d \in Rows
                   PROVE  Budget(d) <= Budget(d)'
        OBVIOUS
      <3>1. retries' = retries /\ faults' = faults
        BY <1>2 DEF Tick
      <3>2. Closed(d) => Closed(d)'
        BY <1>2 DEF Tick, Closed, Locked, RefundTypeOK, WorkerByPlace
      <3>3. retries[d] \in Nat /\ faults \in Nat
        BY Numbers
      <3> QED BY <3>1, <3>2, <3>3 DEF Budget
    <2> QED BY <2>1, <2>2, <2>3, CountsKept
  <1>3. ASSUME NEW w0 \in Workers, Claim(w0)
        PROVE  TriesAreCounted'
    <2>1. PICK d \in Rows : d \in Claimable(w0) /\ row' = [row EXCEPT ![w0] = d]
      <3>1. PICK i \in DOMAIN queue :
                queue[i] \in Claimable(w0) /\ row' = [row EXCEPT ![w0] = queue[i]]
        BY <1>3 DEF Claim
      <3>2. queue[i] \in Rows
        BY DEF RefundTypeOK
      <3> QED BY <3>1, <3>2
    <2>p. /\ at'[w0] = "send" /\ row'[w0] = d /\ held'[w0] /\ at[w0] = "drain"
          /\ \A v \in Workers \ {w0} :
                at'[v] = at[v] /\ row'[v] = row[v] /\ held'[v] = held[v]
      BY <1>3, <2>1 DEF Claim, RefundTypeOK
    <2>2. Senders(d)' = Senders(d) \union {w0} /\ w0 \notin Senders(d)
      BY <2>p DEF Senders
    <2>3. \A x \in Rows \ {d} : Senders(x)' = Senders(x)
      BY <2>p DEF Senders
    <2>4. Cardinality(Senders(d)') = Cardinality(Senders(d)) + 1
      BY <2>2, SendersFinite, FS_AddElement
    <2>5. ~Closed(d) /\ Closed(d)'
      <3>1. ~Closed(d)
        BY <2>1 DEF Claimable, Closed
      <3> QED BY <2>p, <3>1 DEF Closed, Locked
    <2>6. \A x \in Rows \ {d} : Closed(x) => Closed(x)'
      <3>1. ~held[w0]
        BY <1>3 DEF Claim, WorkerByPlace, RefundTypeOK
      <3>2. /\ \A v \in Workers \ {w0} : held'[v] = held[v] /\ row'[v] = row[v]
            /\ status' = status
        BY <1>3, <2>1 DEF Claim, RefundTypeOK
      <3>3. \A x \in Locked : x \in Locked'
        BY <3>1, <3>2 DEF Locked
      <3> QED BY <3>2, <3>3 DEF Closed
    <2>7. UNCHANGED <<transfers, retries, faults>>
      BY <1>3 DEF Claim
    <2> SUFFICES ASSUME NEW x \in Rows
                 PROVE  /\ ChainOf[x] = "none" => Len(transfers[x]) = 0
                        /\ ChainOf[x] # "none" =>
                              Len(transfers[x]) + Cardinality(Senders(x)') <= Budget(x)'
      BY <2>7 DEF TriesAreCounted
    <2>8. /\ Len(transfers[x]) \in Nat /\ retries[x] \in Nat /\ faults \in Nat
          /\ Cardinality(Senders(x)) \in Nat
      BY Numbers
    <2>9. CASE x = d
      <3>1. Budget(x) = retries[x] + faults /\ Budget(x)' = retries[x] + faults + 1
        BY <2>5, <2>7, <2>8, <2>9 DEF Budget
      <3>2. Cardinality(Senders(x)') = Cardinality(Senders(x)) + 1
        BY <2>4, <2>9
      <3> QED BY <2>8, <3>1, <3>2 DEF TriesAreCounted
    <2>10. CASE x # d
      BY <2>3, <2>6, <2>7, <2>8, <2>10 DEF TriesAreCounted, Budget
    <2> QED BY <2>9, <2>10
  <1>4. ASSUME NEW w0 \in Workers, NoneLeft(w0)
        PROVE  TriesAreCounted'
    <2>1. \A d \in Rows : Len(transfers'[d]) = Len(transfers[d])
      BY <1>4 DEF NoneLeft, EndDrain
    <2>2. \A d \in Rows : Senders(d)' \subseteq Senders(d)
      BY <1>4 DEF NoneLeft, EndDrain, Senders, RefundTypeOK, WorkerByPlace
    <2>3. \A d \in Rows : ChainOf[d] # "none" => Budget(d) <= Budget(d)'
      <3> SUFFICES ASSUME NEW d \in Rows
                   PROVE  Budget(d) <= Budget(d)'
        OBVIOUS
      <3>1. /\ retries' = retries /\ faults' = faults /\ status' = status
            /\ \A v \in Workers \ {w0} : held'[v] = held[v] /\ row'[v] = row[v]
        BY <1>4 DEF NoneLeft, EndDrain, RefundTypeOK
      <3>2. ~held[w0]
        BY <1>4 DEF NoneLeft, WorkerByPlace, RefundTypeOK
      <3>3. \A x \in Locked : x \in Locked'
        BY <3>1, <3>2 DEF Locked
      <3>4. retries[d] \in Nat /\ faults \in Nat
        BY Numbers
      <3> QED BY <3>1, <3>3, <3>4 DEF Budget, Closed
    <2> QED BY <2>1, <2>2, <2>3, CountsKept
  <1>5. ASSUME NEW w0 \in Workers, SendNothing(w0)
        PROVE  TriesAreCounted'
    <2>1. \A d \in Rows : Len(transfers'[d]) = Len(transfers[d])
      BY <1>5 DEF SendNothing, Report
    <2>2. \A d \in Rows : Senders(d)' \subseteq Senders(d)
      BY <1>5 DEF SendNothing, Report, Senders, RefundTypeOK, WorkerByPlace
    <2>3. \A d \in Rows : ChainOf[d] # "none" => Budget(d) <= Budget(d)'
      <3> SUFFICES ASSUME NEW d \in Rows
                   PROVE  Budget(d) <= Budget(d)'
        OBVIOUS
      <3>1. retries' = retries /\ faults' = faults
        BY <1>5 DEF SendNothing, Report
      <3>2. Closed(d) => Closed(d)'
        BY <1>5 DEF SendNothing, Report, Closed, Locked, RefundTypeOK, WorkerByPlace
      <3>3. retries[d] \in Nat /\ faults \in Nat
        BY Numbers
      <3> QED BY <3>1, <3>2, <3>3 DEF Budget
    <2> QED BY <2>1, <2>2, <2>3, CountsKept
  <1>6. ASSUME NEW w0 \in Workers, Send(w0)
        PROVE  TriesAreCounted'
    <2>1. PICK d \in Rows : d = row[w0] /\ d = row'[w0] /\ ChainOf[d] # "none"
      BY <1>6 DEF Send, WorkerByPlace
    <2>2. /\ Len(transfers'[d]) = Len(transfers[d]) + 1
          /\ \A x \in Rows \ {d} : transfers'[x] = transfers[x]
      BY <1>6, <2>1, SendKeeps
    <2>3. Senders(d)' = Senders(d) \ {w0} /\ w0 \in Senders(d)
      BY <1>6, <2>1 DEF Send, Senders, RefundTypeOK
    <2>4. \A x \in Rows \ {d} : Senders(x)' = Senders(x)
      BY <1>6, <2>1 DEF Send, Senders, RefundTypeOK
    <2>5. Cardinality(Senders(d)') = Cardinality(Senders(d)) - 1
      BY <2>3, SendersFinite, FS_RemoveElement
    <2>6. \A x \in Rows : Budget(x)' = Budget(x)
      BY <1>6 DEF Send, Budget, Closed, Locked
    <2> SUFFICES ASSUME NEW x \in Rows
                 PROVE  /\ ChainOf[x] = "none" => Len(transfers'[x]) = 0
                        /\ ChainOf[x] # "none" =>
                              Len(transfers'[x]) + Cardinality(Senders(x)') <= Budget(x)'
      BY DEF TriesAreCounted
    <2>7. Len(transfers[x]) \in Nat /\ Cardinality(Senders(x)) \in Nat /\ Budget(x) \in Nat
      BY Numbers
    <2>8. CASE x = d
      <3>1. /\ Len(transfers'[x]) = Len(transfers[x]) + 1
            /\ Cardinality(Senders(x)') = Cardinality(Senders(x)) - 1
            /\ Budget(x)' = Budget(x)
        BY <2>2, <2>5, <2>6, <2>8
      <3>2. /\ ChainOf[x] # "none"
            /\ Len(transfers[x]) + Cardinality(Senders(x)) <= Budget(x)
        BY <2>1, <2>8 DEF TriesAreCounted
      <3> QED BY <2>7, <3>1, <3>2
    <2>9. CASE x # d
      BY <2>2, <2>4, <2>6, <2>7, <2>9 DEF TriesAreCounted
    <2> QED BY <2>8, <2>9
  <1>7. ASSUME NEW w0 \in Workers, SendReturns(w0)
        PROVE  TriesAreCounted'
    <2>1. \A d \in Rows : Len(transfers'[d]) = Len(transfers[d])
      BY <1>7 DEF SendReturns, Report
    <2>2. \A d \in Rows : Senders(d)' \subseteq Senders(d)
      BY <1>7 DEF SendReturns, Report, Senders, RefundTypeOK, WorkerByPlace
    <2>3. \A d \in Rows : ChainOf[d] # "none" => Budget(d) <= Budget(d)'
      <3> SUFFICES ASSUME NEW d \in Rows
                   PROVE  Budget(d) <= Budget(d)'
        OBVIOUS
      <3>1. retries' = retries /\ faults' = faults
        BY <1>7 DEF SendReturns, Report
      <3>2. Closed(d) => Closed(d)'
        BY <1>7 DEF SendReturns, Report, Closed, Locked, RefundTypeOK, WorkerByPlace
      <3>3. retries[d] \in Nat /\ faults \in Nat
        BY Numbers
      <3> QED BY <3>1, <3>2, <3>3 DEF Budget
    <2> QED BY <2>1, <2>2, <2>3, CountsKept
  <1>8. ASSUME NEW w0 \in Workers, Record(w0)
        PROVE  TriesAreCounted'
    <2>1. \A d \in Rows : Len(transfers'[d]) = Len(transfers[d])
      BY <1>8 DEF Record, Write
    <2>2. \A d \in Rows : Senders(d)' \subseteq Senders(d)
      BY <1>8 DEF Record, Write, Senders, RefundTypeOK, WorkerByPlace
    <2>3. \A d \in Rows : ChainOf[d] # "none" => Budget(d) <= Budget(d)'
      <3> SUFFICES ASSUME NEW d \in Rows, ChainOf[d] # "none"
                   PROVE  Budget(d) <= Budget(d)'
        OBVIOUS
      <3>1. retries[d] \in Nat /\ faults \in Nat /\ faults' = faults
        BY <1>8, Numbers DEF Record
      <3>2. row[w0] \in Rows /\ held[w0] /\ result[w0] # "none"
        BY <1>8 DEF Record, WorkerByPlace
      <3>3. CASE d # row[w0]
        <4>1. retries'[d] = retries[d] /\ status'[d] = status[d]
          BY <1>8, <3>3 DEF Record, Write, RefundTypeOK
        <4>2. d \in Locked => d \in Locked'
          BY <1>8, <3>3 DEF Record, Locked, RefundTypeOK
        <4>3. Closed(d) => Closed(d)'
          BY <4>1, <4>2 DEF Closed
        <4> QED BY <3>1, <4>1, <4>3 DEF Budget
      <3>4. CASE d = row[w0] /\ result[w0] = "ok"
        <4>1. retries'[d] = retries[d] /\ status'[d] = "refunded"
          BY <1>8, <3>4 DEF Record, Write, RefundTypeOK
        <4> QED BY <3>1, <4>1 DEF Budget, Closed
      <3>5. CASE d = row[w0] /\ result[w0] = "error"
        <4>1. retries'[d] = retries[d] + 1
          BY <1>8, <3>5 DEF Record, Write, RefundTypeOK
        <4> QED BY <3>1, <4>1 DEF Budget
      <3>6. result[w0] \in {"ok", "error"} \/ d # row[w0]
        BY <1>8, <3>2 DEF Record, RefundTypeOK, WorkerByPlace
      <3> QED BY <3>3, <3>4, <3>5, <3>6
    <2> QED BY <2>1, <2>2, <2>3, CountsKept
  <1>9. ASSUME NEW w0 \in Workers, RecordInVain(w0)
        PROVE  TriesAreCounted'
    <2>1. \A d \in Rows : Len(transfers'[d]) = Len(transfers[d])
      BY <1>9 DEF RecordInVain, EndDrain
    <2>2. \A d \in Rows : Senders(d)' \subseteq Senders(d)
      BY <1>9 DEF RecordInVain, EndDrain, Senders, RefundTypeOK, WorkerByPlace
    <2>3. \A d \in Rows : ChainOf[d] # "none" => Budget(d) <= Budget(d)'
      <3> SUFFICES ASSUME NEW d \in Rows
                   PROVE  Budget(d) <= Budget(d)'
        OBVIOUS
      <3>1. retries' = retries /\ faults' = faults
        BY <1>9 DEF RecordInVain, EndDrain
      <3>2. Closed(d) => Closed(d)'
        BY <1>9 DEF RecordInVain, EndDrain, Closed, Locked, RefundTypeOK, WorkerByPlace
      <3>3. retries[d] \in Nat /\ faults \in Nat
        BY Numbers
      <3> QED BY <3>1, <3>2, <3>3 DEF Budget
    <2> QED BY <2>1, <2>2, <2>3, CountsKept
  <1>10. ASSUME NEW w0 \in Workers, QueryFault(w0)
        PROVE  TriesAreCounted'
    <2>1. \A d \in Rows : Len(transfers'[d]) = Len(transfers[d])
      BY <1>10 DEF QueryFault, EndDrain, Write, Faulty
    <2>2. \A d \in Rows : Senders(d)' \subseteq Senders(d)
      BY <1>10 DEF QueryFault, EndDrain, Write, Faulty, Senders, RefundTypeOK, WorkerByPlace
    <2>3. \A d \in Rows : ChainOf[d] # "none" => Budget(d) <= Budget(d)'
      <3> SUFFICES ASSUME NEW d \in Rows
                   PROVE  Budget(d) <= Budget(d)'
        OBVIOUS
      <3>1. faults' = faults + 1
        BY <1>10 DEF QueryFault, Faulty
      <3>2. retries[d] \in Nat /\ faults \in Nat
        BY Numbers
      <3>3. retries'[d] = retries[d] \/ retries'[d] = retries[d] + 1
        <4>1. CASE UNCHANGED rowVars
          BY <4>1
        <4>2. CASE Write(w0)
          BY <4>2 DEF Write, RefundTypeOK
        <4> QED BY <1>10, <4>1, <4>2 DEF QueryFault
      <3> QED BY <3>1, <3>2, <3>3 DEF Budget
    <2> QED BY <2>1, <2>2, <2>3, CountsKept
  <1>11. ASSUME NEW w0 \in Workers, LoseConnection(w0)
        PROVE  TriesAreCounted'
    <2>1. \A d \in Rows : Len(transfers'[d]) = Len(transfers[d])
      BY <1>11 DEF LoseConnection, Faulty
    <2>2. \A d \in Rows : Senders(d)' \subseteq Senders(d)
      BY <1>11 DEF LoseConnection, Faulty, Senders, RefundTypeOK, WorkerByPlace
    <2>3. \A d \in Rows : ChainOf[d] # "none" => Budget(d) <= Budget(d)'
      <3> SUFFICES ASSUME NEW d \in Rows
                   PROVE  Budget(d) <= Budget(d)'
        OBVIOUS
      <3>1. faults' = faults + 1
        BY <1>11 DEF LoseConnection, Faulty
      <3>2. retries[d] \in Nat /\ faults \in Nat
        BY Numbers
      <3>3. retries'[d] \in Nat /\ retries'[d] >= retries[d]
        BY <1>11, <3>2 DEF LoseConnection, Faulty, RefundTypeOK
      <3> QED BY <3>1, <3>2, <3>3 DEF Budget
    <2> QED BY <2>1, <2>2, <2>3, CountsKept
  <1>12. ASSUME NEW w0 \in Workers, Crash(w0)
        PROVE  TriesAreCounted'
    <2>1. \A d \in Rows : Len(transfers'[d]) = Len(transfers[d])
      BY <1>12 DEF Crash, Faulty
    <2>2. \A d \in Rows : Senders(d)' \subseteq Senders(d)
      BY <1>12 DEF Crash, Faulty, Senders, RefundTypeOK, WorkerByPlace
    <2>3. \A d \in Rows : ChainOf[d] # "none" => Budget(d) <= Budget(d)'
      <3> SUFFICES ASSUME NEW d \in Rows
                   PROVE  Budget(d) <= Budget(d)'
        OBVIOUS
      <3>1. faults' = faults + 1
        BY <1>12 DEF Crash, Faulty
      <3>2. retries[d] \in Nat /\ faults \in Nat
        BY Numbers
      <3>3. retries'[d] \in Nat /\ retries'[d] >= retries[d]
        BY <1>12, <3>2 DEF Crash, Faulty, RefundTypeOK
      <3> QED BY <3>1, <3>2, <3>3 DEF Budget
    <2> QED BY <2>1, <2>2, <2>3, CountsKept
  <1>13. ASSUME NEW d0 \in Rows, Settles(d0)
        PROVE  TriesAreCounted'
    <2>1. \A d \in Rows : Len(transfers'[d]) = Len(transfers[d])
      BY <1>13, SettlesKeeps
    <2>2. \A d \in Rows : Senders(d)' \subseteq Senders(d)
      BY <1>13 DEF Settles, Senders, RefundTypeOK, WorkerByPlace
    <2>3. \A d \in Rows : ChainOf[d] # "none" => Budget(d) <= Budget(d)'
      <3> SUFFICES ASSUME NEW d \in Rows
                   PROVE  Budget(d) <= Budget(d)'
        OBVIOUS
      <3>1. retries' = retries /\ faults' = faults
        BY <1>13 DEF Settles
      <3>2. Closed(d) => Closed(d)'
        BY <1>13 DEF Settles, Closed, Locked, RefundTypeOK, WorkerByPlace
      <3>3. retries[d] \in Nat /\ faults \in Nat
        BY Numbers
      <3> QED BY <3>1, <3>2, <3>3 DEF Budget
    <2> QED BY <2>1, <2>2, <2>3, CountsKept
  <1>14. CASE UNCHANGED refundVars
    <2>1. UNCHANGED <<transfers, retries, faults, status, held, row, at>>
      BY <1>14 DEF refundVars, rowVars, workVars
    <2>2. \A d \in Rows : Senders(d)' = Senders(d) /\ Closed(d)' = Closed(d)
      BY <2>1 DEF Senders, Closed, Locked
    <2>3. \A d \in Rows : Budget(d)' = Budget(d)
      BY <2>1, <2>2 DEF Budget
    <2>4. \A d \in Rows : Budget(d) <= Budget(d)'
      <3> SUFFICES ASSUME NEW d \in Rows
                   PROVE  Budget(d) <= Budget(d)'
        OBVIOUS
      <3> QED BY <2>3, Numbers
    <2>5. /\ \A d \in Rows : Len(transfers'[d]) = Len(transfers[d])
          /\ \A d \in Rows : Senders(d)' \subseteq Senders(d)
      BY <2>1, <2>2
    <2> QED BY <2>4, <2>5, CountsKept
  <1> QED
    BY <1>1, <1>2, <1>3, <1>4, <1>5, <1>6, <1>7, <1>8, <1>9, <1>10, <1>11,
       <1>12, <1>13, <1>14, Zenon DEF RefundNext, Drain, Work, Fault

(* The invariant, initially and at every step.                             *)
LEMMA RefundInvInit == RefundInit => RefundInv
  <1> SUFFICES ASSUME RefundInit
               PROVE  RefundInv
    OBVIOUS
  <1>1. RefundTypeOK
    BY BoundAssumption DEF RefundInit, RefundTypeOK
  <1>2. WorkerByPlace /\ LockIsAlone /\ OkWasSent /\ RefundedWasSent
    BY DEF RefundInit, WorkerByPlace, LockIsAlone, OkWasSent, RefundedWasSent
  <1>3. TriesAreCounted
    <2> SUFFICES ASSUME NEW d \in Rows
                 PROVE  /\ Len(transfers[d]) = 0
                        /\ Cardinality(Senders(d)) = 0
                        /\ Budget(d) \in Nat
      BY DEF TriesAreCounted
    <2>1. Len(transfers[d]) = 0
      <3>1. Len(<<>>) = 0
        OBVIOUS
      <3>2. transfers[d] = <<>>
        BY DEF RefundInit
      <3> QED BY <3>1, <3>2, Zenon
    <2>2. Senders(d) = {}
      BY DEF RefundInit, Senders
    <2> QED BY <1>1, <2>1, <2>2, FS_EmptySet, Numbers
  <1> QED BY <1>1, <1>2, <1>3 DEF RefundInv

LEMMA RefundInvStep == RefundInv /\ [RefundNext]_refundVars => RefundInv'
  <1> SUFFICES ASSUME RefundInv, [RefundNext]_refundVars
               PROVE  RefundInv'
    OBVIOUS
  <1> USE DEF RefundInv
  <1>1. RefundTypeOK'
    BY TypeStep
  <1>2. WorkerByPlace' /\ LockIsAlone' /\ OkWasSent' /\ RefundedWasSent'
    BY WorkerStep, LockStep, OkStep, RefundedStep
  <1>3. TriesAreCounted'
    BY <1>1, CountStep
  <1> QED BY <1>1, <1>2, <1>3

LEMMA Inductive == RefundSpec => []RefundInv
  BY RefundInvInit, RefundInvStep, PTL DEF RefundSpec

(* What the count comes to.                                                *)
LEMMA CountIsEnough == RefundInv => SentOncePerTry
  <1> SUFFICES ASSUME RefundInv, NEW d \in Rows
               PROVE  Len(transfers[d]) <= retries[d] + faults + 1
    BY DEF SentOncePerTry
  <1>1. /\ Len(transfers[d]) \in Nat /\ retries[d] \in Nat /\ faults \in Nat
        /\ Cardinality(Senders(d)) \in Nat
    BY Numbers DEF RefundInv
  <1>2. /\ ChainOf[d] = "none" => Len(transfers[d]) = 0
        /\ ChainOf[d] # "none" =>
              Len(transfers[d]) + Cardinality(Senders(d)) <= Budget(d)
    BY DEF RefundInv, TriesAreCounted
  <1>3. Budget(d) <= retries[d] + faults + 1 /\ Budget(d) \in Nat
    BY <1>1 DEF Budget
  <1> QED BY <1>1, <1>2, <1>3

(* Every reachable state has the declared shape, and no row is tried more  *)
(* than MaxRetries times.                                                  *)
THEOREM TypeCorrect == RefundSpec => []RefundTypeOK
  BY Inductive, PTL DEF RefundInv

(* A refund on file as refunded was sent.                                  *)
THEOREM RefundedWasSentHolds == RefundSpec => []RefundedWasSent
  BY Inductive, PTL DEF RefundInv

(* No transfer is made for a row but for a try on file as failed or for a  *)
(* fault.                                                                  *)
THEOREM SentOncePerTryHolds == RefundSpec => []SentOncePerTry
  BY CountIsEnough, Inductive, PTL

-----------------------------------------------------------------------------
(* Proxy requests                                                          *)

(* What is proved of the worker alone holds in the composition, where every*)
(* step of a request is a step of a producer to it, or none.               *)

(* What a worker has in hand, or has sent a transfer for, is on file.      *)
Recorded ==
    /\ \A w \in Workers :
          at[w] \in {"send", "wait", "record"} => status[row[w]] # "none"
    /\ \A d \in Rows : transfers[d] # <<>> => status[d] # "none"

(* A request that was not accepted yet has nothing.                        *)
IdleIsEmpty ==
    \A r \in Requests : place[r] = "idle" => status[r] = "none"

(* Our own spend, by where the request is.                                 *)
SpendByPlace ==
    \A r \in Requests :
        /\ place[r] \in {"idle", "dispatch", "open", "body", "log", "pay"} => ~spent[r]
        /\ place[r] \in {"idle", "dispatch", "open"} => outbound[r] = "none"
        /\ place[r] \in {"pay", "paid", "finish"} =>
              outbound[r] = "pending" \/ (outbound[r] = "none" /\ "outbound" \in hit[r])
        /\ place[r] \in {"book", "refund", "logged", "enqueue", "done"} /\ spent[r] =>
              \/ outbound[r] = IF reply[r] = "ok" THEN "settled" ELSE "failed"
              \/ hit[r] \intersect {"outbound", "body"} # {}

(* The enqueue lies behind.                                                *)
FailureFiled ==
    \A r \in Requests : place[r] \in {"logged", "done"} /\ reply[r] = "5xx" =>
        RowsFor(r) # {} \/ hit[r] \intersect {"refund", "body", "price"} # {}

(* The unique index on the endpoint and the payment's hash.                *)
OneRowPerPayment ==
    \A q, r \in Requests :
        /\ SameKey(q, r)
        /\ status[q] # "none" /\ status[r] # "none"
        => q = r

ProxyInv ==
    /\ RefundInv /\ TypeOK /\ Recorded /\ IdleIsEmpty
    /\ SpendByPlace /\ FailureFiled /\ OneRowPerPayment

(* What a worker has in hand is on file.                                   *)
LEMMA RecordedStep ==
    ASSUME RefundTypeOK, WorkerByPlace, Recorded, [RefundNext]_refundVars
    PROVE  Recorded'
  <1> USE DEF LetGo, rowVars, workVars
  <1>1. ASSUME NEW d0 \in Rows, Produce(d0)
        PROVE  Recorded'
    BY <1>1 DEF RefundTypeOK, WorkerByPlace, Recorded, Produce, AddRow
  <1>2. ASSUME NEW w0 \in Workers, Tick(w0)
        PROVE  Recorded'
    BY <1>2 DEF RefundTypeOK, WorkerByPlace, Recorded, Tick
  <1>3. ASSUME NEW w0 \in Workers, Claim(w0)
        PROVE  Recorded'
    <2>1. PICK d \in Rows : d \in Claimable(w0) /\ row' = [row EXCEPT ![w0] = d]
      <3>1. PICK i \in DOMAIN queue :
                queue[i] \in Claimable(w0) /\ row' = [row EXCEPT ![w0] = queue[i]]
        BY <1>3 DEF Claim
      <3>2. queue[i] \in Rows
        BY DEF RefundTypeOK
      <3> QED BY <3>1, <3>2
    <2>2. status[d] # "none"
      BY <2>1 DEF Claimable
    <2> QED BY <1>3, <2>1, <2>2 DEF Claim, Recorded, RefundTypeOK
  <1>4. ASSUME NEW w0 \in Workers, NoneLeft(w0)
        PROVE  Recorded'
    BY <1>4 DEF RefundTypeOK, WorkerByPlace, Recorded, NoneLeft, EndDrain
  <1>5. ASSUME NEW w0 \in Workers, SendNothing(w0)
        PROVE  Recorded'
    BY <1>5 DEF RefundTypeOK, WorkerByPlace, Recorded, SendNothing, Report
  <1>6. ASSUME NEW w0 \in Workers, Send(w0)
        PROVE  Recorded'
    <2>1. row[w0] \in Rows /\ status[row[w0]] # "none"
      BY <1>6 DEF Send, WorkerByPlace, Recorded
    <2>2. \A d \in Rows \ {row[w0]} : transfers'[d] = transfers[d]
      BY <1>6, <2>1 DEF Send, RefundTypeOK
    <2> QED BY <1>6, <2>1, <2>2 DEF Send, Recorded, RefundTypeOK
  <1>7. ASSUME NEW w0 \in Workers, SendReturns(w0)
        PROVE  Recorded'
    BY <1>7 DEF RefundTypeOK, WorkerByPlace, Recorded, SendReturns, Report
  <1>8. ASSUME NEW w0 \in Workers, Record(w0)
        PROVE  Recorded'
    BY <1>8 DEF RefundTypeOK, WorkerByPlace, Recorded, Record, Write
  <1>9. ASSUME NEW w0 \in Workers, RecordInVain(w0)
        PROVE  Recorded'
    BY <1>9 DEF RefundTypeOK, WorkerByPlace, Recorded, RecordInVain,
       EndDrain
  <1>10. ASSUME NEW w0 \in Workers, QueryFault(w0)
        PROVE  Recorded'
    BY <1>10 DEF RefundTypeOK, WorkerByPlace, Recorded, QueryFault,
       EndDrain, Write, Faulty
  <1>11. ASSUME NEW w0 \in Workers, LoseConnection(w0)
        PROVE  Recorded'
    BY <1>11 DEF RefundTypeOK, WorkerByPlace, Recorded, LoseConnection,
       Faulty
  <1>12. ASSUME NEW w0 \in Workers, Crash(w0)
        PROVE  Recorded'
    BY <1>12 DEF RefundTypeOK, WorkerByPlace, Recorded, Crash, Faulty
  <1>13. ASSUME NEW d0 \in Rows, Settles(d0)
        PROVE  Recorded'
    <2>1. \A d \in Rows : Len(transfers'[d]) = Len(transfers[d])
      BY <1>13, SettlesKeeps
    <2>2. transfers' \in [Rows -> Seq({"flying", "landed", "reverted"})]
      BY <1>13, SettlesKeeps
    <2>3. \A d \in Rows : transfers'[d] # <<>> => transfers[d] # <<>>
      <3> SUFFICES ASSUME NEW d \in Rows, transfers[d] = <<>>
                   PROVE  transfers'[d] = <<>>
        OBVIOUS
      <3>1. transfers'[d] \in Seq({"flying", "landed", "reverted"})
        BY <2>2
      <3>2. Len(transfers'[d]) = 0
        BY <2>1
      <3> QED BY <3>1, <3>2
    <2> QED BY <1>13, <2>3 DEF Settles, Recorded
  <1>14. CASE UNCHANGED refundVars
    BY <1>14 DEF RefundTypeOK, WorkerByPlace, Recorded, refundVars
  <1> QED
    BY <1>1, <1>2, <1>3, <1>4, <1>5, <1>6, <1>7, <1>8, <1>9, <1>10, <1>11,
       <1>12, <1>13, <1>14, Zenon DEF RefundNext, Drain, Work, Fault

(* A worker's step records no row and removes none.                        *)
LEMMA DrainRecordsNothing ==
    ASSUME RefundTypeOK, WorkerByPlace, Recorded, Drain
    PROVE  \A d \in Rows : status'[d] = "none" <=> status[d] = "none"
  <1> USE DEF rowVars, workVars
  <1>1. ASSUME NEW w \in Workers, Write(w), at[w] = "record"
        PROVE  \A d \in Rows : status'[d] = "none" <=> status[d] = "none"
    <2>1. row[w] \in Rows /\ status[row[w]] # "none"
      BY <1>1 DEF WorkerByPlace, Recorded
    <2>2. /\ \A d \in Rows \ {row[w]} : status'[d] = status[d]
          /\ status'[row[w]] \in {"refunded", status[row[w]]}
      BY <1>1, <2>1 DEF Write, RefundTypeOK
    <2> QED BY <2>1, <2>2
  <1>2. ASSUME NEW w \in Workers, Work(w)
        PROVE  \A d \in Rows : status'[d] = "none" <=> status[d] = "none"
    <2>1. CASE Record(w)
      BY <1>1, <2>1 DEF Record
    <2>2. CASE ~Record(w)
      <3>1. UNCHANGED status
        BY <1>2, <2>2, Zenon
           DEF Work, Tick, Claim, NoneLeft, SendNothing, Send, SendReturns, RecordInVain
      <3> QED BY <3>1
    <2> QED BY <2>1, <2>2
  <1>3. ASSUME NEW w \in Workers, Fault(w)
        PROVE  \A d \in Rows : status'[d] = "none" <=> status[d] = "none"
    <2>1. CASE QueryFault(w) /\ at[w] = "record" /\ Write(w)
      BY <1>1, <2>1
    <2>2. CASE ~(QueryFault(w) /\ at[w] = "record" /\ Write(w))
      <3>1. UNCHANGED status
        BY <1>3, <2>2, Zenon DEF Fault, QueryFault, LoseConnection, Crash
      <3> QED BY <3>1
    <2> QED BY <2>1, <2>2
  <1>4. ASSUME NEW d \in Rows, Settles(d)
        PROVE  \A x \in Rows : status'[x] = "none" <=> status[x] = "none"
    BY <1>4 DEF Settles
  <1> QED BY <1>2, <1>3, <1>4 DEF Drain

(* To the worker a request is a producer.                                  *)
LEMMA RequestsProduce == [Next]_vars => [RefundNext]_refundVars
  <1> SUFFICES ASSUME Next
               PROVE  [RefundNext]_refundVars
    BY DEF vars
  <1>1. ASSUME NEW r \in Requests, EnqueueRefund(r)
        PROVE  [RefundNext]_refundVars
    <2>1. UNCHANGED <<transfers, workVars, faults>>
      BY <1>1 DEF EnqueueRefund
    <2>2. AddRow(r) \/ UNCHANGED rowVars
      BY <1>1 DEF EnqueueRefund, RecordRefundPending
    <2> QED BY <2>1, <2>2, RequestAssumption DEF RefundNext, Produce, refundVars
  <1>2. ASSUME NEW r \in Requests, Handle(r), ~EnqueueRefund(r)
        PROVE  UNCHANGED refundVars
    BY <1>2 DEF Handle, Accept, Misconfigured, CallHandler, CallUpstream,
       CallUpstreamWithX402, Proceed, StartOutbound, PayUpstream, FinishOutbound,
       PriceUnreadable, Uncaught, ReadBody, BodyCut, Book, LogError, ProcessDies
  <1> QED BY <1>1, <1>2 DEF Next, RefundNext

(* The rows that stand for a request stay as long as rows and keys do.     *)
LEMMA RowsForSame ==
    ASSUME \A d \in Requests : status'[d] = "none" <=> status[d] = "none",
           UNCHANGED <<pay, config>>
    PROVE  \A r \in Requests : RowsFor(r)' = RowsFor(r)
  BY DEF RowsFor, SameKey

(* Type correctness.                                                       *)
LEMMA ProxyTypeStep ==
    ASSUME TypeOK, RefundTypeOK', [Next]_vars
    PROVE  TypeOK'
  <1> USE DEF rowVars, workVars, refundVars
  <1>1. ASSUME NEW r0 \in Requests, NEW c0 \in Configs, NEW p0 \in Payments, Accept(r0, c0, p0)
        PROVE  TypeOK'
    BY <1>1 DEF TypeOK, Accept, Goto
  <1>2. ASSUME NEW r0 \in Requests, Misconfigured(r0)
        PROVE  TypeOK'
    BY <1>2 DEF TypeOK, Misconfigured, Proceed, Goto
  <1>3. ASSUME NEW r0 \in Requests, CallHandler(r0)
        PROVE  TypeOK'
    BY <1>3 DEF TypeOK, CallHandler, Proceed, Goto
  <1>4. ASSUME NEW r0 \in Requests, CallUpstream(r0)
        PROVE  TypeOK'
    BY <1>4 DEF TypeOK, CallUpstream, Proceed, Goto
  <1>5. ASSUME NEW r0 \in Requests, CallUpstreamWithX402(r0)
        PROVE  TypeOK'
    BY <1>5 DEF TypeOK, CallUpstreamWithX402, Proceed, Goto
  <1>6. ASSUME NEW r0 \in Requests, StartOutbound(r0)
        PROVE  TypeOK'
    BY <1>6 DEF TypeOK, StartOutbound, Goto, Hit
  <1>7. ASSUME NEW r0 \in Requests, PayUpstream(r0)
        PROVE  TypeOK'
    BY <1>7 DEF TypeOK, PayUpstream, Goto
  <1>8. ASSUME NEW r0 \in Requests, FinishOutbound(r0)
        PROVE  TypeOK'
    BY <1>8 DEF TypeOK, FinishOutbound, Goto, Hit, Outcome
  <1>9. ASSUME NEW r0 \in Requests, ReadBody(r0)
        PROVE  TypeOK'
    BY <1>9 DEF TypeOK, ReadBody, Goto
  <1>10. ASSUME NEW r0 \in Requests, BodyCut(r0)
        PROVE  TypeOK'
    BY <1>10 DEF TypeOK, BodyCut, Uncaught, Goto, Hit
  <1>11. ASSUME NEW r0 \in Requests, Book(r0)
        PROVE  TypeOK'
    BY <1>11 DEF TypeOK, Book, AfterBook, Goto
  <1>12. ASSUME NEW r0 \in Requests, LogError(r0)
        PROVE  TypeOK'
    BY <1>12 DEF TypeOK, LogError, Goto, Hit
  <1>13. ASSUME NEW r0 \in Requests, EnqueueRefund(r0)
        PROVE  TypeOK'
    BY <1>13 DEF TypeOK, EnqueueRefund, RecordRefundPending, AddRow, Goto,
       Hit
  <1>14. ASSUME NEW r0 \in Requests, ProcessDies(r0)
        PROVE  TypeOK'
    BY <1>14 DEF TypeOK, ProcessDies, Goto
  <1>15. ASSUME Drain, UNCHANGED requestVars
        PROVE  TypeOK'
    BY <1>15 DEF TypeOK, requestVars
  <1>17. ASSUME NEW r0 \in Requests, PriceUnreadable(r0)
        PROVE  TypeOK'
    BY <1>17 DEF TypeOK, PriceUnreadable, Uncaught, Goto, Hit
  <1>16. CASE UNCHANGED vars
    BY <1>16 DEF TypeOK, vars, requestVars
  <1> QED
    BY <1>1, <1>2, <1>3, <1>4, <1>5, <1>6, <1>7, <1>8, <1>9, <1>10, <1>11,
       <1>12, <1>13, <1>14, <1>15, <1>16, <1>17, Zenon DEF Next, Handle

(* Nothing is on file for a request that was not accepted.                 *)
LEMMA IdleStep ==
    ASSUME TypeOK, WorkerByPlace, Recorded, IdleIsEmpty, [Next]_vars
    PROVE  IdleIsEmpty'
  <1> USE DEF rowVars, workVars, refundVars
  <1>1. ASSUME NEW r0 \in Requests, NEW c0 \in Configs, NEW p0 \in Payments, Accept(r0, c0, p0)
        PROVE  IdleIsEmpty'
    BY <1>1 DEF TypeOK, RefundTypeOK, IdleIsEmpty, Accept, Goto
  <1>2. ASSUME NEW r0 \in Requests, Misconfigured(r0)
        PROVE  IdleIsEmpty'
    BY <1>2 DEF TypeOK, RefundTypeOK, IdleIsEmpty, Misconfigured, Proceed,
       Goto
  <1>3. ASSUME NEW r0 \in Requests, CallHandler(r0)
        PROVE  IdleIsEmpty'
    BY <1>3 DEF TypeOK, RefundTypeOK, IdleIsEmpty, CallHandler, Proceed,
       Goto
  <1>4. ASSUME NEW r0 \in Requests, CallUpstream(r0)
        PROVE  IdleIsEmpty'
    BY <1>4 DEF TypeOK, RefundTypeOK, IdleIsEmpty, CallUpstream, Proceed,
       Goto
  <1>5. ASSUME NEW r0 \in Requests, CallUpstreamWithX402(r0)
        PROVE  IdleIsEmpty'
    BY <1>5 DEF TypeOK, RefundTypeOK, IdleIsEmpty, CallUpstreamWithX402,
       Proceed, Goto
  <1>6. ASSUME NEW r0 \in Requests, StartOutbound(r0)
        PROVE  IdleIsEmpty'
    BY <1>6 DEF TypeOK, RefundTypeOK, IdleIsEmpty, StartOutbound, Goto,
       Hit
  <1>7. ASSUME NEW r0 \in Requests, PayUpstream(r0)
        PROVE  IdleIsEmpty'
    BY <1>7 DEF TypeOK, RefundTypeOK, IdleIsEmpty, PayUpstream, Goto
  <1>8. ASSUME NEW r0 \in Requests, FinishOutbound(r0)
        PROVE  IdleIsEmpty'
    BY <1>8 DEF TypeOK, RefundTypeOK, IdleIsEmpty, FinishOutbound, Goto,
       Hit, Outcome
  <1>9. ASSUME NEW r0 \in Requests, ReadBody(r0)
        PROVE  IdleIsEmpty'
    BY <1>9 DEF TypeOK, RefundTypeOK, IdleIsEmpty, ReadBody, Goto
  <1>10. ASSUME NEW r0 \in Requests, BodyCut(r0)
        PROVE  IdleIsEmpty'
    BY <1>10 DEF TypeOK, RefundTypeOK, IdleIsEmpty, BodyCut, Uncaught, Goto, Hit
  <1>11. ASSUME NEW r0 \in Requests, Book(r0)
        PROVE  IdleIsEmpty'
    BY <1>11 DEF TypeOK, RefundTypeOK, IdleIsEmpty, Book, AfterBook, Goto
  <1>12. ASSUME NEW r0 \in Requests, LogError(r0)
        PROVE  IdleIsEmpty'
    BY <1>12 DEF TypeOK, RefundTypeOK, IdleIsEmpty, LogError, Goto, Hit
  <1>13. ASSUME NEW r0 \in Requests, EnqueueRefund(r0)
        PROVE  IdleIsEmpty'
    BY <1>13, RequestAssumption DEF TypeOK, RefundTypeOK, IdleIsEmpty,
       EnqueueRefund, RecordRefundPending, AddRow, Goto, Hit
  <1>14. ASSUME NEW r0 \in Requests, ProcessDies(r0)
        PROVE  IdleIsEmpty'
    BY <1>14 DEF TypeOK, RefundTypeOK, IdleIsEmpty, ProcessDies, Goto
  <1>15. ASSUME Drain, UNCHANGED requestVars
        PROVE  IdleIsEmpty'
    BY <1>15, DrainRecordsNothing, RequestAssumption DEF TypeOK,
       RefundTypeOK, IdleIsEmpty, requestVars
  <1>17. ASSUME NEW r0 \in Requests, PriceUnreadable(r0)
        PROVE  IdleIsEmpty'
    BY <1>17 DEF TypeOK, RefundTypeOK, IdleIsEmpty, PriceUnreadable, Uncaught, Goto, Hit
  <1>16. CASE UNCHANGED vars
    BY <1>16 DEF TypeOK, RefundTypeOK, IdleIsEmpty, vars, requestVars
  <1> QED
    BY <1>1, <1>2, <1>3, <1>4, <1>5, <1>6, <1>7, <1>8, <1>9, <1>10, <1>11,
       <1>12, <1>13, <1>14, <1>15, <1>16, <1>17, Zenon DEF Next, Handle

(* Our own spend.                                                          *)
LEMMA SpendStep ==
    ASSUME TypeOK, SpendByPlace, [Next]_vars
    PROVE  SpendByPlace'
  <1> USE DEF rowVars, workVars, refundVars
  <1>1. ASSUME NEW r0 \in Requests, NEW c0 \in Configs, NEW p0 \in Payments, Accept(r0, c0, p0)
        PROVE  SpendByPlace'
    BY <1>1 DEF TypeOK, SpendByPlace, Accept, Goto
  <1>2. ASSUME NEW r0 \in Requests, Misconfigured(r0)
        PROVE  SpendByPlace'
    BY <1>2 DEF TypeOK, SpendByPlace, Misconfigured, Proceed, Goto
  <1>3. ASSUME NEW r0 \in Requests, CallHandler(r0)
        PROVE  SpendByPlace'
    BY <1>3 DEF TypeOK, SpendByPlace, CallHandler, Proceed, Goto
  <1>4. ASSUME NEW r0 \in Requests, CallUpstream(r0)
        PROVE  SpendByPlace'
    BY <1>4 DEF TypeOK, SpendByPlace, CallUpstream, Proceed, Goto
  <1>5. ASSUME NEW r0 \in Requests, CallUpstreamWithX402(r0)
        PROVE  SpendByPlace'
    BY <1>5 DEF TypeOK, SpendByPlace, CallUpstreamWithX402, Proceed, Goto
  <1>6. ASSUME NEW r0 \in Requests, StartOutbound(r0)
        PROVE  SpendByPlace'
    BY <1>6 DEF TypeOK, SpendByPlace, StartOutbound, Goto, Hit
  <1>7. ASSUME NEW r0 \in Requests, PayUpstream(r0)
        PROVE  SpendByPlace'
    BY <1>7 DEF TypeOK, SpendByPlace, PayUpstream, Goto
  <1>8. ASSUME NEW r0 \in Requests, FinishOutbound(r0)
        PROVE  SpendByPlace'
    BY <1>8 DEF TypeOK, SpendByPlace, FinishOutbound, Goto, Hit, Outcome
  <1>9. ASSUME NEW r0 \in Requests, ReadBody(r0)
        PROVE  SpendByPlace'
    BY <1>9 DEF TypeOK, SpendByPlace, ReadBody, Goto
  <1>10. ASSUME NEW r0 \in Requests, BodyCut(r0)
        PROVE  SpendByPlace'
    BY <1>10 DEF TypeOK, SpendByPlace, BodyCut, Uncaught, Goto, Hit
  <1>11. ASSUME NEW r0 \in Requests, Book(r0)
        PROVE  SpendByPlace'
    BY <1>11 DEF TypeOK, SpendByPlace, Book, AfterBook, Goto
  <1>12. ASSUME NEW r0 \in Requests, LogError(r0)
        PROVE  SpendByPlace'
    BY <1>12 DEF TypeOK, SpendByPlace, LogError, Goto, Hit
  <1>13. ASSUME NEW r0 \in Requests, EnqueueRefund(r0)
        PROVE  SpendByPlace'
    BY <1>13 DEF TypeOK, SpendByPlace, EnqueueRefund, RecordRefundPending,
       AddRow, Goto, Hit
  <1>14. ASSUME NEW r0 \in Requests, ProcessDies(r0)
        PROVE  SpendByPlace'
    BY <1>14 DEF TypeOK, SpendByPlace, ProcessDies, Goto
  <1>15. ASSUME Drain, UNCHANGED requestVars
        PROVE  SpendByPlace'
    BY <1>15 DEF TypeOK, SpendByPlace, requestVars
  <1>17. ASSUME NEW r0 \in Requests, PriceUnreadable(r0)
        PROVE  SpendByPlace'
    BY <1>17 DEF TypeOK, SpendByPlace, PriceUnreadable, Uncaught, Goto, Hit
  <1>16. CASE UNCHANGED vars
    BY <1>16 DEF TypeOK, SpendByPlace, vars, requestVars
  <1> QED
    BY <1>1, <1>2, <1>3, <1>4, <1>5, <1>6, <1>7, <1>8, <1>9, <1>10, <1>11,
       <1>12, <1>13, <1>14, <1>15, <1>16, <1>17, Zenon DEF Next, Handle

(* A failure that was enqueued is on file.                                 *)
LEMMA FiledStep ==
    ASSUME TypeOK, WorkerByPlace, Recorded, IdleIsEmpty, FailureFiled,
       [Next]_vars
    PROVE  FailureFiled'
  <1> USE DEF rowVars, workVars, refundVars
  <1>1. ASSUME NEW r0 \in Requests, NEW c0 \in Configs, NEW p0 \in Payments, Accept(r0, c0, p0)
        PROVE  FailureFiled'
    <2>1. /\ status[r0] = "none" /\ UNCHANGED status
          /\ \A r \in Requests \ {r0} : pay'[r] = pay[r] /\ config'[r] = config[r]
      BY <1>1 DEF Accept, Goto, TypeOK, IdleIsEmpty
    <2>2. \A r \in Requests \ {r0} : RowsFor(r)' = RowsFor(r)
      BY <2>1 DEF RowsFor, SameKey
    <2> QED BY <1>1, <2>2 DEF Accept, Goto, TypeOK, FailureFiled
  <1>2. ASSUME NEW r0 \in Requests, Misconfigured(r0)
        PROVE  FailureFiled'
    <2>1. \A r \in Requests : RowsFor(r)' = RowsFor(r)
      BY <1>2 DEF Misconfigured, Proceed, Goto, RowsFor, SameKey
    <2> QED BY <1>2, <2>1 DEF TypeOK, FailureFiled, Misconfigured, Proceed, Goto
  <1>3. ASSUME NEW r0 \in Requests, CallHandler(r0)
        PROVE  FailureFiled'
    <2>1. \A r \in Requests : RowsFor(r)' = RowsFor(r)
      BY <1>3 DEF CallHandler, Proceed, Goto, RowsFor, SameKey
    <2> QED BY <1>3, <2>1 DEF TypeOK, FailureFiled, CallHandler, Proceed, Goto
  <1>4. ASSUME NEW r0 \in Requests, CallUpstream(r0)
        PROVE  FailureFiled'
    <2>1. \A r \in Requests : RowsFor(r)' = RowsFor(r)
      BY <1>4 DEF CallUpstream, Proceed, Goto, RowsFor, SameKey
    <2> QED BY <1>4, <2>1 DEF TypeOK, FailureFiled, CallUpstream, Proceed, Goto
  <1>5. ASSUME NEW r0 \in Requests, CallUpstreamWithX402(r0)
        PROVE  FailureFiled'
    <2>1. \A r \in Requests : RowsFor(r)' = RowsFor(r)
      BY <1>5 DEF CallUpstreamWithX402, Proceed, Goto, RowsFor, SameKey
    <2> QED BY <1>5, <2>1 DEF TypeOK, FailureFiled, CallUpstreamWithX402, Proceed, Goto
  <1>6. ASSUME NEW r0 \in Requests, StartOutbound(r0)
        PROVE  FailureFiled'
    <2>1. \A r \in Requests : RowsFor(r)' = RowsFor(r)
      BY <1>6 DEF StartOutbound, Goto, Hit, RowsFor, SameKey
    <2> QED BY <1>6, <2>1 DEF TypeOK, FailureFiled, StartOutbound, Goto, Hit
  <1>7. ASSUME NEW r0 \in Requests, PayUpstream(r0)
        PROVE  FailureFiled'
    <2>1. \A r \in Requests : RowsFor(r)' = RowsFor(r)
      BY <1>7 DEF PayUpstream, Goto, RowsFor, SameKey
    <2> QED BY <1>7, <2>1 DEF TypeOK, FailureFiled, PayUpstream, Goto
  <1>8. ASSUME NEW r0 \in Requests, FinishOutbound(r0)
        PROVE  FailureFiled'
    <2>1. \A r \in Requests : RowsFor(r)' = RowsFor(r)
      BY <1>8 DEF FinishOutbound, Goto, Hit, Outcome, RowsFor, SameKey
    <2> QED BY <1>8, <2>1 DEF TypeOK, FailureFiled, FinishOutbound, Goto, Hit, Outcome
  <1>9. ASSUME NEW r0 \in Requests, ReadBody(r0)
        PROVE  FailureFiled'
    <2>1. \A r \in Requests : RowsFor(r)' = RowsFor(r)
      BY <1>9 DEF ReadBody, Goto, RowsFor, SameKey
    <2> QED BY <1>9, <2>1 DEF TypeOK, FailureFiled, ReadBody, Goto
  <1>10. ASSUME NEW r0 \in Requests, BodyCut(r0)
        PROVE  FailureFiled'
    <2>1. \A r \in Requests : RowsFor(r)' = RowsFor(r)
      BY <1>10 DEF BodyCut, Uncaught, Goto, Hit, RowsFor, SameKey
    <2> QED BY <1>10, <2>1 DEF TypeOK, FailureFiled, BodyCut, Uncaught, Goto, Hit
  <1>11. ASSUME NEW r0 \in Requests, Book(r0)
        PROVE  FailureFiled'
    <2>1. \A r \in Requests : RowsFor(r)' = RowsFor(r)
      BY <1>11 DEF Book, AfterBook, Goto, RowsFor, SameKey
    <2> QED BY <1>11, <2>1 DEF TypeOK, FailureFiled, Book, AfterBook, Goto
  <1>12. ASSUME NEW r0 \in Requests, LogError(r0)
        PROVE  FailureFiled'
    <2>1. \A r \in Requests : RowsFor(r)' = RowsFor(r)
      BY <1>12 DEF LogError, Goto, Hit, RowsFor, SameKey
    <2> QED BY <1>12, <2>1 DEF TypeOK, FailureFiled, LogError, Goto, Hit
  <1>13. ASSUME NEW r0 \in Requests, EnqueueRefund(r0)
        PROVE  FailureFiled'
    <2>1. CASE RecordRefundPending(r0) /\ UNCHANGED hit
      <3>1. \A q \in Requests : status[q] # "none" => status'[q] # "none"
        BY <2>1, RequestAssumption
           DEF RecordRefundPending, AddRow, TypeOK, RefundTypeOK
      <3>2. UNCHANGED <<pay, config>>
        BY <1>13 DEF EnqueueRefund
      <3>3. \A r \in Requests : RowsFor(r) \subseteq RowsFor(r)'
        BY <3>1, <3>2 DEF RowsFor, SameKey
      <3>4. RowsFor(r0)' # {}
        <4>1. CASE RowsFor(r0) = {}
          <5>1. status'[r0] # "none"
            BY <2>1, <4>1, RequestAssumption
               DEF RecordRefundPending, AddRow, TypeOK, RefundTypeOK
          <5> QED BY <5>1 DEF RowsFor, SameKey
        <4>2. CASE RowsFor(r0) # {}
          BY <3>3, <4>2
        <4> QED BY <4>1, <4>2
      <3> QED BY <1>13, <2>1, <3>3, <3>4 DEF EnqueueRefund, Goto, TypeOK, FailureFiled
    <2>2. CASE UNCHANGED rowVars /\ Hit(r0, "refund")
      <3>1. \A r \in Requests : RowsFor(r)' = RowsFor(r)
        BY <1>13, <2>2 DEF EnqueueRefund, RowsFor, SameKey
      <3>2. "refund" \in hit'[r0] /\ \A r \in Requests \ {r0} : hit'[r] = hit[r]
        BY <2>2 DEF Hit, TypeOK
      <3> QED BY <1>13, <3>1, <3>2 DEF EnqueueRefund, Goto, TypeOK, FailureFiled
    <2> QED BY <1>13, <2>1, <2>2 DEF EnqueueRefund
  <1>14. ASSUME NEW r0 \in Requests, ProcessDies(r0)
        PROVE  FailureFiled'
    <2>1. \A r \in Requests : RowsFor(r)' = RowsFor(r)
      BY <1>14 DEF ProcessDies, Goto, RowsFor, SameKey
    <2> QED BY <1>14, <2>1 DEF TypeOK, FailureFiled, ProcessDies, Goto
  <1>15. ASSUME Drain, UNCHANGED requestVars
        PROVE  FailureFiled'
    <2>1. \A r \in Requests : RowsFor(r)' = RowsFor(r)
      BY <1>15, RowsForSame, DrainRecordsNothing, RequestAssumption DEF requestVars, TypeOK
    <2> QED BY <1>15, <2>1 DEF FailureFiled, requestVars
  <1>17. ASSUME NEW r0 \in Requests, PriceUnreadable(r0)
        PROVE  FailureFiled'
    <2>1. \A r \in Requests : RowsFor(r)' = RowsFor(r)
      BY <1>17 DEF PriceUnreadable, Uncaught, Goto, Hit, RowsFor, SameKey
    <2> QED BY <1>17, <2>1 DEF TypeOK, FailureFiled, PriceUnreadable, Uncaught, Goto, Hit
  <1>16. CASE UNCHANGED vars
    BY <1>16 DEF TypeOK, FailureFiled, RowsFor, SameKey, vars, requestVars
  <1> QED
    BY <1>1, <1>2, <1>3, <1>4, <1>5, <1>6, <1>7, <1>8, <1>9, <1>10, <1>11,
       <1>12, <1>13, <1>14, <1>15, <1>16, <1>17, Zenon DEF Next, Handle

(* One payment, one row.                                                   *)
LEMMA OneRowStep ==
    ASSUME TypeOK, WorkerByPlace, Recorded, IdleIsEmpty, OneRowPerPayment,
       [Next]_vars
    PROVE  OneRowPerPayment'
  <1> USE DEF rowVars, workVars, refundVars
  <1>1. ASSUME NEW r0 \in Requests, NEW c0 \in Configs, NEW p0 \in Payments, Accept(r0, c0, p0)
        PROVE  OneRowPerPayment'
    <2>1. /\ status[r0] = "none" /\ UNCHANGED status
          /\ \A r \in Requests \ {r0} : pay'[r] = pay[r] /\ config'[r] = config[r]
      BY <1>1 DEF Accept, Goto, TypeOK, IdleIsEmpty
    <2> QED BY <2>1 DEF OneRowPerPayment, SameKey
  <1>2. ASSUME NEW r0 \in Requests, Misconfigured(r0)
        PROVE  OneRowPerPayment'
    BY <1>2 DEF TypeOK, OneRowPerPayment, SameKey, Misconfigured, Proceed, Goto
  <1>3. ASSUME NEW r0 \in Requests, CallHandler(r0)
        PROVE  OneRowPerPayment'
    BY <1>3 DEF TypeOK, OneRowPerPayment, SameKey, CallHandler, Proceed, Goto
  <1>4. ASSUME NEW r0 \in Requests, CallUpstream(r0)
        PROVE  OneRowPerPayment'
    BY <1>4 DEF TypeOK, OneRowPerPayment, SameKey, CallUpstream, Proceed, Goto
  <1>5. ASSUME NEW r0 \in Requests, CallUpstreamWithX402(r0)
        PROVE  OneRowPerPayment'
    BY <1>5 DEF TypeOK, OneRowPerPayment, SameKey, CallUpstreamWithX402, Proceed,
       Goto
  <1>6. ASSUME NEW r0 \in Requests, StartOutbound(r0)
        PROVE  OneRowPerPayment'
    BY <1>6 DEF TypeOK, OneRowPerPayment, SameKey, StartOutbound, Goto, Hit
  <1>7. ASSUME NEW r0 \in Requests, PayUpstream(r0)
        PROVE  OneRowPerPayment'
    BY <1>7 DEF TypeOK, OneRowPerPayment, SameKey, PayUpstream, Goto
  <1>8. ASSUME NEW r0 \in Requests, FinishOutbound(r0)
        PROVE  OneRowPerPayment'
    BY <1>8 DEF TypeOK, OneRowPerPayment, SameKey, FinishOutbound, Goto, Hit,
       Outcome
  <1>9. ASSUME NEW r0 \in Requests, ReadBody(r0)
        PROVE  OneRowPerPayment'
    BY <1>9 DEF TypeOK, OneRowPerPayment, SameKey, ReadBody, Goto
  <1>10. ASSUME NEW r0 \in Requests, BodyCut(r0)
        PROVE  OneRowPerPayment'
    BY <1>10 DEF TypeOK, OneRowPerPayment, SameKey, BodyCut, Uncaught, Goto, Hit
  <1>11. ASSUME NEW r0 \in Requests, Book(r0)
        PROVE  OneRowPerPayment'
    BY <1>11 DEF TypeOK, OneRowPerPayment, SameKey, Book, AfterBook, Goto
  <1>12. ASSUME NEW r0 \in Requests, LogError(r0)
        PROVE  OneRowPerPayment'
    BY <1>12 DEF TypeOK, OneRowPerPayment, SameKey, LogError, Goto, Hit
  <1>13. ASSUME NEW r0 \in Requests, EnqueueRefund(r0)
        PROVE  OneRowPerPayment'
    <2>1. UNCHANGED <<pay, config>>
      BY <1>13 DEF EnqueueRefund
    <2>2. CASE UNCHANGED rowVars
      BY <2>1, <2>2 DEF OneRowPerPayment, SameKey
    <2>3. CASE RowsFor(r0) = {} /\ AddRow(r0)
      <3>1. \A q \in Requests \ {r0} : status'[q] = status[q]
        BY <2>3, RequestAssumption DEF AddRow, TypeOK, RefundTypeOK
      <3>2. \A q \in Requests :
                status[q] # "none" => ~SameKey(q, r0)
        BY <2>3 DEF RowsFor, SameKey
      <3> QED BY <2>1, <3>1, <3>2 DEF OneRowPerPayment, SameKey
    <2> QED BY <1>13, <2>2, <2>3 DEF EnqueueRefund, RecordRefundPending
  <1>14. ASSUME NEW r0 \in Requests, ProcessDies(r0)
        PROVE  OneRowPerPayment'
    BY <1>14 DEF TypeOK, OneRowPerPayment, SameKey, ProcessDies, Goto
  <1>15. ASSUME Drain, UNCHANGED requestVars
        PROVE  OneRowPerPayment'
    <2>1. \A r \in Requests : status'[r] = "none" <=> status[r] = "none"
      BY <1>15, DrainRecordsNothing, RequestAssumption DEF TypeOK
    <2> QED BY <1>15, <2>1 DEF OneRowPerPayment, SameKey, requestVars
  <1>17. ASSUME NEW r0 \in Requests, PriceUnreadable(r0)
        PROVE  OneRowPerPayment'
    BY <1>17 DEF TypeOK, OneRowPerPayment, SameKey, PriceUnreadable, Uncaught, Goto, Hit
  <1>16. CASE UNCHANGED vars
    BY <1>16 DEF TypeOK, OneRowPerPayment, SameKey, vars, requestVars
  <1> QED
    BY <1>1, <1>2, <1>3, <1>4, <1>5, <1>6, <1>7, <1>8, <1>9, <1>10, <1>11,
       <1>12, <1>13, <1>14, <1>15, <1>16, <1>17, Zenon DEF Next, Handle

LEMMA ProxyInvInit == Init => ProxyInv
  <1> SUFFICES ASSUME Init
               PROVE  ProxyInv
    OBVIOUS
  <1>1. RefundInv
    BY RefundInvInit DEF Init
  <1>2. TypeOK
    BY <1>1 DEF Init, TypeOK, RefundInv
  <1>3. Recorded /\ IdleIsEmpty /\ OneRowPerPayment
    BY RequestAssumption DEF Init, RefundInit, Recorded, IdleIsEmpty, OneRowPerPayment
  <1>4. SpendByPlace /\ FailureFiled
    BY DEF Init, SpendByPlace, FailureFiled
  <1> QED BY <1>1, <1>2, <1>3, <1>4 DEF ProxyInv

LEMMA ProxyInvStep == ProxyInv /\ [Next]_vars => ProxyInv'
  <1> SUFFICES ASSUME ProxyInv, [Next]_vars
               PROVE  ProxyInv'
    OBVIOUS
  <1> USE DEF ProxyInv, RefundInv
  <1>1. [RefundNext]_refundVars
    BY RequestsProduce
  <1>2. RefundInv'
    BY <1>1, RefundInvStep
  <1>3. Recorded'
    BY <1>1, RecordedStep
  <1>4. TypeOK'
    BY <1>2, ProxyTypeStep
  <1>5. IdleIsEmpty' /\ SpendByPlace'
    BY IdleStep, SpendStep
  <1>6. FailureFiled' /\ OneRowPerPayment'
    BY FiledStep, OneRowStep
  <1> QED BY <1>2, <1>3, <1>4, <1>5, <1>6

LEMMA ProxyInductive == Spec => []ProxyInv
  BY ProxyInvInit, ProxyInvStep, PTL DEF Spec

(* Every reachable state of requests and worker has the declared shape.    *)
THEOREM ProxyTypeCorrect == Spec => []TypeOK
  BY ProxyInductive, PTL DEF ProxyInv

(* A buyer who was answered with a failure has a refund on file, unless a  *)
(* query failed, a body was cut off or a price was no number.              *)
THEOREM FailureIsQueuedHolds == Spec => []FailureIsQueued
  <1>1. ProxyInv => FailureIsQueued
    BY DEF ProxyInv, FailureFiled, FailureIsQueued
  <1> QED BY <1>1, ProxyInductive, PTL

(* One payment, however often replayed at an endpoint, is paid back        *)
(* through one row.                                                        *)
THEOREM PaidBackOnceHolds == Spec => []PaidBackOnce
  <1>1. ProxyInv => PaidBackOnce
    BY RequestAssumption DEF ProxyInv, OneRowPerPayment, Recorded, PaidBackOnce
  <1> QED BY <1>1, ProxyInductive, PTL

(* What we spent at an upstream is on file with its outcome.               *)
THEOREM SpendIsOnFileHolds == Spec => []SpendIsOnFile
  <1>1. ProxyInv => SpendIsOnFile
    BY DEF ProxyInv, SpendByPlace, SpendIsOnFile
  <1> QED BY <1>1, ProxyInductive, PTL

(* Composed with the requests, the worker still sends a row's refund once  *)
(* for each try on file and each fault.                                    *)
THEOREM SentOncePerTryInProxy == Spec => []SentOncePerTry
  <1>1. ProxyInv => SentOncePerTry
    BY CountIsEnough DEF ProxyInv
  <1> QED BY <1>1, ProxyInductive, PTL
=============================================================================
