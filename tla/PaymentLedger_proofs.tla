------------------------ MODULE PaymentLedger_proofs ------------------------
EXTENDS PaymentLedger, TLAPS

(* Rows of payment_attempts: appending one and closing the last one keep   *)
(* them attempts.                                                          *)
LEMMA OpenAttemptType ==
    ASSUME NEW s \in Seq(Attempt), NEW p \in Providers
    PROVE  /\ OpenAttempt(s, p) \in Seq(Attempt)
           /\ Len(OpenAttempt(s, p)) = Len(s) + 1
           /\ OpenAttempt(s, p)[Len(s) + 1]
                = [provider |-> p, outcome |-> "pending"]
           /\ \A i \in 1..Len(s) : OpenAttempt(s, p)[i] = s[i]
  BY DEF OpenAttempt, Attempt

LEMMA CloseAttemptType ==
    ASSUME NEW s \in Seq(Attempt), s # <<>>,
           NEW o \in {"pending", "success", "failed"}
    PROVE  /\ CloseAttempt(s, o) \in Seq(Attempt)
           /\ Len(CloseAttempt(s, o)) = Len(s)
           /\ CloseAttempt(s, o)[Len(s)]
                = [provider |-> s[Len(s)].provider, outcome |-> o]
           /\ \A i \in 1..Len(s) : i # Len(s) => CloseAttempt(s, o)[i] = s[i]
  <1>1. Len(s) \in 1..Len(s)
    OBVIOUS
  <1>2. s[Len(s)] \in Attempt
    BY <1>1
  <1> DEFINE e == [s[Len(s)] EXCEPT !.outcome = o]
  <1>3. e = [provider |-> s[Len(s)].provider, outcome |-> o]
    BY <1>2 DEF Attempt
  <1>4. e \in Attempt
    BY <1>2, <1>3 DEF Attempt
  <1>5. CloseAttempt(s, o) = [s EXCEPT ![Len(s)] = e]
    BY DEF CloseAttempt
  <1> HIDE DEF e
  <1>6. [s EXCEPT ![Len(s)] = e] \in Seq(Attempt)
    BY <1>4
  <1>7. Len([s EXCEPT ![Len(s)] = e]) = Len(s)
    BY <1>4
  <1>8. QED
    BY <1>1, <1>3, <1>5, <1>6, <1>7

LEMMA LastAttempt ==
    ASSUME NEW s \in Seq(Attempt), s # <<>>
    PROVE  /\ Len(s) \in DOMAIN s
           /\ s[Len(s)] \in Attempt
           /\ s[Len(s)].provider \in Providers
  <1>1. Len(s) \in 1..Len(s)
    OBVIOUS
  <1>2. s[Len(s)] \in Attempt
    BY <1>1
  <1>3. QED
    BY <1>1, <1>2 DEF Attempt

LEMMA RankingsType ==
    ASSUME NEW s \in Rankings
    PROVE  s \in Seq(Providers)
  BY MaxAttemptsAssumption DEF Rankings

LEMMA HeadTail ==
    ASSUME NEW s \in Seq(Providers), s # <<>>
    PROVE  Head(s) \in Providers /\ Tail(s) \in Seq(Providers)
  OBVIOUS

LEMMA InitIInv == Init => IInv
  <1> SUFFICES ASSUME Init
               PROVE  IInv
    OBVIOUS
  <1>1. TypeOK
    BY NoneAssumption DEF Init, TypeOK
  <1>2. OnePaymentPerKey /\ AnswerByPlace /\ AttemptsByPlace /\ Settled
    BY DEF Init, OnePaymentPerKey, AnswerByPlace, AttemptsByPlace, Settled
  <1>3. RowByPlace /\ AttemptBeforeCall /\ PendingIsExplained
    BY DEF Init, RowByPlace, AttemptBeforeCall, PendingIsExplained, BeforeRow,
           BeforeResolve
  <1>4. QED
    BY <1>1, <1>2, <1>3 DEF IInv

(* Type correctness. The attempt rows stay well typed because a settle     *)
(* call is only finished on the row that was opened for it.                *)
LEMMA TypeStep == IInv /\ [Next]_vars => TypeOK'
  <1>1. SUFFICES ASSUME IInv, [Next]_vars
                 PROVE  TypeOK'
    OBVIOUS
  <1> USE DEF Goto, requestVars, chainVars
  <1>2. ASSUME NEW r \in Requests, NEW k \in Keys, AcquireLock(r, k)
        PROVE  TypeOK'
    BY <1>1, <1>2 DEF IInv, TypeOK, AcquireLock
  <1>3. ASSUME NEW r \in Requests, NEW k \in Keys, MissLock(r, k)
        PROVE  TypeOK'
    BY <1>1, <1>3 DEF IInv, TypeOK, MissLock
  <1>4. ASSUME NEW r \in Requests, PollHit(r)
        PROVE  TypeOK'
    BY <1>1, <1>4 DEF IInv, TypeOK, PollHit, AnswerWith, Rows, Answers,
       RowByPlace
  <1>5. ASSUME NEW r \in Requests, PollDeadline(r)
        PROVE  TypeOK'
    BY <1>1, <1>5 DEF IInv, TypeOK, PollDeadline
  <1>6. ASSUME NEW r \in Requests, InsertRow(r)
        PROVE  TypeOK'
    BY <1>1, <1>6 DEF IInv, TypeOK, InsertRow
  <1>7. ASSUME NEW r \in Requests, InsertConflict(r)
        PROVE  TypeOK'
    BY <1>1, <1>7 DEF IInv, TypeOK, InsertConflict
  <1>8. ASSUME NEW r \in Requests, DropLockOnConflict(r)
        PROVE  TypeOK'
    BY <1>1, <1>8 DEF IInv, TypeOK, DropLockOnConflict, Unlock
  <1>9. ASSUME NEW r \in Requests, FetchExisting(r)
        PROVE  TypeOK'
    BY <1>1, <1>9 DEF IInv, TypeOK, FetchExisting, AnswerWith, Rows,
       Answers, RowByPlace
  <1>10. ASSUME NEW r \in Requests, DropLockOnFault(r)
        PROVE  TypeOK'
    BY <1>1, <1>10 DEF IInv, TypeOK, DropLockOnFault, Unlock
  <1>11. ASSUME NEW r \in Requests, Route(r)
        PROVE  TypeOK'
    BY <1>1, <1>11, RankingsType DEF IInv, TypeOK, Route, AfterRoute
  <1>12. ASSUME NEW r \in Requests, SkipCandidate(r)
        PROVE  TypeOK'
    <2>1. /\ attempts[r] \in Seq(Attempt)
          /\ cands[r] \in Seq(Providers)
      BY <1>1 DEF IInv, TypeOK
    <2>2. Tail(cands[r]) \in Seq(Providers)
      BY <1>12, <2>1, HeadTail DEF SkipCandidate
    <2>3. QED
      BY <1>1, <1>12, <2>2 DEF IInv, TypeOK, SkipCandidate, NextCandidate
  <1>13. ASSUME NEW r \in Requests, StartAttempt(r)
        PROVE  TypeOK'
    <2>1. /\ attempts[r] \in Seq(Attempt)
          /\ cands[r] \in Seq(Providers)
      BY <1>1 DEF IInv, TypeOK
    <2>2. cands[r] # <<>>
      BY <1>13 DEF StartAttempt
    <2>3. Head(cands[r]) \in Providers
      BY <2>1, <2>2, HeadTail
    <2>4. OpenAttempt(attempts[r], Head(cands[r])) \in Seq(Attempt)
      BY <2>1, <2>3, OpenAttemptType
    <2>5. QED
      BY <1>1, <1>13, <2>4 DEF IInv, TypeOK, StartAttempt
  <1>14. ASSUME NEW r \in Requests, Exhausted(r)
        PROVE  TypeOK'
    BY <1>1, <1>14 DEF IInv, TypeOK, Exhausted
  <1>15. ASSUME NEW r \in Requests, CallSettle(r)
        PROVE  TypeOK'
    <2>1. /\ attempts[r] \in Seq(Attempt)
          /\ cands[r] \in Seq(Providers)
      BY <1>1 DEF IInv, TypeOK
    <2>2. cands[r] # <<>> /\ LastIs(attempts[r], Head(cands[r]), "pending")
      BY <1>1, <1>15 DEF IInv, AttemptsByPlace, CallSettle
    <2>3. attempts[r] # <<>>
      BY <2>2 DEF LastIs
    <2>4. Head(cands[r]) \in Providers /\ Tail(cands[r]) \in Seq(Providers)
      BY <2>1, <2>2, HeadTail
    <2>5. QED
      BY <1>1, <1>15, <2>4 DEF IInv, TypeOK, CallSettle
  <1>16. ASSUME NEW r \in Requests, SettleReturns(r)
        PROVE  TypeOK'
    BY <1>1, <1>16 DEF IInv, TypeOK, SettleReturns
  <1>17. ASSUME NEW r \in Requests, FinishAttempt(r)
        PROVE  TypeOK'
    <2>1. /\ attempts[r] \in Seq(Attempt)
          /\ cands[r] \in Seq(Providers)
      BY <1>1 DEF IInv, TypeOK
    <2>2. cands[r] # <<>> /\ LastIs(attempts[r], Head(cands[r]), "pending")
      BY <1>1, <1>17 DEF IInv, AttemptsByPlace, FinishAttempt
    <2>3. attempts[r] # <<>>
      BY <2>2 DEF LastIs
    <2>4. Head(cands[r]) \in Providers /\ Tail(cands[r]) \in Seq(Providers)
      BY <2>1, <2>2, HeadTail
    <2>5. \A o \in {"success", "failed"} :
             CloseAttempt(attempts[r], o) \in Seq(Attempt)
      BY <2>1, <2>3, CloseAttemptType
    <2>6. QED
      BY <1>1, <1>17, <2>4, <2>5 DEF IInv, TypeOK, FinishAttempt, NextCandidate
  <1>18. ASSUME NEW r \in Requests, Finalize(r)
        PROVE  TypeOK'
    <2>1. /\ attempts[r] \in Seq(Attempt)
          /\ cands[r] \in Seq(Providers)
      BY <1>1 DEF IInv, TypeOK
    <2>2. LastProvider(r) \in Providers \union {None}
      BY <2>1, LastAttempt DEF LastProvider
    <2>3. QED
      BY <1>1, <1>18, <2>2 DEF IInv, TypeOK, Finalize, StatusAfter
  <1>19. ASSUME NEW r \in Requests, Reread(r)
        PROVE  TypeOK'
    BY <1>1, <1>19 DEF IInv, TypeOK, Reread, AnswerWith, Rows, Answers,
       RowByPlace
  <1>20. ASSUME NEW r \in Requests, ReleaseLock(r)
        PROVE  TypeOK'
    BY <1>1, <1>20 DEF IInv, TypeOK, ReleaseLock, Unlock
  <1>21. ASSUME NEW r \in Requests, InsertFault(r)
        PROVE  TypeOK'
    BY <1>1, <1>21 DEF IInv, TypeOK, InsertFault
  <1>22. ASSUME NEW r \in Requests, PipelineFault(r)
        PROVE  TypeOK'
    BY <1>1, <1>22 DEF IInv, TypeOK, PipelineFault
  <1>23. ASSUME NEW r \in Requests, LastCallFault(r)
        PROVE  TypeOK'
    BY <1>1, <1>23 DEF IInv, TypeOK, LastCallFault
  <1>24. ASSUME NEW r \in Requests, Crash(r)
        PROVE  TypeOK'
    BY <1>1, <1>24 DEF IInv, TypeOK, Crash
  <1>25. ASSUME NEW r \in Requests, NEW p \in Providers, Land(r, p)
        PROVE  TypeOK'
    BY <1>1, <1>25 DEF IInv, TypeOK, Land
  <1>26. ASSUME NEW k \in Keys, LockExpires(k)
        PROVE  TypeOK'
    BY <1>1, <1>26 DEF IInv, TypeOK, LockExpires
  <1>27. CASE UNCHANGED vars
    BY <1>1, <1>27 DEF IInv, TypeOK, vars
  <1>28. QED
    BY <1>1, <1>2, <1>3, <1>4, <1>5, <1>6, <1>7, <1>8, <1>9, <1>10,
       <1>11, <1>12, <1>13, <1>14, <1>15, <1>16, <1>17, <1>18, <1>19,
       <1>20, <1>21, <1>22, <1>23, <1>24, <1>25, <1>26, <1>27 DEF Next,
       CreateOrFetch, Settle, Fault

(* No step opens a second payment for a key.                               *)
LEMMA OnePaymentStep == IInv /\ [Next]_vars => OnePaymentPerKey'
  <1>1. SUFFICES ASSUME IInv, [Next]_vars
                 PROVE  OnePaymentPerKey'
    OBVIOUS
  <1> USE DEF Goto, requestVars, chainVars
  <1>2. ASSUME NEW r \in Requests, NEW k \in Keys, AcquireLock(r, k)
        PROVE  OnePaymentPerKey'
    BY <1>1, <1>2, NoneAssumption DEF IInv, TypeOK, OnePaymentPerKey,
       RowByPlace, BeforeRow, BeforeResolve, AcquireLock
  <1>3. ASSUME NEW r \in Requests, NEW k \in Keys, MissLock(r, k)
        PROVE  OnePaymentPerKey'
    BY <1>1, <1>3, NoneAssumption DEF IInv, TypeOK, OnePaymentPerKey,
       RowByPlace, BeforeRow, BeforeResolve, MissLock
  <1>4. ASSUME NEW r \in Requests, PollHit(r)
        PROVE  OnePaymentPerKey'
    BY <1>1, <1>4 DEF IInv, TypeOK, OnePaymentPerKey, RowByPlace,
       BeforeRow, BeforeResolve, PollHit
  <1>5. ASSUME NEW r \in Requests, PollDeadline(r)
        PROVE  OnePaymentPerKey'
    BY <1>1, <1>5 DEF IInv, TypeOK, OnePaymentPerKey, RowByPlace,
       BeforeRow, BeforeResolve, PollDeadline
  <1>6. ASSUME NEW r \in Requests, InsertRow(r)
        PROVE  OnePaymentPerKey'
    BY <1>1, <1>6 DEF IInv, TypeOK, OnePaymentPerKey, RowByPlace,
       BeforeRow, BeforeResolve, InsertRow, Rows
  <1>7. ASSUME NEW r \in Requests, InsertConflict(r)
        PROVE  OnePaymentPerKey'
    BY <1>1, <1>7 DEF IInv, TypeOK, OnePaymentPerKey, RowByPlace,
       BeforeRow, BeforeResolve, InsertConflict
  <1>8. ASSUME NEW r \in Requests, DropLockOnConflict(r)
        PROVE  OnePaymentPerKey'
    BY <1>1, <1>8 DEF IInv, TypeOK, OnePaymentPerKey, RowByPlace,
       BeforeRow, BeforeResolve, DropLockOnConflict
  <1>9. ASSUME NEW r \in Requests, FetchExisting(r)
        PROVE  OnePaymentPerKey'
    BY <1>1, <1>9 DEF IInv, TypeOK, OnePaymentPerKey, RowByPlace,
       BeforeRow, BeforeResolve, FetchExisting
  <1>10. ASSUME NEW r \in Requests, DropLockOnFault(r)
        PROVE  OnePaymentPerKey'
    BY <1>1, <1>10 DEF IInv, TypeOK, OnePaymentPerKey, RowByPlace,
       BeforeRow, BeforeResolve, DropLockOnFault
  <1>11. ASSUME NEW r \in Requests, Route(r)
        PROVE  OnePaymentPerKey'
    BY <1>1, <1>11 DEF IInv, TypeOK, OnePaymentPerKey, RowByPlace,
       BeforeRow, BeforeResolve, Route, AfterRoute
  <1>12. ASSUME NEW r \in Requests, SkipCandidate(r)
        PROVE  OnePaymentPerKey'
    BY <1>1, <1>12 DEF IInv, TypeOK, OnePaymentPerKey, RowByPlace,
       BeforeRow, BeforeResolve, SkipCandidate
  <1>13. ASSUME NEW r \in Requests, StartAttempt(r)
        PROVE  OnePaymentPerKey'
    BY <1>1, <1>13 DEF IInv, TypeOK, OnePaymentPerKey, RowByPlace,
       BeforeRow, BeforeResolve, StartAttempt
  <1>14. ASSUME NEW r \in Requests, Exhausted(r)
        PROVE  OnePaymentPerKey'
    BY <1>1, <1>14 DEF IInv, TypeOK, OnePaymentPerKey, RowByPlace,
       BeforeRow, BeforeResolve, Exhausted
  <1>15. ASSUME NEW r \in Requests, CallSettle(r)
        PROVE  OnePaymentPerKey'
    BY <1>1, <1>15 DEF IInv, TypeOK, OnePaymentPerKey, RowByPlace,
       BeforeRow, BeforeResolve, CallSettle
  <1>16. ASSUME NEW r \in Requests, SettleReturns(r)
        PROVE  OnePaymentPerKey'
    BY <1>1, <1>16 DEF IInv, TypeOK, OnePaymentPerKey, RowByPlace,
       BeforeRow, BeforeResolve, SettleReturns
  <1>17. ASSUME NEW r \in Requests, FinishAttempt(r)
        PROVE  OnePaymentPerKey'
    BY <1>1, <1>17 DEF IInv, TypeOK, OnePaymentPerKey, RowByPlace,
       BeforeRow, BeforeResolve, FinishAttempt
  <1>18. ASSUME NEW r \in Requests, Finalize(r)
        PROVE  OnePaymentPerKey'
    BY <1>1, <1>18 DEF IInv, TypeOK, OnePaymentPerKey, RowByPlace,
       BeforeRow, BeforeResolve, Finalize, StatusAfter
  <1>19. ASSUME NEW r \in Requests, Reread(r)
        PROVE  OnePaymentPerKey'
    BY <1>1, <1>19 DEF IInv, TypeOK, OnePaymentPerKey, RowByPlace,
       BeforeRow, BeforeResolve, Reread
  <1>20. ASSUME NEW r \in Requests, ReleaseLock(r)
        PROVE  OnePaymentPerKey'
    BY <1>1, <1>20 DEF IInv, TypeOK, OnePaymentPerKey, RowByPlace,
       BeforeRow, BeforeResolve, ReleaseLock
  <1>21. ASSUME NEW r \in Requests, InsertFault(r)
        PROVE  OnePaymentPerKey'
    <2>1. CASE status' = status
      BY <1>1, <1>21, <2>1 DEF IInv, OnePaymentPerKey, InsertFault
    <2>2. CASE Rows(key[r]) = {} /\ status' = [status EXCEPT ![r] = "pending"]
      BY <1>1, <1>21, <2>2 DEF IInv, TypeOK, OnePaymentPerKey, Rows, InsertFault
    <2>3. QED
      BY <1>21, <2>1, <2>2 DEF InsertFault
  <1>22. ASSUME NEW r \in Requests, PipelineFault(r)
        PROVE  OnePaymentPerKey'
    BY <1>1, <1>22 DEF IInv, TypeOK, OnePaymentPerKey, RowByPlace,
       BeforeRow, BeforeResolve, PipelineFault
  <1>23. ASSUME NEW r \in Requests, LastCallFault(r)
        PROVE  OnePaymentPerKey'
    BY <1>1, <1>23 DEF IInv, TypeOK, OnePaymentPerKey, RowByPlace,
       BeforeRow, BeforeResolve, LastCallFault
  <1>24. ASSUME NEW r \in Requests, Crash(r)
        PROVE  OnePaymentPerKey'
    BY <1>1, <1>24 DEF IInv, TypeOK, OnePaymentPerKey, RowByPlace,
       BeforeRow, BeforeResolve, Crash
  <1>25. ASSUME NEW r \in Requests, NEW p \in Providers, Land(r, p)
        PROVE  OnePaymentPerKey'
    BY <1>1, <1>25 DEF IInv, TypeOK, OnePaymentPerKey, RowByPlace,
       BeforeRow, BeforeResolve, Land
  <1>26. ASSUME NEW k \in Keys, LockExpires(k)
        PROVE  OnePaymentPerKey'
    BY <1>1, <1>26 DEF IInv, TypeOK, OnePaymentPerKey, RowByPlace,
       BeforeRow, BeforeResolve, LockExpires
  <1>27. CASE UNCHANGED vars
    BY <1>1, <1>27 DEF IInv, TypeOK, OnePaymentPerKey, RowByPlace,
       BeforeRow, BeforeResolve, vars
  <1>28. QED
    BY <1>1, <1>2, <1>3, <1>4, <1>5, <1>6, <1>7, <1>8, <1>9, <1>10,
       <1>11, <1>12, <1>13, <1>14, <1>15, <1>16, <1>17, <1>18, <1>19,
       <1>20, <1>21, <1>22, <1>23, <1>24, <1>25, <1>26, <1>27 DEF Next,
       CreateOrFetch, Settle, Fault

(* A row is opened, kept pending and resolved at the places of the         *)
(* pipeline that do it, and nowhere else.                                  *)
LEMMA RowStep == IInv /\ [Next]_vars => RowByPlace'
  <1>1. SUFFICES ASSUME IInv, [Next]_vars
                 PROVE  RowByPlace'
    OBVIOUS
  <1> USE DEF Goto, requestVars, chainVars
  <1>2. ASSUME NEW r \in Requests, NEW k \in Keys, AcquireLock(r, k)
        PROVE  RowByPlace'
    BY <1>1, <1>2, NoneAssumption DEF IInv, TypeOK, RowByPlace,
       BeforeRow, BeforeResolve, AcquireLock
  <1>3. ASSUME NEW r \in Requests, NEW k \in Keys, MissLock(r, k)
        PROVE  RowByPlace'
    BY <1>1, <1>3, NoneAssumption DEF IInv, TypeOK, RowByPlace,
       BeforeRow, BeforeResolve, MissLock
  <1>4. ASSUME NEW r \in Requests, PollHit(r)
        PROVE  RowByPlace'
    BY <1>1, <1>4 DEF IInv, TypeOK, RowByPlace, BeforeRow,
       BeforeResolve, PollHit, AnswerWith
  <1>5. ASSUME NEW r \in Requests, PollDeadline(r)
        PROVE  RowByPlace'
    BY <1>1, <1>5 DEF IInv, TypeOK, RowByPlace, BeforeRow,
       BeforeResolve, PollDeadline
  <1>6. ASSUME NEW r \in Requests, InsertRow(r)
        PROVE  RowByPlace'
    BY <1>1, <1>6 DEF IInv, TypeOK, RowByPlace, BeforeRow,
       BeforeResolve, InsertRow
  <1>7. ASSUME NEW r \in Requests, InsertConflict(r)
        PROVE  RowByPlace'
    BY <1>1, <1>7 DEF IInv, TypeOK, RowByPlace, BeforeRow,
       BeforeResolve, InsertConflict
  <1>8. ASSUME NEW r \in Requests, DropLockOnConflict(r)
        PROVE  RowByPlace'
    BY <1>1, <1>8 DEF IInv, TypeOK, RowByPlace, BeforeRow,
       BeforeResolve, DropLockOnConflict
  <1>9. ASSUME NEW r \in Requests, FetchExisting(r)
        PROVE  RowByPlace'
    BY <1>1, <1>9 DEF IInv, TypeOK, RowByPlace, BeforeRow,
       BeforeResolve, FetchExisting, AnswerWith
  <1>10. ASSUME NEW r \in Requests, DropLockOnFault(r)
        PROVE  RowByPlace'
    BY <1>1, <1>10 DEF IInv, TypeOK, RowByPlace, BeforeRow,
       BeforeResolve, DropLockOnFault
  <1>11. ASSUME NEW r \in Requests, Route(r)
        PROVE  RowByPlace'
    BY <1>1, <1>11 DEF IInv, TypeOK, RowByPlace, BeforeRow,
       BeforeResolve, Route, AfterRoute
  <1>12. ASSUME NEW r \in Requests, SkipCandidate(r)
        PROVE  RowByPlace'
    BY <1>1, <1>12 DEF IInv, TypeOK, RowByPlace, BeforeRow,
       BeforeResolve, SkipCandidate
  <1>13. ASSUME NEW r \in Requests, StartAttempt(r)
        PROVE  RowByPlace'
    BY <1>1, <1>13 DEF IInv, TypeOK, RowByPlace, BeforeRow,
       BeforeResolve, StartAttempt
  <1>14. ASSUME NEW r \in Requests, Exhausted(r)
        PROVE  RowByPlace'
    BY <1>1, <1>14 DEF IInv, TypeOK, RowByPlace, BeforeRow,
       BeforeResolve, Exhausted
  <1>15. ASSUME NEW r \in Requests, CallSettle(r)
        PROVE  RowByPlace'
    BY <1>1, <1>15 DEF IInv, TypeOK, RowByPlace, BeforeRow,
       BeforeResolve, CallSettle
  <1>16. ASSUME NEW r \in Requests, SettleReturns(r)
        PROVE  RowByPlace'
    BY <1>1, <1>16 DEF IInv, TypeOK, RowByPlace, BeforeRow,
       BeforeResolve, SettleReturns
  <1>17. ASSUME NEW r \in Requests, FinishAttempt(r)
        PROVE  RowByPlace'
    BY <1>1, <1>17 DEF IInv, TypeOK, RowByPlace, BeforeRow,
       BeforeResolve, FinishAttempt
  <1>18. ASSUME NEW r \in Requests, Finalize(r)
        PROVE  RowByPlace'
    BY <1>1, <1>18 DEF IInv, TypeOK, RowByPlace, BeforeRow,
       BeforeResolve, Finalize, StatusAfter
  <1>19. ASSUME NEW r \in Requests, Reread(r)
        PROVE  RowByPlace'
    BY <1>1, <1>19 DEF IInv, TypeOK, RowByPlace, BeforeRow,
       BeforeResolve, Reread, AnswerWith
  <1>20. ASSUME NEW r \in Requests, ReleaseLock(r)
        PROVE  RowByPlace'
    BY <1>1, <1>20 DEF IInv, TypeOK, RowByPlace, BeforeRow,
       BeforeResolve, ReleaseLock
  <1>21. ASSUME NEW r \in Requests, InsertFault(r)
        PROVE  RowByPlace'
    BY <1>1, <1>21 DEF IInv, TypeOK, RowByPlace, BeforeRow,
       BeforeResolve, InsertFault
  <1>22. ASSUME NEW r \in Requests, PipelineFault(r)
        PROVE  RowByPlace'
    BY <1>1, <1>22 DEF IInv, TypeOK, RowByPlace, BeforeRow,
       BeforeResolve, PipelineFault
  <1>23. ASSUME NEW r \in Requests, LastCallFault(r)
        PROVE  RowByPlace'
    BY <1>1, <1>23 DEF IInv, TypeOK, RowByPlace, BeforeRow,
       BeforeResolve, LastCallFault
  <1>24. ASSUME NEW r \in Requests, Crash(r)
        PROVE  RowByPlace'
    BY <1>1, <1>24 DEF IInv, TypeOK, RowByPlace, BeforeRow,
       BeforeResolve, Crash
  <1>25. ASSUME NEW r \in Requests, NEW p \in Providers, Land(r, p)
        PROVE  RowByPlace'
    BY <1>1, <1>25 DEF IInv, TypeOK, RowByPlace, BeforeRow,
       BeforeResolve, Land
  <1>26. ASSUME NEW k \in Keys, LockExpires(k)
        PROVE  RowByPlace'
    BY <1>1, <1>26 DEF IInv, TypeOK, RowByPlace, BeforeRow,
       BeforeResolve, LockExpires
  <1>27. CASE UNCHANGED vars
    BY <1>1, <1>27 DEF IInv, TypeOK, RowByPlace, BeforeRow,
       BeforeResolve, vars
  <1>28. QED
    BY <1>1, <1>2, <1>3, <1>4, <1>5, <1>6, <1>7, <1>8, <1>9, <1>10,
       <1>11, <1>12, <1>13, <1>14, <1>15, <1>16, <1>17, <1>18, <1>19,
       <1>20, <1>21, <1>22, <1>23, <1>24, <1>25, <1>26, <1>27 DEF Next,
       CreateOrFetch, Settle, Fault

(* Nobody is answered before the last await of their request.              *)
LEMMA AnswerStep == IInv /\ [Next]_vars => AnswerByPlace'
  <1>1. SUFFICES ASSUME IInv, [Next]_vars
                 PROVE  AnswerByPlace'
    OBVIOUS
  <1> USE DEF Goto, requestVars, chainVars
  <1>2. ASSUME NEW r \in Requests, NEW k \in Keys, AcquireLock(r, k)
        PROVE  AnswerByPlace'
    BY <1>1, <1>2 DEF IInv, TypeOK, AnswerByPlace, AcquireLock
  <1>3. ASSUME NEW r \in Requests, NEW k \in Keys, MissLock(r, k)
        PROVE  AnswerByPlace'
    BY <1>1, <1>3 DEF IInv, TypeOK, AnswerByPlace, MissLock
  <1>4. ASSUME NEW r \in Requests, PollHit(r)
        PROVE  AnswerByPlace'
    BY <1>1, <1>4 DEF IInv, TypeOK, AnswerByPlace, PollHit, AnswerWith
  <1>5. ASSUME NEW r \in Requests, PollDeadline(r)
        PROVE  AnswerByPlace'
    BY <1>1, <1>5 DEF IInv, TypeOK, AnswerByPlace, PollDeadline
  <1>6. ASSUME NEW r \in Requests, InsertRow(r)
        PROVE  AnswerByPlace'
    BY <1>1, <1>6 DEF IInv, TypeOK, AnswerByPlace, InsertRow
  <1>7. ASSUME NEW r \in Requests, InsertConflict(r)
        PROVE  AnswerByPlace'
    BY <1>1, <1>7 DEF IInv, TypeOK, AnswerByPlace, InsertConflict
  <1>8. ASSUME NEW r \in Requests, DropLockOnConflict(r)
        PROVE  AnswerByPlace'
    BY <1>1, <1>8 DEF IInv, TypeOK, AnswerByPlace, DropLockOnConflict
  <1>9. ASSUME NEW r \in Requests, FetchExisting(r)
        PROVE  AnswerByPlace'
    BY <1>1, <1>9 DEF IInv, TypeOK, AnswerByPlace, FetchExisting,
       AnswerWith
  <1>10. ASSUME NEW r \in Requests, DropLockOnFault(r)
        PROVE  AnswerByPlace'
    BY <1>1, <1>10 DEF IInv, TypeOK, AnswerByPlace, DropLockOnFault
  <1>11. ASSUME NEW r \in Requests, Route(r)
        PROVE  AnswerByPlace'
    BY <1>1, <1>11 DEF IInv, TypeOK, AnswerByPlace, Route, AfterRoute
  <1>12. ASSUME NEW r \in Requests, SkipCandidate(r)
        PROVE  AnswerByPlace'
    BY <1>1, <1>12 DEF IInv, TypeOK, AnswerByPlace, SkipCandidate
  <1>13. ASSUME NEW r \in Requests, StartAttempt(r)
        PROVE  AnswerByPlace'
    BY <1>1, <1>13 DEF IInv, TypeOK, AnswerByPlace, StartAttempt
  <1>14. ASSUME NEW r \in Requests, Exhausted(r)
        PROVE  AnswerByPlace'
    BY <1>1, <1>14 DEF IInv, TypeOK, AnswerByPlace, Exhausted
  <1>15. ASSUME NEW r \in Requests, CallSettle(r)
        PROVE  AnswerByPlace'
    BY <1>1, <1>15 DEF IInv, TypeOK, AnswerByPlace, CallSettle
  <1>16. ASSUME NEW r \in Requests, SettleReturns(r)
        PROVE  AnswerByPlace'
    BY <1>1, <1>16 DEF IInv, TypeOK, AnswerByPlace, SettleReturns
  <1>17. ASSUME NEW r \in Requests, FinishAttempt(r)
        PROVE  AnswerByPlace'
    BY <1>1, <1>17 DEF IInv, TypeOK, AnswerByPlace, FinishAttempt
  <1>18. ASSUME NEW r \in Requests, Finalize(r)
        PROVE  AnswerByPlace'
    BY <1>1, <1>18 DEF IInv, TypeOK, AnswerByPlace, Finalize, StatusAfter
  <1>19. ASSUME NEW r \in Requests, Reread(r)
        PROVE  AnswerByPlace'
    BY <1>1, <1>19 DEF IInv, TypeOK, AnswerByPlace, Reread, AnswerWith
  <1>20. ASSUME NEW r \in Requests, ReleaseLock(r)
        PROVE  AnswerByPlace'
    BY <1>1, <1>20 DEF IInv, TypeOK, AnswerByPlace, ReleaseLock
  <1>21. ASSUME NEW r \in Requests, InsertFault(r)
        PROVE  AnswerByPlace'
    BY <1>1, <1>21 DEF IInv, TypeOK, AnswerByPlace, InsertFault
  <1>22. ASSUME NEW r \in Requests, PipelineFault(r)
        PROVE  AnswerByPlace'
    BY <1>1, <1>22 DEF IInv, TypeOK, AnswerByPlace, PipelineFault
  <1>23. ASSUME NEW r \in Requests, LastCallFault(r)
        PROVE  AnswerByPlace'
    BY <1>1, <1>23 DEF IInv, TypeOK, AnswerByPlace, LastCallFault
  <1>24. ASSUME NEW r \in Requests, Crash(r)
        PROVE  AnswerByPlace'
    BY <1>1, <1>24 DEF IInv, TypeOK, AnswerByPlace, Crash
  <1>25. ASSUME NEW r \in Requests, NEW p \in Providers, Land(r, p)
        PROVE  AnswerByPlace'
    BY <1>1, <1>25 DEF IInv, TypeOK, AnswerByPlace, Land
  <1>26. ASSUME NEW k \in Keys, LockExpires(k)
        PROVE  AnswerByPlace'
    BY <1>1, <1>26 DEF IInv, TypeOK, AnswerByPlace, LockExpires
  <1>27. CASE UNCHANGED vars
    BY <1>1, <1>27 DEF IInv, TypeOK, AnswerByPlace, vars
  <1>28. QED
    BY <1>1, <1>2, <1>3, <1>4, <1>5, <1>6, <1>7, <1>8, <1>9, <1>10,
       <1>11, <1>12, <1>13, <1>14, <1>15, <1>16, <1>17, <1>18, <1>19,
       <1>20, <1>21, <1>22, <1>23, <1>24, <1>25, <1>26, <1>27 DEF Next,
       CreateOrFetch, Settle, Fault

(* A request does not end well and leave its payment pending.              *)
LEMMA PendingStep == IInv /\ [Next]_vars => PendingIsExplained'
  <1>1. SUFFICES ASSUME IInv, [Next]_vars
                 PROVE  PendingIsExplained'
    OBVIOUS
  <1> USE DEF Goto, requestVars, chainVars
  <1>2. ASSUME NEW r \in Requests, NEW k \in Keys, AcquireLock(r, k)
        PROVE  PendingIsExplained'
    BY <1>1, <1>2 DEF IInv, TypeOK, RowByPlace, PendingIsExplained,
       BeforeRow, BeforeResolve, AcquireLock
  <1>3. ASSUME NEW r \in Requests, NEW k \in Keys, MissLock(r, k)
        PROVE  PendingIsExplained'
    BY <1>1, <1>3 DEF IInv, TypeOK, RowByPlace, PendingIsExplained,
       BeforeRow, BeforeResolve, MissLock
  <1>4. ASSUME NEW r \in Requests, PollHit(r)
        PROVE  PendingIsExplained'
    BY <1>1, <1>4 DEF IInv, TypeOK, RowByPlace, PendingIsExplained,
       BeforeRow, BeforeResolve, PollHit, AnswerWith
  <1>5. ASSUME NEW r \in Requests, PollDeadline(r)
        PROVE  PendingIsExplained'
    BY <1>1, <1>5 DEF IInv, TypeOK, RowByPlace, PendingIsExplained,
       BeforeRow, BeforeResolve, PollDeadline
  <1>6. ASSUME NEW r \in Requests, InsertRow(r)
        PROVE  PendingIsExplained'
    BY <1>1, <1>6 DEF IInv, TypeOK, RowByPlace, PendingIsExplained,
       BeforeRow, BeforeResolve, InsertRow
  <1>7. ASSUME NEW r \in Requests, InsertConflict(r)
        PROVE  PendingIsExplained'
    BY <1>1, <1>7 DEF IInv, TypeOK, RowByPlace, PendingIsExplained,
       BeforeRow, BeforeResolve, InsertConflict
  <1>8. ASSUME NEW r \in Requests, DropLockOnConflict(r)
        PROVE  PendingIsExplained'
    BY <1>1, <1>8 DEF IInv, TypeOK, RowByPlace, PendingIsExplained,
       BeforeRow, BeforeResolve, DropLockOnConflict
  <1>9. ASSUME NEW r \in Requests, FetchExisting(r)
        PROVE  PendingIsExplained'
    BY <1>1, <1>9 DEF IInv, TypeOK, RowByPlace, PendingIsExplained,
       BeforeRow, BeforeResolve, FetchExisting, AnswerWith
  <1>10. ASSUME NEW r \in Requests, DropLockOnFault(r)
        PROVE  PendingIsExplained'
    BY <1>1, <1>10 DEF IInv, TypeOK, RowByPlace, PendingIsExplained,
       BeforeRow, BeforeResolve, DropLockOnFault
  <1>11. ASSUME NEW r \in Requests, Route(r)
        PROVE  PendingIsExplained'
    BY <1>1, <1>11 DEF IInv, TypeOK, RowByPlace, PendingIsExplained,
       BeforeRow, BeforeResolve, Route, AfterRoute
  <1>12. ASSUME NEW r \in Requests, SkipCandidate(r)
        PROVE  PendingIsExplained'
    BY <1>1, <1>12 DEF IInv, TypeOK, RowByPlace, PendingIsExplained,
       BeforeRow, BeforeResolve, SkipCandidate
  <1>13. ASSUME NEW r \in Requests, StartAttempt(r)
        PROVE  PendingIsExplained'
    BY <1>1, <1>13 DEF IInv, TypeOK, RowByPlace, PendingIsExplained,
       BeforeRow, BeforeResolve, StartAttempt
  <1>14. ASSUME NEW r \in Requests, Exhausted(r)
        PROVE  PendingIsExplained'
    BY <1>1, <1>14 DEF IInv, TypeOK, RowByPlace, PendingIsExplained,
       BeforeRow, BeforeResolve, Exhausted
  <1>15. ASSUME NEW r \in Requests, CallSettle(r)
        PROVE  PendingIsExplained'
    BY <1>1, <1>15 DEF IInv, TypeOK, RowByPlace, PendingIsExplained,
       BeforeRow, BeforeResolve, CallSettle
  <1>16. ASSUME NEW r \in Requests, SettleReturns(r)
        PROVE  PendingIsExplained'
    BY <1>1, <1>16 DEF IInv, TypeOK, RowByPlace, PendingIsExplained,
       BeforeRow, BeforeResolve, SettleReturns
  <1>17. ASSUME NEW r \in Requests, FinishAttempt(r)
        PROVE  PendingIsExplained'
    BY <1>1, <1>17 DEF IInv, TypeOK, RowByPlace, PendingIsExplained,
       BeforeRow, BeforeResolve, FinishAttempt
  <1>18. ASSUME NEW r \in Requests, Finalize(r)
        PROVE  PendingIsExplained'
    BY <1>1, <1>18 DEF IInv, TypeOK, RowByPlace, PendingIsExplained,
       BeforeRow, BeforeResolve, Finalize, StatusAfter
  <1>19. ASSUME NEW r \in Requests, Reread(r)
        PROVE  PendingIsExplained'
    BY <1>1, <1>19 DEF IInv, TypeOK, RowByPlace, PendingIsExplained,
       BeforeRow, BeforeResolve, Reread, AnswerWith
  <1>20. ASSUME NEW r \in Requests, ReleaseLock(r)
        PROVE  PendingIsExplained'
    BY <1>1, <1>20 DEF IInv, TypeOK, RowByPlace, PendingIsExplained,
       BeforeRow, BeforeResolve, ReleaseLock
  <1>21. ASSUME NEW r \in Requests, InsertFault(r)
        PROVE  PendingIsExplained'
    BY <1>1, <1>21 DEF IInv, TypeOK, RowByPlace, PendingIsExplained,
       BeforeRow, BeforeResolve, InsertFault
  <1>22. ASSUME NEW r \in Requests, PipelineFault(r)
        PROVE  PendingIsExplained'
    BY <1>1, <1>22 DEF IInv, TypeOK, RowByPlace, PendingIsExplained,
       BeforeRow, BeforeResolve, PipelineFault
  <1>23. ASSUME NEW r \in Requests, LastCallFault(r)
        PROVE  PendingIsExplained'
    BY <1>1, <1>23 DEF IInv, TypeOK, RowByPlace, PendingIsExplained,
       BeforeRow, BeforeResolve, LastCallFault
  <1>24. ASSUME NEW r \in Requests, Crash(r)
        PROVE  PendingIsExplained'
    BY <1>1, <1>24 DEF IInv, TypeOK, RowByPlace, PendingIsExplained,
       BeforeRow, BeforeResolve, Crash
  <1>25. ASSUME NEW r \in Requests, NEW p \in Providers, Land(r, p)
        PROVE  PendingIsExplained'
    BY <1>1, <1>25 DEF IInv, TypeOK, RowByPlace, PendingIsExplained,
       BeforeRow, BeforeResolve, Land
  <1>26. ASSUME NEW k \in Keys, LockExpires(k)
        PROVE  PendingIsExplained'
    BY <1>1, <1>26 DEF IInv, TypeOK, RowByPlace, PendingIsExplained,
       BeforeRow, BeforeResolve, LockExpires
  <1>27. CASE UNCHANGED vars
    BY <1>1, <1>27 DEF IInv, TypeOK, RowByPlace, PendingIsExplained,
       BeforeRow, BeforeResolve, vars
  <1>28. QED
    BY <1>1, <1>2, <1>3, <1>4, <1>5, <1>6, <1>7, <1>8, <1>9, <1>10,
       <1>11, <1>12, <1>13, <1>14, <1>15, <1>16, <1>17, <1>18, <1>19,
       <1>20, <1>21, <1>22, <1>23, <1>24, <1>25, <1>26, <1>27 DEF Next,
       CreateOrFetch, Settle, Fault

(* The attempt rows tell the place of the pipeline: one open row for the   *)
(* current candidate, every earlier one failed.                            *)
LEMMA AttemptsStep == IInv /\ [Next]_vars => AttemptsByPlace'
  <1>1. SUFFICES ASSUME IInv, [Next]_vars
                 PROVE  AttemptsByPlace'
    OBVIOUS
  <1> USE DEF Goto, requestVars, chainVars
  <1>2. ASSUME NEW r \in Requests, NEW k \in Keys, AcquireLock(r, k)
        PROVE  AttemptsByPlace'
    BY <1>1, <1>2 DEF IInv, TypeOK, RowByPlace, BeforeRow,
       BeforeResolve, AttemptsByPlace, AcquireLock
  <1>3. ASSUME NEW r \in Requests, NEW k \in Keys, MissLock(r, k)
        PROVE  AttemptsByPlace'
    BY <1>1, <1>3 DEF IInv, TypeOK, RowByPlace, BeforeRow,
       BeforeResolve, AttemptsByPlace, MissLock
  <1>4. ASSUME NEW r \in Requests, PollHit(r)
        PROVE  AttemptsByPlace'
    BY <1>1, <1>4 DEF IInv, TypeOK, RowByPlace, BeforeRow,
       BeforeResolve, AttemptsByPlace, PollHit
  <1>5. ASSUME NEW r \in Requests, PollDeadline(r)
        PROVE  AttemptsByPlace'
    BY <1>1, <1>5 DEF IInv, TypeOK, RowByPlace, BeforeRow,
       BeforeResolve, AttemptsByPlace, PollDeadline
  <1>6. ASSUME NEW r \in Requests, InsertRow(r)
        PROVE  AttemptsByPlace'
    BY <1>1, <1>6 DEF IInv, TypeOK, RowByPlace, BeforeRow,
       BeforeResolve, AttemptsByPlace, InsertRow
  <1>7. ASSUME NEW r \in Requests, InsertConflict(r)
        PROVE  AttemptsByPlace'
    BY <1>1, <1>7 DEF IInv, TypeOK, RowByPlace, BeforeRow,
       BeforeResolve, AttemptsByPlace, InsertConflict
  <1>8. ASSUME NEW r \in Requests, DropLockOnConflict(r)
        PROVE  AttemptsByPlace'
    BY <1>1, <1>8 DEF IInv, TypeOK, RowByPlace, BeforeRow,
       BeforeResolve, AttemptsByPlace, DropLockOnConflict
  <1>9. ASSUME NEW r \in Requests, FetchExisting(r)
        PROVE  AttemptsByPlace'
    BY <1>1, <1>9 DEF IInv, TypeOK, RowByPlace, BeforeRow,
       BeforeResolve, AttemptsByPlace, FetchExisting
  <1>10. ASSUME NEW r \in Requests, DropLockOnFault(r)
        PROVE  AttemptsByPlace'
    BY <1>1, <1>10 DEF IInv, TypeOK, RowByPlace, BeforeRow,
       BeforeResolve, AttemptsByPlace, DropLockOnFault
  <1>11. ASSUME NEW r \in Requests, Route(r)
        PROVE  AttemptsByPlace'
    BY <1>1, <1>11 DEF IInv, TypeOK, RowByPlace, BeforeRow,
       BeforeResolve, AttemptsByPlace, Route, AfterRoute, AllFailed
  <1>12. ASSUME NEW r \in Requests, SkipCandidate(r)
        PROVE  AttemptsByPlace'
    BY <1>1, <1>12 DEF IInv, TypeOK, RowByPlace, BeforeRow,
       BeforeResolve, AttemptsByPlace, SkipCandidate, NextCandidate
  <1>13. ASSUME NEW r \in Requests, StartAttempt(r)
        PROVE  AttemptsByPlace'
    <2>1. /\ attempts[r] \in Seq(Attempt)
          /\ cands[r] \in Seq(Providers)
      BY <1>1 DEF IInv, TypeOK
    <2> DEFINE s == OpenAttempt(attempts[r], Head(cands[r]))
    <2>2. cands[r] # <<>> /\ AllFailed(attempts[r])
      BY <1>1, <1>13 DEF IInv, AttemptsByPlace, StartAttempt
    <2>3. Head(cands[r]) \in Providers
      BY <2>1, <2>2, HeadTail
    <2>4. /\ s \in Seq(Attempt)
          /\ Len(s) = Len(attempts[r]) + 1
          /\ s[Len(s)] = [provider |-> Head(cands[r]), outcome |-> "pending"]
          /\ \A i \in 1..Len(attempts[r]) : s[i] = attempts[r][i]
      BY <2>1, <2>3, OpenAttemptType, SMTT(60)
    <2> HIDE DEF s
    <2>5. LastIs(s, Head(cands[r]), "pending")
      BY <2>1, <2>2, <2>4, SMTT(60) DEF LastIs, AllFailed
    <2>6. attempts' = [attempts EXCEPT ![r] = s]
      BY <1>13 DEF StartAttempt, s
    <2>7. QED
      BY <1>1, <1>13, <2>2, <2>5, <2>6 DEF IInv, TypeOK, RowByPlace, BeforeRow, BeforeResolve, AttemptsByPlace, StartAttempt
  <1>14. ASSUME NEW r \in Requests, Exhausted(r)
        PROVE  AttemptsByPlace'
    BY <1>1, <1>14 DEF IInv, TypeOK, RowByPlace, BeforeRow,
       BeforeResolve, AttemptsByPlace, Exhausted, AllFailed
  <1>15. ASSUME NEW r \in Requests, CallSettle(r)
        PROVE  AttemptsByPlace'
    BY <1>1, <1>15 DEF IInv, TypeOK, RowByPlace, BeforeRow,
       BeforeResolve, AttemptsByPlace, CallSettle
  <1>16. ASSUME NEW r \in Requests, SettleReturns(r)
        PROVE  AttemptsByPlace'
    BY <1>1, <1>16 DEF IInv, TypeOK, RowByPlace, BeforeRow,
       BeforeResolve, AttemptsByPlace, SettleReturns, LastIs
  <1>17. ASSUME NEW r \in Requests, FinishAttempt(r)
        PROVE  AttemptsByPlace'
    <2>1. /\ attempts[r] \in Seq(Attempt)
          /\ cands[r] \in Seq(Providers)
      BY <1>1 DEF IInv, TypeOK
    <2>2. cands[r] # <<>> /\ LastIs(attempts[r], Head(cands[r]), "pending")
      BY <1>1, <1>17 DEF IInv, AttemptsByPlace, FinishAttempt
    <2>3. attempts[r] # <<>>
      BY <2>2 DEF LastIs
    <2>4. Head(cands[r]) \in Providers /\ Tail(cands[r]) \in Seq(Providers)
      BY <2>1, <2>2, HeadTail
    <2> DEFINE o == IF result[r] = "settled" THEN "success" ELSE "failed"
                s == CloseAttempt(attempts[r], o)
    <2>5. o \in {"success", "failed"} /\ (o = "success" <=> result[r] = "settled")
      OBVIOUS
    <2>6. attempts' = [attempts EXCEPT ![r] = s]
      BY <1>17 DEF FinishAttempt
    <2> HIDE DEF o
    <2>7. /\ s \in Seq(Attempt)
          /\ Len(s) = Len(attempts[r])
          /\ s[Len(attempts[r])]
                = [provider |-> Head(cands[r]), outcome |-> o]
          /\ \A i \in 1..Len(attempts[r]) :
                i # Len(attempts[r]) => s[i] = attempts[r][i]
      <3>1. attempts[r][Len(attempts[r])].provider = Head(cands[r])
        BY <2>2 DEF LastIs
      <3>2. o \in {"pending", "success", "failed"}
        BY <2>5
      <3>3. QED
        BY ONLY <2>1, <2>3, <3>1, <3>2, CloseAttemptType
    <2> HIDE DEF s
    <2>8. LastIs(s, Head(cands[r]), o)
      BY <2>1, <2>2, <2>3, <2>7 DEF LastIs
    <2>9. o = "failed" => AllFailed(s)
      BY <2>7, <2>8 DEF LastIs, AllFailed
    <2>10. QED
      BY <1>1, <1>17, <2>5, <2>6, <2>8, <2>9 DEF IInv, TypeOK, RowByPlace, BeforeRow, BeforeResolve, AttemptsByPlace, FinishAttempt, NextCandidate
  <1>18. ASSUME NEW r \in Requests, Finalize(r)
        PROVE  AttemptsByPlace'
    BY <1>1, <1>18 DEF IInv, TypeOK, RowByPlace, BeforeRow,
       BeforeResolve, AttemptsByPlace, Finalize, StatusAfter
  <1>19. ASSUME NEW r \in Requests, Reread(r)
        PROVE  AttemptsByPlace'
    BY <1>1, <1>19 DEF IInv, TypeOK, RowByPlace, BeforeRow,
       BeforeResolve, AttemptsByPlace, Reread
  <1>20. ASSUME NEW r \in Requests, ReleaseLock(r)
        PROVE  AttemptsByPlace'
    BY <1>1, <1>20 DEF IInv, TypeOK, RowByPlace, BeforeRow,
       BeforeResolve, AttemptsByPlace, ReleaseLock
  <1>21. ASSUME NEW r \in Requests, InsertFault(r)
        PROVE  AttemptsByPlace'
    BY <1>1, <1>21 DEF IInv, TypeOK, RowByPlace, BeforeRow,
       BeforeResolve, AttemptsByPlace, InsertFault
  <1>22. ASSUME NEW r \in Requests, PipelineFault(r)
        PROVE  AttemptsByPlace'
    BY <1>1, <1>22 DEF IInv, TypeOK, RowByPlace, BeforeRow,
       BeforeResolve, AttemptsByPlace, PipelineFault
  <1>23. ASSUME NEW r \in Requests, LastCallFault(r)
        PROVE  AttemptsByPlace'
    BY <1>1, <1>23 DEF IInv, TypeOK, RowByPlace, BeforeRow,
       BeforeResolve, AttemptsByPlace, LastCallFault
  <1>24. ASSUME NEW r \in Requests, Crash(r)
        PROVE  AttemptsByPlace'
    BY <1>1, <1>24 DEF IInv, TypeOK, RowByPlace, BeforeRow,
       BeforeResolve, AttemptsByPlace, Crash
  <1>25. ASSUME NEW r \in Requests, NEW p \in Providers, Land(r, p)
        PROVE  AttemptsByPlace'
    <2>1. paidBy[key[r]] = None
      BY <1>25 DEF Land
    <2>2. \A q \in Requests :
             attempts[q] \in Seq(Attempt) /\ cands[q] \in Seq(Providers)
      BY <1>1 DEF IInv, TypeOK
    <2>3. ASSUME NEW q \in Requests, pc[q] = "finish", result[q] = "settled"
          PROVE  key[q] # key[r]
      <3>1. cands[q] # <<>> /\ paidBy[key[q]] = Head(cands[q])
        BY <1>1, <2>3 DEF IInv, AttemptsByPlace
      <3>2. Head(cands[q]) # None
        BY <2>2, <3>1, HeadTail, NoneAssumption
      <3>3. QED
        BY <2>1, <3>1, <3>2
    <2>4. ASSUME NEW q \in Requests, pc[q] = "finalize", result[q] = "settled"
          PROVE  key[q] # key[r]
      <3>1. LastIs(attempts[q], paidBy[key[q]], "success")
        BY <1>1, <2>4 DEF IInv, AttemptsByPlace
      <3>2. /\ attempts[q] # <<>>
            /\ attempts[q][Len(attempts[q])].provider = paidBy[key[q]]
        BY <3>1 DEF LastIs
      <3>3. paidBy[key[q]] # None
        BY <2>2, <3>2, LastAttempt, NoneAssumption
      <3>4. QED
        BY <2>1, <3>3
    <2>5. QED
      BY <1>1, <1>25, <2>3, <2>4 DEF IInv, TypeOK, RowByPlace, BeforeRow, BeforeResolve, AttemptsByPlace, Land
  <1>26. ASSUME NEW k \in Keys, LockExpires(k)
        PROVE  AttemptsByPlace'
    BY <1>1, <1>26 DEF IInv, TypeOK, RowByPlace, BeforeRow,
       BeforeResolve, AttemptsByPlace, LockExpires
  <1>27. CASE UNCHANGED vars
    BY <1>1, <1>27 DEF IInv, TypeOK, RowByPlace, BeforeRow,
       BeforeResolve, AttemptsByPlace, vars
  <1>28. QED
    BY <1>1, <1>2, <1>3, <1>4, <1>5, <1>6, <1>7, <1>8, <1>9, <1>10,
       <1>11, <1>12, <1>13, <1>14, <1>15, <1>16, <1>17, <1>18, <1>19,
       <1>20, <1>21, <1>22, <1>23, <1>24, <1>25, <1>26, <1>27 DEF Next,
       CreateOrFetch, Settle, Fault

(* A settled payment keeps the provider that was paid.                     *)
LEMMA SettledStep == IInv /\ [Next]_vars => Settled'
  <1>1. SUFFICES ASSUME IInv, [Next]_vars
                 PROVE  Settled'
    OBVIOUS
  <1> USE DEF Goto, requestVars, chainVars
  <1>2. ASSUME NEW r \in Requests, NEW k \in Keys, AcquireLock(r, k)
        PROVE  Settled'
    BY <1>1, <1>2 DEF IInv, TypeOK, RowByPlace, BeforeRow,
       BeforeResolve, Settled, AcquireLock
  <1>3. ASSUME NEW r \in Requests, NEW k \in Keys, MissLock(r, k)
        PROVE  Settled'
    BY <1>1, <1>3 DEF IInv, TypeOK, RowByPlace, BeforeRow,
       BeforeResolve, Settled, MissLock
  <1>4. ASSUME NEW r \in Requests, PollHit(r)
        PROVE  Settled'
    BY <1>1, <1>4 DEF IInv, TypeOK, RowByPlace, BeforeRow,
       BeforeResolve, Settled, PollHit
  <1>5. ASSUME NEW r \in Requests, PollDeadline(r)
        PROVE  Settled'
    BY <1>1, <1>5 DEF IInv, TypeOK, RowByPlace, BeforeRow,
       BeforeResolve, Settled, PollDeadline
  <1>6. ASSUME NEW r \in Requests, InsertRow(r)
        PROVE  Settled'
    BY <1>1, <1>6 DEF IInv, TypeOK, RowByPlace, BeforeRow,
       BeforeResolve, Settled, InsertRow
  <1>7. ASSUME NEW r \in Requests, InsertConflict(r)
        PROVE  Settled'
    BY <1>1, <1>7 DEF IInv, TypeOK, RowByPlace, BeforeRow,
       BeforeResolve, Settled, InsertConflict
  <1>8. ASSUME NEW r \in Requests, DropLockOnConflict(r)
        PROVE  Settled'
    BY <1>1, <1>8 DEF IInv, TypeOK, RowByPlace, BeforeRow,
       BeforeResolve, Settled, DropLockOnConflict
  <1>9. ASSUME NEW r \in Requests, FetchExisting(r)
        PROVE  Settled'
    BY <1>1, <1>9 DEF IInv, TypeOK, RowByPlace, BeforeRow,
       BeforeResolve, Settled, FetchExisting
  <1>10. ASSUME NEW r \in Requests, DropLockOnFault(r)
        PROVE  Settled'
    BY <1>1, <1>10 DEF IInv, TypeOK, RowByPlace, BeforeRow,
       BeforeResolve, Settled, DropLockOnFault
  <1>11. ASSUME NEW r \in Requests, Route(r)
        PROVE  Settled'
    BY <1>1, <1>11 DEF IInv, TypeOK, RowByPlace, BeforeRow,
       BeforeResolve, Settled, Route, AfterRoute
  <1>12. ASSUME NEW r \in Requests, SkipCandidate(r)
        PROVE  Settled'
    BY <1>1, <1>12 DEF IInv, TypeOK, RowByPlace, BeforeRow,
       BeforeResolve, Settled, SkipCandidate
  <1>13. ASSUME NEW r \in Requests, StartAttempt(r)
        PROVE  Settled'
    BY <1>1, <1>13 DEF IInv, TypeOK, RowByPlace, BeforeRow,
       BeforeResolve, Settled, StartAttempt
  <1>14. ASSUME NEW r \in Requests, Exhausted(r)
        PROVE  Settled'
    BY <1>1, <1>14 DEF IInv, TypeOK, RowByPlace, BeforeRow,
       BeforeResolve, Settled, Exhausted
  <1>15. ASSUME NEW r \in Requests, CallSettle(r)
        PROVE  Settled'
    BY <1>1, <1>15 DEF IInv, TypeOK, RowByPlace, BeforeRow,
       BeforeResolve, Settled, CallSettle
  <1>16. ASSUME NEW r \in Requests, SettleReturns(r)
        PROVE  Settled'
    BY <1>1, <1>16 DEF IInv, TypeOK, RowByPlace, BeforeRow,
       BeforeResolve, Settled, SettleReturns
  <1>17. ASSUME NEW r \in Requests, FinishAttempt(r)
        PROVE  Settled'
    BY <1>1, <1>17 DEF IInv, TypeOK, RowByPlace, BeforeRow,
       BeforeResolve, Settled, FinishAttempt
  <1>18. ASSUME NEW r \in Requests, Finalize(r)
        PROVE  Settled'
    <2>1. result[r] = "settled" =>
             LastIs(attempts[r], paidBy[key[r]], "success")
      BY <1>1, <1>18 DEF IInv, AttemptsByPlace, Finalize, StatusAfter
    <2>2. result[r] = "settled" => LastProvider(r) = paidBy[key[r]]
      BY <2>1 DEF LastIs, LastProvider
    <2>3. QED
      BY <1>1, <1>18, <2>1, <2>2 DEF IInv, TypeOK, RowByPlace, BeforeRow, BeforeResolve, Settled, Finalize, StatusAfter
  <1>19. ASSUME NEW r \in Requests, Reread(r)
        PROVE  Settled'
    BY <1>1, <1>19 DEF IInv, TypeOK, RowByPlace, BeforeRow,
       BeforeResolve, Settled, Reread
  <1>20. ASSUME NEW r \in Requests, ReleaseLock(r)
        PROVE  Settled'
    BY <1>1, <1>20 DEF IInv, TypeOK, RowByPlace, BeforeRow,
       BeforeResolve, Settled, ReleaseLock
  <1>21. ASSUME NEW r \in Requests, InsertFault(r)
        PROVE  Settled'
    BY <1>1, <1>21 DEF IInv, TypeOK, RowByPlace, BeforeRow,
       BeforeResolve, Settled, InsertFault
  <1>22. ASSUME NEW r \in Requests, PipelineFault(r)
        PROVE  Settled'
    BY <1>1, <1>22 DEF IInv, TypeOK, RowByPlace, BeforeRow,
       BeforeResolve, Settled, PipelineFault
  <1>23. ASSUME NEW r \in Requests, LastCallFault(r)
        PROVE  Settled'
    BY <1>1, <1>23 DEF IInv, TypeOK, RowByPlace, BeforeRow,
       BeforeResolve, Settled, LastCallFault
  <1>24. ASSUME NEW r \in Requests, Crash(r)
        PROVE  Settled'
    BY <1>1, <1>24 DEF IInv, TypeOK, RowByPlace, BeforeRow,
       BeforeResolve, Settled, Crash
  <1>25. ASSUME NEW r \in Requests, NEW p \in Providers, Land(r, p)
        PROVE  Settled'
    <2>1. paidBy[key[r]] = None
      BY <1>25 DEF Land
    <2>2. ASSUME NEW q \in Requests, status[q] = "settled"
          PROVE  key[q] # key[r]
      <3>1. LastIs(attempts[q], paidBy[key[q]], "success")
        BY <1>1, <2>2 DEF IInv, Settled
      <3>2. /\ attempts[q] # <<>>
            /\ attempts[q][Len(attempts[q])].provider = paidBy[key[q]]
        BY <3>1 DEF LastIs
      <3>3. paidBy[key[q]] # None
        BY <1>1, <3>2, LastAttempt, NoneAssumption DEF IInv, TypeOK
      <3>4. QED
        BY <2>1, <3>3
    <2>3. QED
      BY <1>1, <1>25, <2>2 DEF IInv, TypeOK, RowByPlace, BeforeRow, BeforeResolve, Settled, Land
  <1>26. ASSUME NEW k \in Keys, LockExpires(k)
        PROVE  Settled'
    BY <1>1, <1>26 DEF IInv, TypeOK, RowByPlace, BeforeRow,
       BeforeResolve, Settled, LockExpires
  <1>27. CASE UNCHANGED vars
    BY <1>1, <1>27 DEF IInv, TypeOK, RowByPlace, BeforeRow,
       BeforeResolve, Settled, vars
  <1>28. QED
    BY <1>1, <1>2, <1>3, <1>4, <1>5, <1>6, <1>7, <1>8, <1>9, <1>10,
       <1>11, <1>12, <1>13, <1>14, <1>15, <1>16, <1>17, <1>18, <1>19,
       <1>20, <1>21, <1>22, <1>23, <1>24, <1>25, <1>26, <1>27 DEF Next,
       CreateOrFetch, Settle, Fault

(* A settle call is made, and its transaction lands, under an attempt row. *)
LEMMA CallsStep == IInv /\ [Next]_vars => AttemptBeforeCall'
  <1>1. SUFFICES ASSUME IInv, [Next]_vars
                 PROVE  AttemptBeforeCall'
    OBVIOUS
  <1> USE DEF Goto, requestVars, chainVars
  <1>2. ASSUME NEW r \in Requests, NEW k \in Keys, AcquireLock(r, k)
        PROVE  AttemptBeforeCall'
    <2>1. \A q \in Requests : status[q] # "none" => q # r
      BY <1>1, <1>2 DEF IInv, RowByPlace, BeforeRow, AcquireLock
    <2>2. \A kk \in Keys : Rows(kk) \subseteq Rows(kk)'
      BY <1>1, <1>2, <2>1 DEF IInv, TypeOK, Rows, AcquireLock
    <2>3. QED
      BY <1>1, <1>2, <2>2 DEF IInv, AttemptBeforeCall, AcquireLock
  <1>3. ASSUME NEW r \in Requests, NEW k \in Keys, MissLock(r, k)
        PROVE  AttemptBeforeCall'
    <2>1. \A q \in Requests : status[q] # "none" => q # r
      BY <1>1, <1>3 DEF IInv, RowByPlace, BeforeRow, MissLock
    <2>2. \A kk \in Keys : Rows(kk) \subseteq Rows(kk)'
      BY <1>1, <1>3, <2>1 DEF IInv, TypeOK, Rows, MissLock
    <2>3. QED
      BY <1>1, <1>3, <2>2 DEF IInv, AttemptBeforeCall, MissLock
  <1>4. ASSUME NEW r \in Requests, PollHit(r)
        PROVE  AttemptBeforeCall'
    BY <1>1, <1>4 DEF IInv, AttemptBeforeCall, Rows, PollHit
  <1>5. ASSUME NEW r \in Requests, PollDeadline(r)
        PROVE  AttemptBeforeCall'
    BY <1>1, <1>5 DEF IInv, AttemptBeforeCall, Rows, PollDeadline
  <1>6. ASSUME NEW r \in Requests, InsertRow(r)
        PROVE  AttemptBeforeCall'
    <2>1. \A kk \in Keys : Rows(kk) \subseteq Rows(kk)'
      BY <1>1, <1>6 DEF IInv, TypeOK, Rows, InsertRow
    <2>2. QED
      BY <1>1, <1>6, <2>1 DEF IInv, AttemptBeforeCall, InsertRow
  <1>7. ASSUME NEW r \in Requests, InsertConflict(r)
        PROVE  AttemptBeforeCall'
    BY <1>1, <1>7 DEF IInv, AttemptBeforeCall, Rows, InsertConflict
  <1>8. ASSUME NEW r \in Requests, DropLockOnConflict(r)
        PROVE  AttemptBeforeCall'
    BY <1>1, <1>8 DEF IInv, AttemptBeforeCall, Rows, DropLockOnConflict
  <1>9. ASSUME NEW r \in Requests, FetchExisting(r)
        PROVE  AttemptBeforeCall'
    BY <1>1, <1>9 DEF IInv, AttemptBeforeCall, Rows, FetchExisting
  <1>10. ASSUME NEW r \in Requests, DropLockOnFault(r)
        PROVE  AttemptBeforeCall'
    BY <1>1, <1>10 DEF IInv, AttemptBeforeCall, Rows, DropLockOnFault
  <1>11. ASSUME NEW r \in Requests, Route(r)
        PROVE  AttemptBeforeCall'
    BY <1>1, <1>11 DEF IInv, AttemptBeforeCall, Rows, Route, AfterRoute
  <1>12. ASSUME NEW r \in Requests, SkipCandidate(r)
        PROVE  AttemptBeforeCall'
    BY <1>1, <1>12 DEF IInv, AttemptBeforeCall, Rows, SkipCandidate
  <1>13. ASSUME NEW r \in Requests, StartAttempt(r)
        PROVE  AttemptBeforeCall'
    <2>1. /\ attempts[r] \in Seq(Attempt)
          /\ cands[r] \in Seq(Providers)
      BY <1>1 DEF IInv, TypeOK
    <2> DEFINE s == OpenAttempt(attempts[r], Head(cands[r]))
    <2>2. Head(cands[r]) \in Providers
      BY <1>13, <2>1, HeadTail DEF StartAttempt
    <2>3. /\ s \in Seq(Attempt)
          /\ Len(s) = Len(attempts[r]) + 1
          /\ \A i \in 1..Len(attempts[r]) : s[i] = attempts[r][i]
      BY <2>1, <2>2, OpenAttemptType
    <2>4. attempts' = [attempts EXCEPT ![r] = s]
      BY <1>13 DEF StartAttempt
    <2> HIDE DEF s
    <2>5. \A i \in DOMAIN attempts[r] : i \in DOMAIN s /\ s[i] = attempts[r][i]
      BY <2>1, <2>3
    <2>6. \A q \in Requests : \A i \in DOMAIN attempts[q] :
             i \in DOMAIN attempts'[q] /\ attempts'[q][i] = attempts[q][i]
      BY <1>1, <2>4, <2>5 DEF IInv, TypeOK
    <2>7. QED
      <3>1. \A k \in Keys : Rows(k)' = Rows(k)
        BY <1>13 DEF Rows, StartAttempt
      <3>2. calls' = calls /\ paidBy' = paidBy
        BY <1>13 DEF StartAttempt
      <3>3. \A c \in calls : c[1] \in Requests
        BY <1>1 DEF IInv, TypeOK
      <3>4. \A k \in Keys : Rows(k) \subseteq Requests
        BY DEF Rows
      <3>5. QED
        BY <1>1, <2>6, <3>1, <3>2, <3>3, <3>4 DEF IInv, AttemptBeforeCall
  <1>14. ASSUME NEW r \in Requests, Exhausted(r)
        PROVE  AttemptBeforeCall'
    BY <1>1, <1>14 DEF IInv, AttemptBeforeCall, Rows, Exhausted
  <1>15. ASSUME NEW r \in Requests, CallSettle(r)
        PROVE  AttemptBeforeCall'
    <2>1. /\ attempts[r] \in Seq(Attempt)
          /\ cands[r] \in Seq(Providers)
      BY <1>1 DEF IInv, TypeOK
    <2>2. cands[r] # <<>> /\ LastIs(attempts[r], Head(cands[r]), "pending")
      BY <1>1, <1>15 DEF IInv, AttemptsByPlace, CallSettle
    <2>3. attempts[r] # <<>>
      BY <2>2 DEF LastIs
    <2>4. Head(cands[r]) \in Providers /\ Tail(cands[r]) \in Seq(Providers)
      BY <2>1, <2>2, HeadTail
    <2>5. \E i \in DOMAIN attempts[r] :
             attempts[r][i].provider = Head(cands[r])
      <3>1. attempts[r][Len(attempts[r])].provider = Head(cands[r])
        BY <2>2 DEF LastIs
      <3>2. QED
        BY <2>1, <2>3, <3>1, LastAttempt
    <2>6. QED
      BY <1>1, <1>15, <2>5 DEF IInv, AttemptBeforeCall, Rows, CallSettle
  <1>16. ASSUME NEW r \in Requests, SettleReturns(r)
        PROVE  AttemptBeforeCall'
    BY <1>1, <1>16 DEF IInv, AttemptBeforeCall, Rows, SettleReturns
  <1>17. ASSUME NEW r \in Requests, FinishAttempt(r)
        PROVE  AttemptBeforeCall'
    <2>1. /\ attempts[r] \in Seq(Attempt)
          /\ cands[r] \in Seq(Providers)
      BY <1>1 DEF IInv, TypeOK
    <2>2. cands[r] # <<>> /\ LastIs(attempts[r], Head(cands[r]), "pending")
      BY <1>1, <1>17 DEF IInv, AttemptsByPlace, FinishAttempt
    <2>3. attempts[r] # <<>>
      BY <2>2 DEF LastIs
    <2>4. Head(cands[r]) \in Providers /\ Tail(cands[r]) \in Seq(Providers)
      BY <2>1, <2>2, HeadTail
    <2> DEFINE o == IF result[r] = "settled" THEN "success" ELSE "failed"
                s == CloseAttempt(attempts[r], o)
    <2>5. attempts' = [attempts EXCEPT ![r] = s] 
          /\ o \in {"pending", "success", "failed"}
      BY <1>17 DEF FinishAttempt
    <2> HIDE DEF o
    <2>6. /\ s \in Seq(Attempt)
          /\ Len(s) = Len(attempts[r])
          /\ s[Len(attempts[r])].provider
                = attempts[r][Len(attempts[r])].provider
          /\ \A i \in 1..Len(attempts[r]) :
                i # Len(attempts[r]) => s[i] = attempts[r][i]
      <3>1. o \in {"pending", "success", "failed"}
        BY <2>5
      <3>2. s[Len(attempts[r])]
               = [provider |-> attempts[r][Len(attempts[r])].provider,
                  outcome |-> o]
        BY ONLY <2>1, <2>3, <3>1, CloseAttemptType
      <3>3. /\ s \in Seq(Attempt)
            /\ Len(s) = Len(attempts[r])
            /\ \A i \in 1..Len(attempts[r]) :
                  i # Len(attempts[r]) => s[i] = attempts[r][i]
        BY ONLY <2>1, <2>3, <3>1, CloseAttemptType
      <3>4. QED
        BY <3>2, <3>3
    <2> HIDE DEF s
    <2>7. \A i \in DOMAIN attempts[r] :
             i \in DOMAIN s /\ s[i].provider = attempts[r][i].provider
      BY <2>1, <2>6
    <2>8. \A q \in Requests : \A i \in DOMAIN attempts[q] :
             /\ i \in DOMAIN attempts'[q]
             /\ attempts'[q][i].provider = attempts[q][i].provider
      BY <1>1, <2>5, <2>7 DEF IInv, TypeOK
    <2>9. QED
      <3>1. \A k \in Keys : Rows(k)' = Rows(k)
        BY <1>17 DEF Rows, FinishAttempt
      <3>2. calls' = calls /\ paidBy' = paidBy
        BY <1>17 DEF FinishAttempt
      <3>3. \A c \in calls : c[1] \in Requests
        BY <1>1 DEF IInv, TypeOK
      <3>4. \A k \in Keys : Rows(k) \subseteq Requests
        BY DEF Rows
      <3>5. QED
        BY <1>1, <2>8, <3>1, <3>2, <3>3, <3>4 DEF IInv, AttemptBeforeCall
  <1>18. ASSUME NEW r \in Requests, Finalize(r)
        PROVE  AttemptBeforeCall'
    <2>1. \A kk \in Keys : Rows(kk) \subseteq Rows(kk)'
      BY <1>1, <1>18 DEF IInv, TypeOK, Rows, Finalize, StatusAfter
    <2>2. QED
      BY <1>1, <1>18, <2>1 DEF IInv, AttemptBeforeCall, Finalize, StatusAfter
  <1>19. ASSUME NEW r \in Requests, Reread(r)
        PROVE  AttemptBeforeCall'
    BY <1>1, <1>19 DEF IInv, AttemptBeforeCall, Rows, Reread
  <1>20. ASSUME NEW r \in Requests, ReleaseLock(r)
        PROVE  AttemptBeforeCall'
    BY <1>1, <1>20 DEF IInv, AttemptBeforeCall, Rows, ReleaseLock
  <1>21. ASSUME NEW r \in Requests, InsertFault(r)
        PROVE  AttemptBeforeCall'
    <2>1. \A kk \in Keys : Rows(kk) \subseteq Rows(kk)'
      BY <1>1, <1>21 DEF IInv, TypeOK, Rows, InsertFault
    <2>2. QED
      BY <1>1, <1>21, <2>1 DEF IInv, AttemptBeforeCall, InsertFault
  <1>22. ASSUME NEW r \in Requests, PipelineFault(r)
        PROVE  AttemptBeforeCall'
    BY <1>1, <1>22 DEF IInv, AttemptBeforeCall, Rows, PipelineFault
  <1>23. ASSUME NEW r \in Requests, LastCallFault(r)
        PROVE  AttemptBeforeCall'
    BY <1>1, <1>23 DEF IInv, AttemptBeforeCall, Rows, LastCallFault
  <1>24. ASSUME NEW r \in Requests, Crash(r)
        PROVE  AttemptBeforeCall'
    BY <1>1, <1>24 DEF IInv, AttemptBeforeCall, Rows, Crash
  <1>25. ASSUME NEW r \in Requests, NEW p \in Providers, Land(r, p)
        PROVE  AttemptBeforeCall'
    <2>1. /\ attempts[r] \in Seq(Attempt)
          /\ cands[r] \in Seq(Providers)
      BY <1>1 DEF IInv, TypeOK
    <2>2. \E i \in DOMAIN attempts[r] : attempts[r][i].provider = p
      BY <1>1, <1>25 DEF IInv, AttemptBeforeCall, Land
    <2>3. attempts[r] # <<>>
      BY <2>1, <2>2
    <2>4. r \in Rows(key[r])
      BY <1>1, <2>3 DEF IInv, RowByPlace, Rows
    <2>5. \A kk \in Keys : Rows(kk)' = Rows(kk)
      BY <1>25 DEF Rows, Land
    <2>6. calls' \subseteq calls /\ attempts' = attempts
      BY <1>25 DEF Land
    <2>7. \A k \in Keys : paidBy'[k] # None =>
             (k = key[r] /\ paidBy'[k] = p) \/ paidBy'[k] = paidBy[k]
      BY <1>1, <1>25 DEF IInv, TypeOK, Land
    <2>8. QED
      BY <1>1, <2>2, <2>4, <2>5, <2>6, <2>7 DEF IInv, AttemptBeforeCall
  <1>26. ASSUME NEW k \in Keys, LockExpires(k)
        PROVE  AttemptBeforeCall'
    BY <1>1, <1>26 DEF IInv, AttemptBeforeCall, Rows, LockExpires
  <1>27. CASE UNCHANGED vars
    BY <1>1, <1>27 DEF IInv, AttemptBeforeCall, Rows, vars
  <1>28. QED
    BY <1>1, <1>2, <1>3, <1>4, <1>5, <1>6, <1>7, <1>8, <1>9, <1>10,
       <1>11, <1>12, <1>13, <1>14, <1>15, <1>16, <1>17, <1>18, <1>19,
       <1>20, <1>21, <1>22, <1>23, <1>24, <1>25, <1>26, <1>27 DEF Next,
       CreateOrFetch, Settle, Fault

(* The invariant is inductive.                                             *)
LEMMA IInvStep == IInv /\ [Next]_vars => IInv'
  BY TypeStep, OnePaymentStep, RowStep, AnswerStep, AttemptsStep, SettledStep,
     CallsStep, PendingStep DEF IInv

LEMMA Inductive == Spec => []IInv
  <1>1. Init => IInv
    BY InitIInv
  <1>2. IInv /\ [Next]_vars => IInv'
    BY IInvStep
  <1>3. QED
    BY <1>1, <1>2, PTL DEF Spec

(* Every variable of the settle endpoint keeps its type.                   *)
THEOREM TypeCorrect == Spec => []TypeOK
  <1>1. IInv => TypeOK
    BY DEF IInv
  <1>2. QED
    BY <1>1, Inductive, PTL

(* Whatever the TTL of the lock does, one idempotency key never has two    *)
(* payments: the unique index alone carries the guarantee.                 *)
THEOREM OnePaymentPerKeyHolds == Spec => []OnePaymentPerKey
  <1>1. IInv => OnePaymentPerKey
    BY DEF IInv
  <1>2. QED
    BY <1>1, Inductive, PTL

(* Money moves only under an attempt row that was written first.           *)
THEOREM AttemptBeforeCallHolds == Spec => []AttemptBeforeCall
  <1>1. IInv => AttemptBeforeCall
    BY DEF IInv
  <1>2. QED
    BY <1>1, Inductive, PTL

(* A settled payment is paid, by the provider on file, at its last attempt. *)
THEOREM SettledIsPaidHolds == Spec => []SettledIsPaid
  <1>1. IInv => SettledIsPaid
    <2>1. SUFFICES ASSUME IInv, NEW r \in Requests, status[r] = "settled"
                   PROVE  /\ paidBy[key[r]] = final[r]
                          /\ attempts[r] # <<>>
                          /\ \A i \in DOMAIN attempts[r] :
                                attempts[r][i].outcome =
                                   IF i = Len(attempts[r]) THEN "success"
                                   ELSE "failed"
      BY DEF SettledIsPaid
    <2>2. /\ final[r] = paidBy[key[r]]
          /\ attempts[r] # <<>>
          /\ attempts[r][Len(attempts[r])]
                = [provider |-> final[r], outcome |-> "success"]
          /\ \A i \in DOMAIN attempts[r] :
                i # Len(attempts[r]) => attempts[r][i].outcome = "failed"
      BY <2>1 DEF IInv, Settled, LastIs
    <2>3. attempts[r][Len(attempts[r])].outcome = "success"
      BY <2>2
    <2>4. QED
      BY <2>2, <2>3
  <1>2. QED
    BY <1>1, Inductive, PTL

(* Only a crash or an answered error leaves a payment pending.             *)
THEOREM PendingIsExplainedHolds == Spec => []PendingIsExplained
  <1>1. IInv => PendingIsExplained
    BY DEF IInv
  <1>2. QED
    BY <1>1, Inductive, PTL

-----------------------------------------------------------------------------
(* Each step of the endpoint is a step of IdempotentPayment or none.       *)
LEMMA RefinementStep ==
    ASSUME IInv, [Next]_vars
    PROVE  [Promise!Next]_(Promise!vars)
  <1> USE DEF Goto, requestVars, chainVars, Promise!vars
  <1>1. ASSUME NEW r \in Requests, CreateOrFetch(r)
        PROVE  [Promise!Next]_(Promise!vars)
    <2> USE <1>1 DEF Promise!Next, IInv, TypeOK, RowByPlace, BeforeRow,
                     AnswerByPlace
    <2>1. ASSUME NEW k \in Keys, AcquireLock(r, k) \/ MissLock(r, k)
          PROVE  Promise!Arrive(r, k)
      BY <2>1 DEF AcquireLock, MissLock, Promise!Arrive
    <2>2. ASSUME PollHit(r) \/ FetchExisting(r)
          PROVE  \E p \in Requests : Promise!Answer(r, p)
      BY <2>2 DEF PollHit, FetchExisting, AnswerWith, Rows, Promise!Answer,
                  Promise!Said, Promise!Opened
    <2>3. ASSUME PollDeadline(r) \/ DropLockOnFault(r)
          PROVE  Promise!Error(r)
      BY <2>3 DEF PollDeadline, DropLockOnFault, Promise!Error, Error
    <2>4. ASSUME InsertRow(r)
          PROVE  Promise!Open(r)
      BY <2>4 DEF InsertRow, Rows, Promise!Open, Promise!Opened
    <2>5. ASSUME InsertConflict(r) \/ DropLockOnConflict(r)
          PROVE  UNCHANGED Promise!vars
      BY <2>5 DEF InsertConflict, DropLockOnConflict
    <2>6. QED
      BY <2>1, <2>2, <2>3, <2>4, <2>5 DEF CreateOrFetch
  <1>2. ASSUME NEW r \in Requests, Settle(r)
        PROVE  [Promise!Next]_(Promise!vars)
    <2>1. ASSUME Finalize(r)
          PROVE  \E s \in {"settled", "failed"} : Promise!Resolve(r, s)
      BY <2>1 DEF IInv, RowByPlace, BeforeResolve, Finalize, StatusAfter, Promise!Resolve
    <2>2. ASSUME Reread(r)
          PROVE  Promise!Answer(r, r)
      BY <2>2 DEF IInv, RowByPlace, AnswerByPlace, Reread, AnswerWith,
                  Promise!Answer, Promise!Said, Promise!Opened
    <2>3. CASE ~ Finalize(r) /\ ~ Reread(r)
      BY <1>2, <2>3 DEF Settle, Route, AfterRoute, SkipCandidate, StartAttempt,
         Exhausted, CallSettle, SettleReturns, FinishAttempt, ReleaseLock
    <2>4. QED
      BY <2>1, <2>2, <2>3 DEF Promise!Next
  <1>3. ASSUME NEW r \in Requests, Fault(r)
        PROVE  [Promise!Next]_(Promise!vars)
    <2>1. ASSUME InsertFault(r)
          PROVE  Promise!Open(r) \/ UNCHANGED Promise!vars
      BY <2>1 DEF IInv, RowByPlace, InsertFault, Rows, Promise!Open,
                  Promise!Opened
    <2>2. ASSUME PipelineFault(r) \/ LastCallFault(r)
          PROVE  Promise!Error(r)
      BY <2>2 DEF IInv, RowByPlace, PipelineFault, LastCallFault, Error,
                  Promise!Error
    <2>3. ASSUME Crash(r)
          PROVE  UNCHANGED Promise!vars
      BY <2>3 DEF Crash
    <2>4. QED
      BY <1>3, <2>1, <2>2, <2>3 DEF Fault, Promise!Next
  <1>4. ASSUME NEW r \in Requests, NEW p \in Providers, Land(r, p)
        PROVE  UNCHANGED Promise!vars
    BY <1>4 DEF Land
  <1>5. ASSUME NEW k \in Keys, LockExpires(k)
        PROVE  UNCHANGED Promise!vars
    BY <1>5 DEF LockExpires
  <1>6. CASE UNCHANGED vars
    BY <1>6 DEF vars
  <1>7. QED
    BY <1>1, <1>2, <1>3, <1>4, <1>5, <1>6 DEF Next

(* The settle endpoint implements its abstract promise, for any number of  *)
(* requests, keys and providers.                                           *)
THEOREM Refinement == Spec => Implements
  <1>1. Init => Promise!Init
    BY DEF Init, Promise!Init
  <1>2. IInv /\ [Next]_vars => [Promise!Next]_(Promise!vars)
    BY RefinementStep
  <1>3. QED
    BY <1>1, <1>2, Inductive, PTL DEF Spec, Implements, Promise!Spec

(* What IdempotentPayment_proofs proves of the promise, said of this one.   *)
Kept == INSTANCE IdempotentPayment_proofs WITH Candid <- TRUE

LEMMA PromiseIsKept == Promise!Spec => []Promise!OneOutcome
  <1>1. Promise!Init => Kept!Init
    BY DEF Promise!Init, Kept!Init
  <1>2. [Promise!Next]_(Promise!vars) => [Kept!Next]_(Kept!vars)
    BY DEF Promise!vars, Kept!vars, Promise!Next, Kept!Next, Promise!Arrive, Kept!Arrive,
       Promise!Open, Kept!Open, Promise!Opened, Kept!Opened, Promise!Resolve,
       Kept!Resolve, Promise!Answer, Kept!Answer, Promise!Said, Kept!Said, Promise!Error, Kept!Error
  <1>3. Kept!OneOutcome => Promise!OneOutcome
    BY DEF Promise!OneOutcome, Kept!OneOutcome, Promise!Told, Kept!Told
  <1> QED BY <1>1, <1>2, <1>3, Kept!OneOutcomeHolds, PTL DEF Promise!Spec, Kept!Spec

(* No two callers of one key are told of different payments, or of         *)
(* different outcomes.                                                     *)
THEOREM OneOutcomePerKey == Spec => []Promise!OneOutcome
  BY Refinement, PromiseIsKept, PTL DEF Implements
=============================================================================
