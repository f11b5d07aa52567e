---------------------- MODULE IdempotentPayment_proofs ----------------------
(* What follows from the promise of IdempotentPayment, for whatever keeps  *)
(* it: callers of one key are told of one payment, and of one outcome.     *)
EXTENDS IdempotentPayment, TLAPS

Shape ==
    /\ DOMAIN key = Requests
    /\ status \in [Requests -> {"none", "pending", "settled", "failed"}]
    /\ DOMAIN answer = Requests

KeyFirst == \A r \in Requests : key[r] = None => status[r] = "none"

OneOpened ==
    \A p, q \in Requests :
        key[p] = key[q] /\ status[p] # "none" /\ status[q] # "none" => p = q

(* Whoever is told of a payment is told of the one of its key, and its     *)
(* outcome, once told, stands.                                             *)
ToldIsOpened ==
    \A r \in Requests : Told(r) =>
        /\ answer[r].payment \in Opened(key[r])
        /\ \/ answer[r].status \in {"pending", status[answer[r].payment]}
           \/ ~Candid /\ answer[r].status = "refused"

PromiseInv == Shape /\ KeyFirst /\ OneOpened /\ ToldIsOpened

LEMMA PromiseInductive ==
    ASSUME PromiseInv, [Next]_vars
    PROVE  PromiseInv'
  <1> USE DEF PromiseInv, Shape
  <1>1. ASSUME NEW r \in Requests, NEW k \in Keys, Arrive(r, k)
        PROVE  PromiseInv'
    <2>1. status[r] = "none" /\ ~ Told(r)
      BY <1>1 DEF Arrive, KeyFirst, ToldIsOpened, Opened
    <2> QED BY <1>1, <2>1 DEF Arrive, KeyFirst, OneOpened, ToldIsOpened, Opened, Told
  <1>2. ASSUME NEW r \in Requests, Open(r)
        PROVE  PromiseInv'
    BY <1>2 DEF Open, KeyFirst, OneOpened, ToldIsOpened, Opened, Told
  <1>3. ASSUME NEW r \in Requests, NEW s \in {"settled", "failed"}, Resolve(r, s)
        PROVE  PromiseInv'
    BY <1>3 DEF Resolve, KeyFirst, OneOpened, ToldIsOpened, Opened, Told
  <1>4. ASSUME NEW r \in Requests, NEW p \in Requests, Answer(r, p)
        PROVE  PromiseInv'
    BY <1>4 DEF Answer, Said, KeyFirst, OneOpened, ToldIsOpened, Opened, Told
  <1>5. ASSUME NEW r \in Requests, Error(r)
        PROVE  PromiseInv'
    BY <1>5 DEF Error, KeyFirst, OneOpened, ToldIsOpened, Opened, Told
  <1>6. CASE UNCHANGED vars
    BY <1>6 DEF vars, KeyFirst, OneOpened, ToldIsOpened, Opened, Told
  <1> QED BY <1>1, <1>2, <1>3, <1>4, <1>5, <1>6 DEF Next

LEMMA Inductive == Spec => []PromiseInv
  <1>1. Init => PromiseInv
    BY DEF Init, PromiseInv, Shape, KeyFirst, OneOpened, ToldIsOpened, Told
  <1> QED BY <1>1, PromiseInductive, PTL DEF Spec

(* Callers of one key are told of one payment and, of a candid endpoint,   *)
(* one outcome.                                                            *)
THEOREM OneOutcomeHolds == Spec => []OneOutcome
  <1>1. PromiseInv => OneOutcome
    BY DEF PromiseInv, OneOpened, ToldIsOpened, Opened, OneOutcome
  <1> QED BY <1>1, Inductive, PTL

(* Once one of them is told of a settlement, the others are told of it too.*)
THEOREM SuccessIsKeptHolds == Spec => [][SuccessIsKept]_vars
  <1>1. ASSUME PromiseInv, [Next]_vars
        PROVE  [SuccessIsKept]_vars
    <2> SUFFICES ASSUME NEW p \in Requests, NEW q \in Requests,
                        Told(p), answer[p].status = "settled", key[q] = key[p],
                        answer'[q] # answer[q]
                 PROVE  answer'[q].status \in {"settled", "error"}
      BY DEF SuccessIsKept
    <2>1. /\ status[answer[p].payment] = "settled"
          /\ answer[p].payment \in Opened(key[q])
      BY <1>1 DEF PromiseInv, ToldIsOpened
    <2>2. ASSUME NEW r \in Requests, NEW x \in Requests, Answer(r, x)
          PROVE  answer'[q].status \in {"settled", "error"}
      <3>1. r = q /\ answer'[q] = [payment |-> x, status |-> Said(status[x])]
        BY <1>1, <2>2 DEF Answer, PromiseInv, Shape
      <3>2. x = answer[p].payment
        BY <1>1, <2>1, <2>2, <3>1 DEF Answer, PromiseInv, OneOpened, Opened
      <3> QED BY <2>1, <3>1, <3>2 DEF Said
    <2>3. ASSUME NEW r \in Requests, Error(r)
          PROVE  answer'[q].status \in {"settled", "error"}
      BY <1>1, <2>3 DEF Error, PromiseInv, Shape
    <2> QED BY <1>1, <2>2, <2>3 DEF Next, Arrive, Open, Resolve, vars
  <1> QED BY <1>1, Inductive, PTL DEF Spec
=============================================================================
