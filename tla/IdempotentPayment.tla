------------------------- MODULE IdempotentPayment -------------------------
(***************************************************************************)
(* What a settle endpoint promises its callers, with no lock, no polling   *)
(* and no provider in sight: of all the requests that carry one            *)
(* idempotency key at most one opens a payment, only that payment is ever  *)
(* resolved, once, and whoever is answered is told about that payment.     *)
(* A candid endpoint says that a payment is pending; another one says of   *)
(* whatever is not settled that it is refused.                             *)
(***************************************************************************)
CONSTANTS Requests, Keys, None, Candid

VARIABLES
    key,     \* the idempotency key each request carries, None before it arrives
    status,  \* the payment row each request opened, by status
    answer   \* what each request was told: a payment and its status, or an error

vars == <<key, status, answer>>

Opened(k) == {r \in Requests : key[r] = k /\ status[r] # "none"}

Init ==
    /\ key = [r \in Requests |-> None]
    /\ status = [r \in Requests |-> "none"]
    /\ answer = [r \in Requests |-> None]

Arrive(r, k) ==
    /\ key[r] = None
    /\ key' = [key EXCEPT ![r] = k]
    /\ UNCHANGED <<status, answer>>

Open(r) ==
    /\ key[r] # None
    /\ Opened(key[r]) = {}
    /\ status' = [status EXCEPT ![r] = "pending"]
    /\ UNCHANGED <<key, answer>>

Resolve(r, s) ==
    /\ status[r] = "pending"
    /\ status' = [status EXCEPT ![r] = s]
    /\ UNCHANGED <<key, answer>>

Said(s) == IF Candid \/ s = "settled" THEN s ELSE "refused"

(* A request is answered with the one payment of its key, as it stands.    *)
Answer(r, p) ==
    /\ answer[r] = None
    /\ p \in Opened(key[r])
    /\ answer' = [answer EXCEPT ![r] = [payment |-> p, status |-> Said(status[p])]]
    /\ UNCHANGED <<key, status>>

(* An error may replace the answer: the payment goes on without it.        *)
Error(r) ==
    /\ key[r] # None
    /\ answer' = [answer EXCEPT ![r] = [payment |-> None, status |-> "error"]]
    /\ UNCHANGED <<key, status>>

Next ==
    \E r \in Requests :
        \/ \E k \in Keys : Arrive(r, k)
        \/ Open(r)
        \/ \E s \in {"settled", "failed"} : Resolve(r, s)
        \/ \E p \in Requests : Answer(r, p)
        \/ Error(r)

Spec == Init /\ [][Next]_vars

Told(r) == answer[r] # None /\ answer[r].status # "error"

(* Two callers of one key are told of one payment, and never of two        *)
(* different outcomes of it; but an endpoint that is not candid may refuse *)
(* one of them while the payment is pending that it tells the other of.    *)
OneOutcome ==
    \A p, q \in Requests : key[p] = key[q] /\ Told(p) /\ Told(q) =>
        /\ answer[p].payment = answer[q].payment
        /\ \/ answer[p].status = answer[q].status
           \/ "pending" \in {answer[p].status, answer[q].status}
           \/ ~Candid /\ "refused" \in {answer[p].status, answer[q].status}

(* Whichever it is: once a caller was told of a settlement, no caller of   *)
(* the key is told of anything else from then on, but for an error.        *)
SuccessIsKept ==
    \A p, q \in Requests :
        /\ Told(p) /\ answer[p].status = "settled"
        /\ key[q] = key[p]
        /\ answer'[q] # answer[q]
        => answer'[q].status \in {"settled", "error"}
=============================================================================
