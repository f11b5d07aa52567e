------------------------------ MODULE MppCharge ------------------------------
(***************************************************************************)
(* apps/api/src/routes/mpp.ts: POST /mpp/charge with a credential. The     *)
(* client has made the transfer itself; the gateway reads its receipt      *)
(* twice (verifyCredential, settleCredential of packages/adapters/mpp) and *)
(* files a payment under the Idempotency-Key. The row is made by the same  *)
(* createOrFetchPayment, in the same table, as those of POST /settle: the  *)
(* ledger is taken at its word here, which is IdempotentPayment.           *)
(***************************************************************************)
CONSTANTS
    Requests,
    Charges,    \* the requests to POST /mpp/charge; the others are settles
    Keys,
    Hashes,     \* transfers, as clients name them
    None

ASSUME ChargeAssumption ==
    /\ Charges \subseteq Requests
    /\ None \notin Requests /\ None \notin Keys /\ None \notin Hashes

VARIABLES
    key, status, answer,   \* the ledger's; an error for a reply without ok
    place,     \* where each charge is
    hash,      \* the transfer its credential names
    filed,     \* tx_hash of the row it inserted
    mined      \* the transfers whose receipt shows what was asked for

mppVars == <<key, status, answer, place, hash, filed, mined>>

Ledger == INSTANCE IdempotentPayment WITH
    key <- key, status <- status, answer <- answer,
    Requests <- Requests, Keys <- Keys, None <- None, Candid <- TRUE

MppInit ==
    /\ Ledger!Init
    /\ place = [r \in Requests |-> "idle"]
    /\ hash = [r \in Requests |-> None]
    /\ filed = [r \in Requests |-> None]
    /\ mined = {}

Goes(r, from, to) ==
    /\ place[r] = from
    /\ place' = [place EXCEPT ![r] = to]

MppArrive(r) ==
    /\ \E k \in Keys : Ledger!Arrive(r, k)
    /\ \E h \in Hashes : hash' = [hash EXCEPT ![r] = h]
    /\ Goes(r, "idle", "verify")
    /\ UNCHANGED <<filed, mined>>

(* Mutant: a receipt that is not there yet is taken for one.               *)
VerifiedUnseen(r) == TRUE

Verified(r) == hash[r] \in mined

(* verifyTempoModeratoHash, for the verification and for the settlement:   *)
(* no receipt, a transfer that does not match, or an RPC error end it.     *)
ReadReceipt(r) ==
    /\ \/ /\ Verified(r)
          /\ Goes(r, "verify", "settle") \/ Goes(r, "settle", "create")
          /\ UNCHANGED <<key, status, answer>>
       \/ /\ Goes(r, "verify", "done") \/ Goes(r, "settle", "done")
          /\ Ledger!Error(r)
    /\ UNCHANGED <<hash, filed, mined>>

(* createOrFetchPayment, whose INSERT may be made and its reply lost; a    *)
(* fetched row is answered with ok, whatever it says.                      *)
MppCreate(r) ==
    /\ \/ Ledger!Open(r) /\ Goes(r, "create", "finalize")
       \/ Ledger!Open(r) /\ Goes(r, "create", "lost")
       \/ \E p \in Requests : Ledger!Answer(r, p) /\ Goes(r, "create", "done")
    /\ UNCHANGED <<hash, filed, mined>>

(* finalizePayment by payment id, releaseLock, the reply.                  *)
MppFinalize(r) ==
    /\ Goes(r, "finalize", "reply")
    /\ Ledger!Resolve(r, "settled")
    /\ filed' = [filed EXCEPT ![r] = hash[r]]
    /\ UNCHANGED <<hash, mined>>

MppReply(r) ==
    /\ Goes(r, "reply", "done")
    /\ Ledger!Answer(r, r)
    /\ UNCHANGED <<hash, filed, mined>>

(* A query throws, or the waiter's five seconds are over.                  *)
MppFault(r) ==
    /\ \E from \in {"create", "lost", "finalize", "reply"} : Goes(r, from, "done")
    /\ Ledger!Error(r)
    /\ UNCHANGED <<hash, filed, mined>>

MppCrash(r) ==
    /\ place[r] \notin {"idle", "done", "dead"}
    /\ place' = [place EXCEPT ![r] = "dead"]
    /\ UNCHANGED <<key, status, answer, hash, filed, mined>>

(* POST /settle on the same table.                                         *)
MppOthers(r) ==
    /\ \/ \E k \in Keys : Ledger!Arrive(r, k)
       \/ Ledger!Open(r)
       \/ \E s \in {"settled", "failed"} : Ledger!Resolve(r, s)
    /\ UNCHANGED <<place, hash, filed, mined>>

Mine(h) ==
    /\ h \notin mined
    /\ mined' = mined \union {h}
    /\ UNCHANGED <<key, status, answer, place, hash, filed>>

MppNext ==
    \/ \E r \in Charges :
        \/ MppArrive(r) \/ ReadReceipt(r) \/ MppCreate(r) \/ MppFinalize(r)
        \/ MppReply(r) \/ MppFault(r) \/ MppCrash(r)
    \/ \E r \in Requests \ Charges : MppOthers(r)
    \/ \E h \in Hashes : Mine(h)

MppSpec == MppInit /\ [][MppNext]_mppVars

-----------------------------------------------------------------------------
MppTypeOK ==
    /\ key \in [Requests -> Keys \union {None}]
    /\ status \in [Requests -> {"none", "pending", "settled", "failed"}]
    /\ place \in [Requests -> {"idle", "verify", "settle", "create",
                               "lost", "finalize", "reply", "done", "dead"}]
    /\ hash \in [Requests -> Hashes \union {None}]
    /\ filed \in [Requests -> Hashes \union {None}]
    /\ mined \subseteq Hashes

(* A charge that is answered with ok has paid, and what it is told of is   *)
(* the payment of its key: settled with a transfer that was made; pending, *)
(* under a request that has yet to finalize it, failed at that or died; or *)
(* not a charge at all, but a settlement under the same key.               *)
OkIsPaid ==
    \A r \in Charges : answer[r] # None /\ answer[r].status # "error" =>
        LET p == answer[r].payment
        IN  /\ hash[r] \in mined
            /\ key[p] = key[r]
            /\ \/ p \notin Charges
               \/ status[p] = "settled" /\ filed[p] \in mined
               \/ status[p] = "pending" /\ (place[p] = "done" => answer[p].status = "error")
=============================================================================
