---------------------------- MODULE RefundWorker ----------------------------
(***************************************************************************)
(* apps/proxy/src/refund-worker.ts: every five minutes a tick drains the   *)
(* pending rows of swap_refunds and then of refunds_pending. A row is      *)
(* claimed with SELECT .. FOR UPDATE SKIP LOCKED, the transfer is made on  *)
(* chain, and its outcome written, all in one transaction whose row lock   *)
(* is what keeps two workers apart: it lasts as long as the connection.    *)
(*                                                                         *)
(* How rows come about is left to their producers. A transfer that was     *)
(* sent may land, fail on chain, or stay in flight, whatever its sender    *)
(* was told.                                                               *)
(***************************************************************************)
EXTENDS Integers, Sequences, FiniteSets

CONSTANTS
    Rows,        \* the refund obligations ever recorded
    SwapRows,    \* those in swap_refunds; the others are in refunds_pending
    ChainOf,     \* each row's network: "base", "solana", or "none" wired
    Workers,     \* proxy processes, each with one refund worker
    MaxRetries,  \* the worker's maxRetries
    BatchLimit,  \* the worker's batchLimit
    MaxFaults,   \* faults in all: bounds the behaviours
    None         \* no row

ASSUME RowAssumption ==
    /\ SwapRows \subseteq Rows
    /\ ChainOf \in [Rows -> {"base", "solana", "none"}]
    /\ None \notin Rows
ASSUME WorkerAssumption == IsFiniteSet(Workers)
ASSUME BoundAssumption ==
    /\ MaxRetries \in Nat \ {0}
    /\ BatchLimit \in Nat \ {0}
    /\ MaxFaults \in Nat

VARIABLES
    queue,      \* the rows recorded, by created_at
    status,     \* status of each row; "none" before it is recorded
    retries,    \* retry_count of each row
    transfers,  \* the transfers sent for each row, by what became of them
    at,         \* where each worker is
    table,      \* the table it drains
    touched,    \* touchedIds: the rows it has been through in this drain
    row,        \* the row it has claimed
    held,       \* whether its connection still holds that row's lock
    sent,       \* which of the row's transfers is its own
    result,     \* what the transfer call came to
    faults      \* the faults so far

rowVars == <<queue, status, retries>>
workVars == <<at, table, touched, row, held, sent, result>>
refundVars == <<rowVars, transfers, workVars, faults>>

-----------------------------------------------------------------------------
RefundInit ==
    /\ queue = <<>>
    /\ status = [d \in Rows |-> "none"]
    /\ retries = [d \in Rows |-> 0]
    /\ transfers = [d \in Rows |-> <<>>]
    /\ at = [w \in Workers |-> "idle"]
    /\ table = [w \in Workers |-> "swap"]
    /\ touched = [w \in Workers |-> {}]
    /\ row = [w \in Workers |-> None]
    /\ held = [w \in Workers |-> FALSE]
    /\ sent = [w \in Workers |-> 0]
    /\ result = [w \in Workers |-> "none"]
    /\ faults = 0

(* A producer's INSERT.                                                    *)
AddRow(d) ==
    /\ status[d] = "none"
    /\ status' = [status EXCEPT ![d] = "pending"]
    /\ queue' = Append(queue, d)
    /\ UNCHANGED retries

Faulty == faults < MaxFaults /\ faults' = faults + 1

RowsIn(t) == IF t = "swap" THEN SwapRows ELSE Rows \ SwapRows

Locked == {row[w] : w \in {v \in Workers : held[v]}}

(* Mutants: the claim takes locked rows; rows of this tick are claimed     *)
(* again.                                                                  *)
ClaimableLocked(w) ==
    {d \in RowsIn(table[w]) \ touched[w] :
        status[d] = "pending" /\ retries[d] < MaxRetries}
ClaimableAgain(w) ==
    {d \in RowsIn(table[w]) \ Locked :
        status[d] = "pending" /\ retries[d] < MaxRetries}

Claimable(w) ==
    {d \in RowsIn(table[w]) \ (touched[w] \union Locked) :
        status[d] = "pending" /\ retries[d] < MaxRetries}

(* The worker leaves the row it had, if any, and its transaction.          *)
LetGo(w) ==
    /\ row' = [row EXCEPT ![w] = None]
    /\ held' = [held EXCEPT ![w] = FALSE]
    /\ sent' = [sent EXCEPT ![w] = 0]
    /\ result' = [result EXCEPT ![w] = "none"]

(* drainTable returns: on to the next table, or the end of the tick.       *)
EndDrain(w) ==
    /\ at' = [at EXCEPT ![w] = IF table[w] = "swap" THEN "drain" ELSE "idle"]
    /\ table' = [table EXCEPT ![w] = "pending"]
    /\ touched' = [touched EXCEPT ![w] = {}]
    /\ LetGo(w)

-----------------------------------------------------------------------------
(* The timer fires and the previous tick is over.                          *)
Tick(w) ==
    /\ at[w] = "idle"
    /\ at' = [at EXCEPT ![w] = "drain"]
    /\ table' = [table EXCEPT ![w] = "swap"]
    /\ UNCHANGED <<rowVars, transfers, touched, row, held, sent, result, faults>>

(* BEGIN; SELECT .. ORDER BY created_at FOR UPDATE SKIP LOCKED LIMIT 1.    *)
Claim(w) ==
    /\ at[w] = "drain"
    /\ Cardinality(touched[w]) < BatchLimit
    /\ at' = [at EXCEPT ![w] = "send"]
    /\ \E i \in DOMAIN queue :
        /\ queue[i] \in Claimable(w)
        /\ \A j \in 1 .. i - 1 : queue[j] \notin Claimable(w)
        /\ row' = [row EXCEPT ![w] = queue[i]]
    /\ held' = [held EXCEPT ![w] = TRUE]
    /\ UNCHANGED <<rowVars, transfers, table, touched, sent, result, faults>>

NoneLeft(w) ==
    /\ at[w] = "drain"
    /\ Claimable(w) = {} \/ Cardinality(touched[w]) >= BatchLimit
    /\ EndDrain(w)
    /\ UNCHANGED <<rowVars, transfers, faults>>

Report(w, res) ==
    /\ at' = [at EXCEPT ![w] = "record"]
    /\ result' = [result EXCEPT ![w] = res]

(* No signer for the network, or the call throws before anything is sent.  *)
SendNothing(w) ==
    /\ at[w] = "send"
    /\ Report(w, IF ChainOf[row[w]] = "none" THEN "skip" ELSE "error")
    /\ UNCHANGED <<rowVars, transfers, table, touched, row, held, sent, faults>>

Send(w) ==
    /\ at[w] = "send"
    /\ ChainOf[row[w]] # "none"
    /\ at' = [at EXCEPT ![w] = "wait"]
    /\ transfers' = [transfers EXCEPT ![row[w]] = Append(@, "flying")]
    /\ sent' = [sent EXCEPT ![w] = Len(transfers[row[w]]) + 1]
    /\ UNCHANGED <<rowVars, table, touched, row, held, result, faults>>

(* Mutant: the receipt's status is not looked at.                           *)
ConfirmsAnyReceipt(d, t) == t # "flying"

(* What counts as confirmed: transferERC20 looks at the receipt's status,  *)
(* transferOutput takes any confirmed transaction, failed ones included.   *)
Confirms(d, t) == IF ChainOf[d] = "base" THEN t = "landed" ELSE t # "flying"

(* The transfer call returns once it is confirmed, or throws: a timeout or *)
(* an RPC error says nothing of the transfer.                              *)
SendReturns(w) ==
    /\ at[w] = "wait"
    /\ \E res \in {"ok", "error"} :
        /\ res = "ok" => Confirms(row[w], transfers[row[w]][sent[w]])
        /\ Report(w, res)
    /\ UNCHANGED <<rowVars, transfers, table, touched, row, held, sent, faults>>

(* The UPDATE that goes with the result. A skipped row's has no effect on  *)
(* what is claimed.                                                        *)
Write(w) ==
    /\ status' = [status EXCEPT ![row[w]] =
           IF result[w] = "ok" THEN "refunded" ELSE @]
    /\ retries' = [retries EXCEPT ![row[w]] =
           IF result[w] = "error" THEN @ + 1 ELSE @]
    /\ UNCHANGED queue

Record(w) ==
    /\ at[w] = "record"
    /\ held[w]
    /\ Write(w)
    /\ at' = [at EXCEPT ![w] = "drain"]
    /\ touched' = [touched EXCEPT ![w] = @ \union {row[w]}]
    /\ LetGo(w)
    /\ UNCHANGED <<transfers, table, faults>>

(* The connection is gone and the row lock with it: the UPDATE throws, the *)
(* catch block rolls back and the drain is over.                           *)
RecordInVain(w) ==
    /\ at[w] = "record"
    /\ ~held[w]
    /\ EndDrain(w)
    /\ UNCHANGED <<rowVars, transfers, faults>>

-----------------------------------------------------------------------------
(* A query throws: before the claim, or at the outcome, where the COMMIT   *)
(* may have gone through with its reply lost.                              *)
QueryFault(w) ==
    /\ \/ at[w] = "drain" /\ UNCHANGED rowVars
       \/ at[w] = "record" /\ held[w] /\ (Write(w) \/ UNCHANGED rowVars)
    /\ EndDrain(w)
    /\ Faulty
    /\ UNCHANGED transfers

(* The connection drops while the worker is waiting for the chain.         *)
LoseConnection(w) ==
    /\ held[w]
    /\ held' = [held EXCEPT ![w] = FALSE]
    /\ Faulty
    /\ UNCHANGED <<rowVars, transfers, at, table, touched, row, sent, result>>

(* The process dies; a new one ticks on.                                   *)
Crash(w) ==
    /\ at[w] # "idle"
    /\ at' = [at EXCEPT ![w] = "idle"]
    /\ touched' = [touched EXCEPT ![w] = {}]
    /\ LetGo(w)
    /\ Faulty
    /\ UNCHANGED <<rowVars, transfers, table>>

(* A transfer lands, or fails on chain.                                    *)
Settles(d) ==
    /\ \E i \in DOMAIN transfers[d], end \in {"landed", "reverted"} :
        /\ transfers[d][i] = "flying"
        /\ transfers' = [transfers EXCEPT ![d][i] = end]
    /\ UNCHANGED <<rowVars, workVars, faults>>

-----------------------------------------------------------------------------
Work(w) ==
    \/ Tick(w) \/ Claim(w) \/ NoneLeft(w)
    \/ SendNothing(w) \/ Send(w) \/ SendReturns(w)
    \/ Record(w) \/ RecordInVain(w)

Fault(w) == QueryFault(w) \/ LoseConnection(w) \/ Crash(w)

Drain ==
    \/ \E w \in Workers : Work(w) \/ Fault(w)
    \/ \E d \in Rows : Settles(d)

Produce(d) == AddRow(d) /\ UNCHANGED <<transfers, workVars, faults>>

RefundNext == Drain \/ \E d \in Rows : Produce(d)

(* Each worker's timer and the awaits of its ticks go on: every call to a  *)
(* chain or to Postgres returns. Nothing is asked of the chain.            *)
RefundSpec ==
    /\ RefundInit /\ [][RefundNext]_refundVars
    /\ \A w \in Workers : WF_refundVars(Work(w))

-----------------------------------------------------------------------------
RefundTypeOK ==
    /\ queue \in Seq(Rows)
    /\ status \in [Rows -> {"none", "pending", "refunded"}]
    /\ retries \in [Rows -> 0..MaxRetries]
    /\ transfers \in [Rows -> Seq({"flying", "landed", "reverted"})]
    /\ at \in [Workers -> {"idle", "drain", "send", "wait", "record"}]
    /\ table \in [Workers -> {"swap", "pending"}]
    /\ touched \in [Workers -> SUBSET Rows]
    /\ row \in [Workers -> Rows \union {None}]
    /\ held \in [Workers -> BOOLEAN]
    /\ sent \in [Workers -> Nat]
    /\ result \in [Workers -> {"none", "ok", "error", "skip"}]
    /\ faults \in 0..MaxFaults

(* A refund on file as refunded was sent; on Base the buyer has the money. *)
(* (On Solana the transaction was confirmed, but may have failed.)         *)
RefundedWasSent ==
    \A d \in Rows : status[d] = "refunded" =>
        \E i \in DOMAIN transfers[d] :
            \/ transfers[d][i] = "landed"
            \/ transfers[d][i] = "reverted" /\ ChainOf[d] = "solana"

(* However many workers and ticks there are, a row is not sent again but   *)
(* for a try on file as failed or for a fault that lost the try's outcome: *)
(* the row lock held across the broadcast keeps everyone else out.         *)
SentOncePerTry ==
    \A d \in Rows : Len(transfers[d]) <= retries[d] + faults + 1

(* The rows that keep d waiting: without a signer for their network they   *)
(* are skipped at every tick, and stay.                                    *)
Unpayable(d) ==
    {e \in Rows :
        /\ e \in SwapRows <=> d \in SwapRows
        /\ status[e] = "pending" /\ ChainOf[e] = "none"}

Ends(d) == status[d] = "refunded" \/ retries[d] = MaxRetries

(* Every refund on a network that is wired is made or given up, whatever   *)
(* crashes, failures and other workers come by, while the unpayable rows   *)
(* of its table do not fill a batch.                                       *)
EveryRefundEnds ==
    \A d \in Rows :
        status[d] = "pending" /\ ChainOf[d] # "none"
            ~> Ends(d) \/ Cardinality(Unpayable(d)) >= BatchLimit

(* index.ts: rows on networks without a signer are skipped, so the worker  *)
(* is safe to enable with one chain configured. A batch full of them at    *)
(* the head of the queue is claimed again at every tick.                   *)
SkippedRowsDoNoHarm ==
    \A d \in Rows : status[d] = "pending" /\ ChainOf[d] # "none" ~> Ends(d)
=============================================================================
