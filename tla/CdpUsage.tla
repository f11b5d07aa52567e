------------------------------- MODULE CdpUsage -------------------------------
(***************************************************************************)
(* packages/adapters/coinbase-cdp/src/adapter.ts with the Redis counter of *)
(* services/orchestrator/src/redis-usage-tracker.ts: supports() refuses a  *)
(* payment once the month's counter has reached the cap, settle() counts   *)
(* it after it was made. The orchestrator asks supports() before it calls  *)
(* settle(); the facilitator does not.                                     *)
(*                                                                         *)
(* settle() with an idempotency key tries its POST again after a retryable *)
(* error (provider-sdk). A POST may be carried out although it failed, and *)
(* the chain consumes a payment's authorization once.                      *)
(***************************************************************************)
EXTENDS Integers, FiniteSets

CONSTANTS
    Settles,     \* settlements that reach the adapter
    Direct,      \* those of the facilitator
    Cap,         \* monthlyHardCap
    MaxTries,    \* retry.maxAttempts
    LastMonth    \* the last month: bounds the behaviours

ASSUME UsageAssumption ==
    /\ IsFiniteSet(Settles)
    /\ Direct \subseteq Settles
    /\ {Cap, MaxTries} \subseteq Nat \ {0}
    /\ LastMonth \in Nat

VARIABLES
    month,       \* the current UTC month
    used,        \* the counter of each month
    at,          \* where each settlement is
    tries,       \* its POSTs
    made,        \* the month it was carried out in, or -1
    told,        \* what settle() or supports() answered
    peak         \* history: the most routed settlements ever in flight

cdpVars == <<month, used, at, tries, made, told, peak>>

Months == 0 .. LastMonth

InFlight == {s \in Settles \ Direct : at[s] \in {"sign", "post", "count"}}

CdpInit ==
    /\ month = 0
    /\ used = [m \in Months |-> 0]
    /\ at = [s \in Settles |-> "idle"]
    /\ tries = [s \in Settles |-> 0]
    /\ made = [s \in Settles |-> -1]
    /\ told = [s \in Settles |-> "none"]
    /\ peak = 0

NextMonth ==
    /\ month < LastMonth
    /\ month' = month + 1
    /\ UNCHANGED <<used, at, tries, made, told, peak>>

Ends(s, from, answer) ==
    /\ at[s] = from
    /\ at' = [at EXCEPT ![s] = "done"]
    /\ told' = [told EXCEPT ![s] = answer]

Moves(s, from, to) ==
    /\ at[s] = from
    /\ at' = [at EXCEPT ![s] = to]
    /\ UNCHANGED told

(* Mutant: the cap is passed when the counter is above it.                 *)
HasQuotaAtCap(s) == used[month] <= Cap

HasQuota(s) == used[month] < Cap

supports(s) ==
    /\ s \notin Direct
    /\ \/ HasQuota(s) /\ Moves(s, "idle", "sign")
       \/ ~HasQuota(s) /\ Ends(s, "idle", "quota_exceeded")
    /\ peak' = IF Cardinality(InFlight') > peak THEN peak + 1 ELSE peak
    /\ UNCHANGED <<month, used, tries, made>>

Arrive(s) ==
    /\ s \in Direct
    /\ Moves(s, "idle", "sign")
    /\ UNCHANGED <<month, used, tries, made, peak>>

(* The JWT is signed once for all tries.                                   *)
Sign(s) ==
    /\ Moves(s, "sign", "post") \/ Ends(s, "sign", "error")
    /\ UNCHANGED <<month, used, tries, made, peak>>

(* CDP carries out a POST of s, once whatever is sent, perhaps after s has *)
(* given it up.                                                            *)
Make(s) ==
    /\ tries[s] > 0 \/ at[s] = "post"
    /\ made[s] = -1
    /\ made' = [made EXCEPT ![s] = month]
    /\ UNCHANGED <<month, used, at, tries, told, peak>>

(* httpJson: a success, a refusal or malformed body, a retryable error.    *)
Post(s) ==
    /\ tries' = [tries EXCEPT ![s] = @ + 1]
    /\ \/ made[s] # -1 /\ Moves(s, "post", "count")
       \/ Ends(s, "post", "error")
       \/ tries'[s] < MaxTries /\ Moves(s, "post", "post")
    /\ UNCHANGED <<month, used, made, peak>>

(* usageTracker.increment of the month it is by then; a Redis error makes  *)
(* settle() throw although the payment was made.                           *)
Increment(s) ==
    /\ Ends(s, "count", "settled") \/ Ends(s, "count", "error")
    /\ \/ used' = [used EXCEPT ![month] = @ + 1]
       \/ told'[s] = "error" /\ UNCHANGED used
    /\ UNCHANGED <<month, tries, made, peak>>

CdpNext ==
    \/ NextMonth
    \/ \E s \in Settles :
        supports(s) \/ Arrive(s) \/ Sign(s) \/ Make(s) \/ Post(s) \/ Increment(s)

CdpSpec == CdpInit /\ [][CdpNext]_cdpVars

-----------------------------------------------------------------------------
CdpTypeOK ==
    /\ month \in Months
    /\ used \in [Months -> Nat]
    /\ at \in [Settles -> {"idle", "sign", "post", "count", "done"}]
    /\ tries \in [Settles -> Nat]
    /\ made \in [Settles -> {-1} \union Months]
    /\ told \in [Settles -> {"none", "settled", "error", "quota_exceeded"}]
    /\ peak \in Nat

(* The cap is checked before a settlement and counted after it, in the     *)
(* month it is by then: what the orchestrator settles in a month exceeds   *)
(* it by what was in flight together, less one, and by what was carried    *)
(* out although settle() threw, and by nothing else. (What the facilitator *)
(* settles uses the cap up and is not refused.)                            *)
CapIsKept ==
    LET routed == Settles \ Direct
    IN  \A m \in Months :
            Cardinality({s \in routed : made[s] = m})
                < Cap + peak + Cardinality({s \in routed : told[s] = "error"})
=============================================================================
