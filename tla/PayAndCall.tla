------------------------------ MODULE PayAndCall ------------------------------
(***************************************************************************)
(* apps/mcp: pay_and_call of the MCP gateway (tools/pay-and-call.ts) and   *)
(* the sessions that hold an agent's key in memory (session.ts). All calls *)
(* here are the same call of one wallet, so that its idempotency key is    *)
(* the hour and what its session lists first, a network and the wallet's   *)
(* address on it. A session is destroyed by its agent, by its expiry or by *)
(* the sweep, at any await of a call that uses it; sessions, calls and     *)
(* results are lost when the process restarts.                             *)
(***************************************************************************)
EXTENDS Integers

CONSTANTS
    Sessions,   \* of one wallet
    First,      \* the network and the address that each lists first
    Calls,      \* pay_and_call invocations
    LastHour    \* bounds the behaviours

ASSUME HourAssumption == LastHour \in Nat
ASSUME SessionAssumption == Sessions # {}

VARIABLES
    hour,       \* the current hour
    session,    \* each is "new", "alive" while it holds its secret, "gone"
    cached,     \* idempotencyCache: the keys with a settled result
    step,       \* where each call is; "lost" if its process has ended
    user,       \* the session it uses
    called,     \* its cacheKey
    signed,     \* calls that have put a signed payment on the wire
    charged,    \* calls whose payment the resource server has settled
    result,     \* what the agent was told
    before      \* history: the calls its process had ended when it began

mcpVars == <<hour, session, cached, step, user, called, signed, charged, result, before>>

(* deriveIdempotencyKey(session.networks[0], its first address, the hour). *)
CacheKey(s) == <<First[s], hour>>

McpInit ==
    /\ hour = 0
    /\ session = [s \in Sessions |-> "new"]
    /\ cached = {}
    /\ step = [c \in Calls |-> "idle"]
    /\ user = [c \in Calls |-> CHOOSE s \in Sessions : TRUE]
    /\ called = [c \in Calls |-> CacheKey(user[c])]
    /\ signed = {}
    /\ charged = {}
    /\ result = [c \in Calls |-> "none"]
    /\ before = [c \in Calls |-> {}]

NextHour ==
    /\ hour < LastHour
    /\ hour' = hour + 1
    /\ UNCHANGED <<session, cached, step, user, called, signed, charged, result, before>>

Create(s) ==
    /\ session[s] = "new"
    /\ session' = [session EXCEPT ![s] = "alive"]
    /\ UNCHANGED <<hour, cached, step, user, called, signed, charged, result, before>>

(* remove(), sweep() and get() of an expired session destroy it alike.     *)
Destroy(s) ==
    /\ session[s] = "alive"
    /\ session' = [session EXCEPT ![s] = "gone"]
    /\ UNCHANGED <<hour, cached, step, user, called, signed, charged, result, before>>

(* The process ends and another one starts: all that it held is lost.      *)
Restart ==
    /\ session' = [s \in Sessions |-> IF session[s] = "alive" THEN "gone" ELSE session[s]]
    /\ cached' = {}
    /\ step' = [c \in Calls |-> IF step[c] = "idle" THEN "idle" ELSE "lost"]
    /\ UNCHANGED <<hour, user, called, signed, charged, result, before>>

To(c, from, to) ==
    /\ step[c] = from
    /\ step' = [step EXCEPT ![c] = to]
    /\ UNCHANGED result

Tell(c, from, r) ==
    /\ step[c] = from
    /\ step' = [step EXCEPT ![c] = "done"]
    /\ result' = [result EXCEPT ![c] = r]

(* loadSession, the cache, and otherwise the first call of the resource.   *)
Begin(c, s) ==
    /\ user' = [user EXCEPT ![c] = s]
    /\ called' = [called EXCEPT ![c] = CacheKey(s)]
    /\ before' = [before EXCEPT ![c] = {d \in Calls : step[d] = "done"}]
    /\ \/ session[s] # "alive" /\ Tell(c, "idle", "error")
       \/ session[s] = "alive" /\ CacheKey(s) \in cached /\ Tell(c, "idle", "replay")
       \/ session[s] = "alive" /\ CacheKey(s) \notin cached /\ To(c, "idle", "probe")
    /\ UNCHANGED <<hour, session, cached, signed, charged>>

(* useSecret copies the key out and signs, or throws.                      *)
UseSecret(c, from) ==
    \/ session[user[c]] = "alive" /\ To(c, from, "sign")
    \/ session[user[c]] # "alive" /\ Tell(c, from, "error")

(* The first answer: free, unreachable or unusable, or a 402; Solana needs *)
(* a blockhash first.                                                      *)
Probe(c) ==
    /\ \/ Tell(c, "probe", "free") \/ Tell(c, "probe", "error")
       \/ UseSecret(c, "probe") \/ To(c, "probe", "blockhash")
    /\ UNCHANGED <<hour, session, cached, user, called, signed, charged, before>>

Blockhash(c) ==
    /\ UseSecret(c, "blockhash") \/ Tell(c, "blockhash", "error")
    /\ UNCHANGED <<hour, session, cached, user, called, signed, charged, before>>

SignPayment(c) ==
    /\ \/ To(c, "sign", "retry") /\ signed' = signed \union {c}
       \/ Tell(c, "sign", "error") /\ UNCHANGED signed
    /\ UNCHANGED <<hour, session, cached, user, called, charged, before>>

(* The resource server settles a payment it was sent, heard or not.        *)
Charge(c) ==
    /\ c \in signed \ charged
    /\ charged' = charged \union {c}
    /\ UNCHANGED <<hour, session, cached, step, user, called, signed, result, before>>

(* Mutant: only some results are kept, say, those with a 2xx.              *)
KeepSome(c) == cached' = cached \union {called[c]} \/ UNCHANGED cached

Keep(c) == cached' = cached \union {called[c]}

(* The second answer: a result of any status but 402, a 402, or none.      *)
Retry(c) ==
    /\ \/ Tell(c, "retry", "settled") /\ Keep(c)
       \/ Tell(c, "retry", "error") /\ UNCHANGED cached
    /\ UNCHANGED <<hour, session, user, called, signed, charged, before>>

McpNext ==
    \/ NextHour \/ Restart
    \/ \E s \in Sessions : Create(s) \/ Destroy(s) \/ \E c \in Calls : Begin(c, s)
    \/ \E c \in Calls : Probe(c) \/ Blockhash(c) \/ SignPayment(c) \/ Charge(c) \/ Retry(c)

McpSpec == McpInit /\ [][McpNext]_mcpVars

-----------------------------------------------------------------------------
CacheKeys == {First[s] : s \in Sessions} \X (0 .. LastHour)

McpTypeOK ==
    /\ hour \in 0 .. LastHour
    /\ session \in [Sessions -> {"new", "alive", "gone"}]
    /\ cached \subseteq CacheKeys
    /\ step \in [Calls -> {"idle", "probe", "blockhash", "sign", "retry", "done", "lost"}]
    /\ user \in [Calls -> Sessions]
    /\ called \in [Calls -> CacheKeys]
    /\ charged \subseteq signed /\ signed \subseteq Calls
    /\ result \in [Calls -> {"none", "error", "free", "replay", "settled"}]
    /\ before \in [Calls -> SUBSET Calls]

(* Of two calls of one process and one hour, by sessions that list the     *)
(* same network first, both pay only if they overlap, or if the first was  *)
(* told of an error: its payment may have been settled all the same.       *)
(* Neither a new session nor the end of the hour while a call is under way *)
(* adds to this, and "replay" says that it was paid for. (A session that   *)
(* lists another network first, or a restart, makes the second call pay.)  *)
PaidOnce ==
    \A c \in Calls, d \in signed :
        /\ c \in before[d] /\ called[c] = called[d]
        => result[c] \in {"error", "free"}
=============================================================================
