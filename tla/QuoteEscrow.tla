----------------------------- MODULE QuoteEscrow -----------------------------
(***************************************************************************)
(* What the swap promises those who pay for a quote, with no wallet, row   *)
(* or transaction in sight: of all the requests for one quote at most one  *)
(* is ever given something, its output or a refund, and both only if the   *)
(* proxy lost sight of the output; whoever is told that it failed has the  *)
(* refund, and whoever is refused was never given anything.                *)
(***************************************************************************)
CONSTANTS Requests, Quotes, None

VARIABLES
    target,  \* the quote each request asked for, None before
    got,     \* what its buyer was given
    reply,   \* what it was answered
    lost,    \* the requests whose output the proxy lost sight of
    faulty,  \* those whose execution a failed query or a throw cut short
    blind    \* whether an output is taken for sent on confirmation alone

vars == <<target, got, reply, lost, faulty, blind>>

Init ==
    /\ target = [r \in Requests |-> None]
    /\ got = [r \in Requests |-> {}]
    /\ reply = [r \in Requests |-> "none"]
    /\ lost = {}
    /\ faulty = {}
    /\ blind \in BOOLEAN

(* Nobody else was given anything for r's quote.                           *)
IsFirst(r) ==
    \A x \in Requests \ {r} : target[x] = target[r] => got[x] = {}

Give(r, what) ==
    /\ target[r] # None
    /\ IsFirst(r)
    /\ what \notin got[r]
    /\ got' = [got EXCEPT ![r] = @ \union {what}]

Tell(r, res) ==
    /\ reply[r] = "none"
    /\ reply' = [reply EXCEPT ![r] = res]

Ask(r, q) ==
    /\ target[r] = None
    /\ target' = [target EXCEPT ![r] = q]
    /\ Tell(r, "refused") \/ UNCHANGED reply
    /\ UNCHANGED <<got, lost, faulty, blind>>

Refuse(r) ==
    /\ target[r] # None
    /\ got[r] = {} /\ r \notin lost
    /\ Tell(r, "refused") \/ Tell(r, "rejected")
    /\ UNCHANGED <<target, got, lost, faulty, blind>>

(* The output arrives: late, if the proxy lost sight of it.                *)
Deliver(r) ==
    /\ Give(r, "output")
    /\ reply[r] = "none" \/ r \in lost
    /\ UNCHANGED <<target, reply, lost, faulty, blind>>

Lose(r) ==
    /\ target[r] # None
    /\ reply[r] = "none"
    /\ lost' = lost \union {r}
    /\ UNCHANGED <<target, got, reply, faulty, blind>>

Complete(r) ==
    /\ "output" \in got[r] \/ blind
    /\ Tell(r, "ok")
    /\ UNCHANGED <<target, got, lost, faulty, blind>>

Refund(r) ==
    /\ Give(r, "refund")
    /\ "output" \in got[r] => r \in lost
    /\ Tell(r, "failed")
    /\ UNCHANGED <<target, lost, faulty, blind>>

Fail(r) ==
    /\ Tell(r, "failed")
    /\ faulty' = faulty \union {r}
    /\ UNCHANGED <<target, got, lost, blind>>

Next ==
    \E r \in Requests :
        \/ \E q \in Quotes : Ask(r, q)
        \/ Refuse(r) \/ Deliver(r) \/ Lose(r) \/ Complete(r)
        \/ Refund(r) \/ Fail(r)

Spec == Init /\ [][Next]_vars

(* What this comes to for the buyers of a quote: one of them at most is    *)
(* given anything, nobody both output and refund unless the proxy lost     *)
(* sight of the output, and what each is told is so: "ok" was delivered,   *)
(* "failed" was refunded, who is refused has nothing, now and later.       *)
Fair ==
    /\ \A p, r \in Requests :
          p # r /\ target[p] = target[r] => got[p] = {} \/ got[r] = {}
    /\ \A r \in Requests :
          /\ {"output", "refund"} \subseteq got[r] => r \in lost
          /\ reply[r] = "ok" => "output" \in got[r] \/ blind
          /\ reply[r] = "failed" => "refund" \in got[r] \/ r \in faulty
          /\ reply[r] \in {"refused", "rejected"} => got[r] = {}
=============================================================================
