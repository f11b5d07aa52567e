------------------------------ MODULE RateLimit ------------------------------
(***************************************************************************)
(* services/facilitator/src/rate-limit.ts: check() counts a request in the *)
(* Redis bucket of its minute, adds what is left of the bucket before, and *)
(* admits it while the sum is within the key's limit. The time is read     *)
(* before the pipeline is sent, and several API processes send pipelines:  *)
(* they need not reach Redis in the order of their times.                  *)
(***************************************************************************)
EXTENDS Integers, FiniteSets

CONSTANTS
    Minute,    \* the ticks of a bucket
    Ttl,       \* after how many ticks a bucket that is not counted in is gone
    Limit,     \* perMinuteLimit
    Ticks,     \* the last moment: bounds the behaviours
    Checks     \* check() calls: bounds the behaviours

ASSUME RateAssumption ==
    /\ {Minute, Ttl} \subseteq Nat \ {0}
    /\ {Limit, Ticks} \subseteq Nat
    /\ Ttl >= 2 * Minute  \* EXPIRE: 120 seconds

VARIABLES
    clock,     \* the time
    asked,     \* nowMs of each check, -1 before it is called
    verdict,   \* what became of it
    bucket,    \* the counters in Redis
    gone,      \* when each counter expires
    late       \* history: the checks counted after their own minute

rateVars == <<clock, asked, verdict, bucket, gone, late>>

Buckets == -1 .. Ticks \div Minute

RateInit ==
    /\ clock = 0
    /\ asked = [c \in Checks |-> -1]
    /\ verdict = [c \in Checks |-> "none"]
    /\ bucket = [b \in Buckets |-> 0]
    /\ gone = [b \in Buckets |-> 0]
    /\ late = {}

BucketOf(t) == t \div Minute

Alive(b, t) == t < gone[b]

Tick ==
    /\ clock < Ticks
    /\ clock' = clock + 1
    /\ bucket' = [b \in Buckets |-> IF Alive(b, clock') THEN bucket[b] ELSE 0]
    /\ UNCHANGED <<asked, verdict, gone, late>>

Check(c) ==
    /\ verdict[c] = "none"
    /\ verdict' = [verdict EXCEPT ![c] = "sent"]
    /\ asked' = [asked EXCEPT ![c] = clock]
    /\ UNCHANGED <<clock, bucket, gone, late>>

(* Mutant: the bucket before weighs more the longer it has ended.          *)
UsedMore(c, b) == Minute * bucket'[b] + (asked[c] % Minute) * bucket[b - 1]

(* In ticks: the interpolation's fraction is not rounded.                  *)
Weigh(c, now, last) == Minute * now + (Minute - (asked[c] % Minute)) * last

Used(c, b) == Weigh(c, bucket'[b], bucket[b - 1])

Count(c, b) ==
    /\ bucket' = [bucket EXCEPT ![b] = @ + 1]
    /\ gone' = [gone EXCEPT ![b] = clock + Ttl]
    /\ late' = IF BucketOf(clock) > b THEN late \union {c} ELSE late

(* The pipeline reaches Redis and its reply comes back.                    *)
Exec(c) ==
    /\ verdict[c] = "sent"
    /\ LET b == BucketOf(asked[c])
       IN  /\ Count(c, b)
           /\ verdict' = [verdict EXCEPT ![c] =
                  IF Used(c, b) <= Minute * Limit THEN "allowed" ELSE "refused"]
    /\ UNCHANGED <<clock, asked>>

(* exec() resolves with null, whatever Redis did, or with an error of one  *)
(* of its commands, whose count is then taken for zero: the request is let *)
(* through, unless what was read is over the limit by itself.              *)
Abort(c) ==
    /\ verdict[c] = "sent"
    /\ LET b == BucketOf(asked[c])
       IN  /\ Count(c, b) \/ UNCHANGED <<bucket, gone, late>>
           /\ \E now \in {0, bucket'[b]}, last \in {0, bucket[b - 1]} :
                 verdict' = [verdict EXCEPT ![c] =
                     IF Weigh(c, now, last) <= Minute * Limit THEN "open" ELSE "refused"]
    /\ UNCHANGED <<clock, asked>>

RateNext == Tick \/ \E c \in Checks : Check(c) \/ Exec(c) \/ Abort(c)

RateSpec == RateInit /\ [][RateNext]_rateVars

-----------------------------------------------------------------------------
(* The checks asked in the ticks of S that were admitted in time.          *)
Admitted(S) ==
    Cardinality({c \in Checks \ late : verdict[c] = "allowed" /\ asked[c] \in S})

(* However the requests fall, no minute admits more than the limit and the *)
(* part of it that has passed since the last bucket began: of the Limit +  *)
(* 1 requests of a minute that starts just before a bucket does, not one   *)
(* is let through that the counters do not miss. (Missed are those counted *)
(* after their minute, and those let through because Redis did not answer.)*)
WindowIsBounded ==
    \A t \in 0 .. Ticks :
        LET b == BucketOf(t) * Minute
        IN  Minute * Admitted(t - Minute + 1 .. t)
                <= Minute * Limit + (t % Minute) * Admitted(b - Minute .. b - 1)
=============================================================================
