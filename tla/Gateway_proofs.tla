--------------------------- MODULE Gateway_proofs ---------------------------
(* The small components beside the payment paths: the fee of every amount, *)
(* agents' payments through the MCP gateway, charges under the MPP route,  *)
(* CDP's monthly cap, the mirror of external catalogues, and the reviews   *)
(* of the public catalogue's listings.                                     *)
EXTENDS RateLimit, FeeSplit, CdpUsage, MppCharge, PayAndCall, CatalogSync, CatalogListing,
    FiniteSetTheorems, SequenceTheorems, TLAPS

-----------------------------------------------------------------------------
(* The fee                                                                 *)

(* The rates the database admits: a tenth or less, in basis points.        *)
Rates == 0 .. 1000

(* A rate takes no more than itself of an amount.                          *)
LEMMA ShareBelow ==
    ASSUME NEW gross \in Nat, NEW bps \in Rates
    PROVE  10000 * Share(gross, bps) <= gross * bps
  <1> DEFINE x == gross * bps
  <1>1. x \in Nat
    BY SMT DEF Rates
  <1> HIDE DEF x
  <1>2. 10000 * (x \div 10000) <= x
    BY <1>1, SMT
  <1> QED BY <1>2 DEF Share, x

(* ... which is a tenth or less.                                           *)
LEMMA ShareBound ==
    ASSUME NEW gross \in Nat, NEW bps \in Rates
    PROVE  Share(gross, bps) \in Nat /\ 10 * Share(gross, bps) <= gross
  <1> DEFINE x == gross * bps
  <1>1. x \in Nat /\ x <= 1000 * gross
    <2>1. x \in Nat
      BY SMT DEF Rates
    <2>2. gross * bps <= gross * 1000
      BY SMT DEF Rates
    <2> QED BY <2>1, <2>2
  <1> HIDE DEF x
  <1>2. x \div 10000 \in Nat /\ 10 * (x \div 10000) <= gross
    BY <1>1, SMT
  <1> QED BY <1>2 DEF Share, x

(* One more unit adds one at most to the rate's part of it.                *)
LEMMA ShareStep ==
    ASSUME NEW gross \in Nat, NEW bps \in Rates
    PROVE  Share(gross + 1, bps) - Share(gross, bps) \in {0, 1}
  <1> DEFINE x == gross * bps
  <1>1. x \in Nat /\ (gross + 1) * bps = x + bps
    BY SMT DEF Rates
  <1> HIDE DEF x
  <1>2. (x + bps) \div 10000 - x \div 10000 \in {0, 1}
    BY <1>1, SMT DEF Rates
  <1> QED BY <1>1, <1>2 DEF Share, x

(* Clamping keeps a tenth of the amount or less below the amount.          *)
LEMMA ClampBounds ==
    ASSUME NEW gross \in Nat, gross > 1, NEW s \in Nat, 10 * s <= gross
    PROVE  /\ Clamped(s, gross) \in 0 .. MaxFee
           /\ Clamped(s, gross) <= s \/ Clamped(s, gross) = 1
           /\ Clamped(s, gross) < gross
  BY FeeAssumption DEF Clamped, MinFee

(* ... and grows with the amount by what the amount grows at most.         *)
LEMMA ClampStep ==
    ASSUME NEW gross \in Nat, gross > 1, NEW s \in Nat, 10 * s <= gross,
           NEW t \in {s, s + 1}
    PROVE  Clamped(t, gross + 1) <= Clamped(s, gross) + 1
  BY FeeAssumption DEF Clamped, MinFee

(* The fee is below the cap and within the rate, and leaves something.     *)
FairFee(gross, bps) ==
    /\ FeeOf(gross, bps) \in 0 .. MaxFee
    /\ 10000 * FeeOf(gross, bps) <= gross * bps \/ FeeOf(gross, bps) = MinFee
    /\ gross > 0 => NetOf(gross, bps) > 0

(* The split of one amount is fair.                                        *)
LEMMA FairSplit ==
    ASSUME NEW gross \in Nat, NEW bps \in Rates
    PROVE  FairFee(gross, bps)
  <1> USE DEF FairFee
  <1>1. gross * bps \in Nat
    BY SMT DEF Rates
  <1>2. MaxFee \in Nat
    BY FeeAssumption
  <1>3. CASE bps = 0 \/ gross <= 1
    BY <1>1, <1>2, <1>3 DEF FeeOf, NetOf, MinFee
  <1>4. CASE bps # 0 /\ gross > 1
    <2>1. PICK s : s = Share(gross, bps)
      OBVIOUS
    <2>2. s \in Nat /\ 10000 * s <= gross * bps /\ 10 * s <= gross
      <3>1. Share(gross, bps) \in Nat /\ 10 * Share(gross, bps) <= gross
        BY ShareBound
      <3>2. 10000 * Share(gross, bps) <= gross * bps
        BY ShareBelow
      <3> QED BY <3>1, <3>2, <2>1
    <2>3. PICK fee : fee = Clamped(s, gross)
      OBVIOUS
    <2>4. fee \in 0 .. MaxFee /\ (fee <= s \/ fee = 1) /\ fee < gross
      BY <1>4, <2>2, <2>3, ClampBounds
    <2>5. FeeOf(gross, bps) = fee /\ NetOf(gross, bps) = gross - fee
      BY <1>4, <2>1, <2>3 DEF FeeOf, NetOf, MinFee
    <2>6. 10000 * fee <= gross * bps \/ fee = 1
      BY <1>1, <1>2, <2>2, <2>4
    <2> QED BY <1>2, <2>4, <2>5, <2>6 DEF MinFee
  <1> QED BY <1>3, <1>4

(* A larger amount does not net less.                                      *)
LEMMA NetGrows ==
    ASSUME NEW gross \in Nat, NEW bps \in Rates
    PROVE  NetOf(gross, bps) <= NetOf(gross + 1, bps)
  <1>1. CASE bps = 0 \/ gross = 0
    BY <1>1 DEF NetOf, FeeOf, MinFee
  <1>2. CASE bps # 0 /\ gross > 0
    <2>1. PICK s, t : s = Share(gross, bps) /\ t = Share(gross + 1, bps)
      OBVIOUS
    <2>2. s \in Nat /\ 10 * s <= gross /\ t \in {s, s + 1}
      <3>1. Share(gross, bps) \in Nat /\ 10 * Share(gross, bps) <= gross
        BY ShareBound
      <3>2. Share(gross + 1, bps) - Share(gross, bps) \in {0, 1}
        BY ShareStep, Zenon
      <3>3. Share(gross + 1, bps) \in Nat
        <4>1. gross + 1 \in Nat
          OBVIOUS
        <4> QED BY <4>1, ShareBound
      <3>4. s \in Nat /\ t \in Nat /\ 10 * s <= gross /\ t - s \in {0, 1}
        BY <2>1, <3>1, <3>2, <3>3
      <3> QED BY <3>4
    <2>3. PICK f, g : f = Clamped(s, gross) /\ g = Clamped(t, gross + 1)
      OBVIOUS
    <2>4. g \in Int /\ g < gross + 1
      <3>1. gross + 1 \in Nat /\ gross + 1 > 1 /\ t \in Nat /\ 10 * t <= 10 * s + 10
        BY <1>2, <2>2
      <3> QED BY <1>2, <2>2, <2>3, <3>1, FeeAssumption DEF Clamped, MinFee
    <2>5. NetOf(gross + 1, bps) = (gross + 1) - g
      <3>1. ~(gross + 1 <= 1)
        BY <1>2
      <3>2. FeeOf(gross + 1, bps) = g
        BY <1>2, <2>1, <2>3, <3>1, Zenon DEF FeeOf, MinFee
      <3> QED BY <3>2 DEF NetOf
    <2>6. CASE gross = 1
      <3>1. NetOf(gross, bps) = 1
        BY <2>6 DEF NetOf, FeeOf, MinFee
      <3>2. g <= 1
        BY <2>2, <2>3, <2>6, FeeAssumption DEF Clamped, MinFee
      <3> QED BY <2>4, <2>5, <2>6, <3>1, <3>2
    <2>7. CASE gross > 1
      <3>1. NetOf(gross, bps) = gross - f
        BY <1>2, <2>1, <2>3, <2>7 DEF NetOf, FeeOf, MinFee
      <3>2. f \in Int /\ g <= f + 1
        <4>1. Clamped(s, gross) \in 0 .. MaxFee
          BY <2>2, <2>7, ClampBounds
        <4>2. Clamped(t, gross + 1) <= Clamped(s, gross) + 1
          BY <2>2, <2>7, ClampStep
        <4> QED BY <2>3, <4>1, <4>2
      <3> QED BY <2>4, <2>5, <3>1, <3>2
    <2> QED BY <1>2, <2>6, <2>7
  <1> QED BY <1>1, <1>2

(* A row of a split is a fair row.                                         *)
LEMMA RowIsFair ==
    ASSUME NEW gross \in Nat, NEW bps \in Rates
    PROVE  IsFair(RowOf(gross, bps))
  <1>1. FairFee(gross, bps)
    BY FairSplit, ZenonT(60)
  <1>2. gross > 0 => NetOf(gross, bps) >= NetOf(gross - 1, bps)
    <2> SUFFICES ASSUME gross > 0
                 PROVE  NetOf(gross, bps) >= NetOf(gross - 1, bps)
      OBVIOUS
    <2>1. PICK below \in Nat : below = gross - 1 /\ gross = below + 1
      <3>1. gross - 1 \in Nat /\ gross = (gross - 1) + 1
        OBVIOUS
      <3> QED BY <3>1
    <2>2. NetOf(below, bps) <= NetOf(below + 1, bps)
      BY NetGrows, Zenon
    <2>3. NetOf(below, bps) \in Int /\ NetOf(below + 1, bps) \in Int
      <3>1. below + 1 \in Nat
        OBVIOUS
      <3>2. FairFee(below, bps) /\ FairFee(below + 1, bps)
        BY <3>1, FairSplit, ZenonT(60)
      <3> QED BY <3>2, FeeAssumption DEF FairFee, NetOf
    <2> QED BY <2>1, <2>2, <2>3
  <1> QED BY <1>1, <1>2, SMTT(60) DEF FairFee, IsFair, RowOf

(* Every row is inserted with a fair split, whatever its amount.           *)
THEOREM SplitIsFairHolds == FeeSpec => []SplitIsFair
  <1>1. FeeInit => SplitIsFair
    <2>1. \A bps \in FeeRates : 0 \in Nat /\ bps \in Rates
      BY FeeAssumption DEF Rates
    <2> QED BY <2>1, RowIsFair, Zenon DEF FeeInit, SplitIsFair
  <1>2. SplitIsFair /\ [FeeNext]_row => SplitIsFair'
    <2>1. ASSUME FeeNext
          PROVE  SplitIsFair'
      <3>1. \A gross \in 0 .. LastGross, bps \in FeeRates :
                gross \in Nat /\ bps \in Rates
        BY FeeAssumption DEF Rates
      <3>2. PICK gross \in 0 .. LastGross, bps \in FeeRates : row' = RowOf(gross, bps)
        BY <2>1 DEF FeeNext
      <3>3. IsFair(RowOf(gross, bps))
        BY <3>1, RowIsFair, Zenon
      <3>4. IsFair(row')
        BY <3>2, <3>3, Zenon
      <3> QED BY <3>4 DEF SplitIsFair, IsFair, NetOf, FeeOf, Clamped, Share, MinFee
    <2>2. ASSUME SplitIsFair, UNCHANGED row
          PROVE  SplitIsFair'
      BY <2>2 DEF SplitIsFair
    <2> QED BY <2>1, <2>2
  <1> QED BY <1>1, <1>2, PTL DEF FeeSpec

-----------------------------------------------------------------------------
(* pay_and_call                                                            *)

UnderWay(c) == step[c] \in {"probe", "blockhash", "sign", "retry"}

(* A call that is over was told of an error or that the resource is free,  *)
(* or the result of its key is kept.                                       *)
OverIsKept ==
    \A c \in Calls :
        /\ step[c] = "done" => result[c] \in {"error", "free"} \/ called[c] \in cached
        /\ step[c] = "idle" => c \notin signed

(* What was over when a call began stays so; of its key, nothing was kept. *)
BeforeIsOver ==
    \A d \in Calls : \A c \in before[d] :
        /\ step[c] \in {"done", "lost"}
        /\ UnderWay(d) => step[c] = "done"
        /\ step[d] # "idle" /\ called[c] = called[d] /\ (UnderWay(d) \/ d \in signed) =>
              result[c] \in {"error", "free"}

McpInv == McpTypeOK /\ OverIsKept /\ BeforeIsOver

(* Type correctness.                                                       *)
LEMMA McpTypeStep ==
    ASSUME McpTypeOK, [McpNext]_mcpVars
    PROVE  McpTypeOK'
  <1>1. ASSUME NextHour
        PROVE  McpTypeOK'
    BY <1>1, HourAssumption DEF McpTypeOK, NextHour
  <1>2. ASSUME NEW s0 \in Sessions, Destroy(s0)
        PROVE  McpTypeOK'
    BY <1>2 DEF McpTypeOK, Destroy
  <1>3. ASSUME NEW c0 \in Calls, NEW s0 \in Sessions, Begin(c0, s0)
        PROVE  McpTypeOK'
    <2>1. CacheKey(s0) \in CacheKeys
      BY DEF McpTypeOK, CacheKey, CacheKeys
    <2> QED BY <1>3, <2>1 DEF McpTypeOK, Begin, To, Tell
  <1>4. ASSUME NEW c0 \in Calls, Probe(c0)
        PROVE  McpTypeOK'
    BY <1>4 DEF McpTypeOK, Probe, UseSecret, To, Tell
  <1>5. ASSUME NEW c0 \in Calls, Blockhash(c0)
        PROVE  McpTypeOK'
    BY <1>5 DEF McpTypeOK, Blockhash, UseSecret, To, Tell
  <1>6. ASSUME NEW c0 \in Calls, SignPayment(c0)
        PROVE  McpTypeOK'
    BY <1>6 DEF McpTypeOK, SignPayment, To, Tell
  <1>7. ASSUME NEW c0 \in Calls, Charge(c0)
        PROVE  McpTypeOK'
    BY <1>7 DEF McpTypeOK, Charge
  <1>8. ASSUME NEW c0 \in Calls, Retry(c0)
        PROVE  McpTypeOK'
    <2>1. cached' \subseteq CacheKeys
      <3>1. called[c0] \in CacheKeys /\ cached \subseteq CacheKeys
        BY DEF McpTypeOK
      <3>2. cached' = cached \union {called[c0]} \/ cached' = cached
        BY <1>8, Zenon DEF Retry, Keep
      <3> QED BY <3>1, <3>2
    <2> QED BY <1>8, <2>1 DEF McpTypeOK, Retry, Tell
  <1>9. CASE UNCHANGED mcpVars
    BY <1>9 DEF McpTypeOK, mcpVars
  <1>10. ASSUME NEW s0 \in Sessions, Create(s0)
         PROVE  McpTypeOK'
    BY <1>10 DEF McpTypeOK, Create
  <1>11. ASSUME Restart
         PROVE  McpTypeOK'
    BY <1>11 DEF McpTypeOK, Restart
  <1> QED
    BY <1>1, <1>2, <1>3, <1>4, <1>5, <1>6, <1>7, <1>8, <1>9, <1>10, <1>11,
       Zenon DEF McpNext

(* Calls that are over.                                                    *)
LEMMA OverStep ==
    ASSUME McpTypeOK, OverIsKept, [McpNext]_mcpVars
    PROVE  OverIsKept'
  <1>1. ASSUME NextHour
        PROVE  OverIsKept'
    BY <1>1 DEF McpTypeOK, OverIsKept, NextHour
  <1>2. ASSUME NEW s0 \in Sessions, Destroy(s0)
        PROVE  OverIsKept'
    BY <1>2 DEF McpTypeOK, OverIsKept, Destroy
  <1>3. ASSUME NEW c0 \in Calls, NEW s0 \in Sessions, Begin(c0, s0)
        PROVE  OverIsKept'
    BY <1>3 DEF McpTypeOK, OverIsKept, Begin, To, Tell
  <1>4. ASSUME NEW c0 \in Calls, Probe(c0)
        PROVE  OverIsKept'
    BY <1>4 DEF McpTypeOK, OverIsKept, Probe, UseSecret, To, Tell
  <1>5. ASSUME NEW c0 \in Calls, Blockhash(c0)
        PROVE  OverIsKept'
    BY <1>5 DEF McpTypeOK, OverIsKept, Blockhash, UseSecret, To, Tell
  <1>6. ASSUME NEW c0 \in Calls, SignPayment(c0)
        PROVE  OverIsKept'
    BY <1>6 DEF McpTypeOK, OverIsKept, SignPayment, To, Tell
  <1>7. ASSUME NEW c0 \in Calls, Charge(c0)
        PROVE  OverIsKept'
    BY <1>7 DEF McpTypeOK, OverIsKept, Charge
  <1>8. ASSUME NEW c0 \in Calls, Retry(c0)
        PROVE  OverIsKept'
    BY <1>8 DEF McpTypeOK, OverIsKept, Retry, Keep, Tell
  <1>9. CASE UNCHANGED mcpVars
    BY <1>9 DEF McpTypeOK, OverIsKept, mcpVars
  <1>10. ASSUME NEW s0 \in Sessions, Create(s0)
         PROVE  OverIsKept'
    BY <1>10 DEF McpTypeOK, OverIsKept, Create
  <1>11. ASSUME Restart
         PROVE  OverIsKept'
    BY <1>11 DEF McpTypeOK, OverIsKept, Restart
  <1> QED
    BY <1>1, <1>2, <1>3, <1>4, <1>5, <1>6, <1>7, <1>8, <1>9, <1>10, <1>11,
       Zenon DEF McpNext

(* Calls that were over before.                                            *)
LEMMA BeforeStep ==
    ASSUME McpTypeOK, OverIsKept, BeforeIsOver, [McpNext]_mcpVars
    PROVE  BeforeIsOver'
  <1>1. ASSUME NextHour
        PROVE  BeforeIsOver'
    BY <1>1 DEF McpTypeOK, OverIsKept, BeforeIsOver, UnderWay, NextHour
  <1>2. ASSUME NEW s0 \in Sessions, Destroy(s0)
        PROVE  BeforeIsOver'
    BY <1>2 DEF McpTypeOK, OverIsKept, BeforeIsOver, UnderWay, Destroy
  <1>3. ASSUME NEW c0 \in Calls, NEW s0 \in Sessions, Begin(c0, s0)
        PROVE  BeforeIsOver'
    BY <1>3 DEF McpTypeOK, OverIsKept, BeforeIsOver, UnderWay, Begin, To,
       Tell
  <1>4. ASSUME NEW c0 \in Calls, Probe(c0)
        PROVE  BeforeIsOver'
    BY <1>4 DEF McpTypeOK, OverIsKept, BeforeIsOver, UnderWay, Probe,
       UseSecret, To, Tell
  <1>5. ASSUME NEW c0 \in Calls, Blockhash(c0)
        PROVE  BeforeIsOver'
    BY <1>5 DEF McpTypeOK, OverIsKept, BeforeIsOver, UnderWay, Blockhash,
       UseSecret, To, Tell
  <1>6. ASSUME NEW c0 \in Calls, SignPayment(c0)
        PROVE  BeforeIsOver'
    BY <1>6 DEF McpTypeOK, OverIsKept, BeforeIsOver, UnderWay,
       SignPayment, To, Tell
  <1>7. ASSUME NEW c0 \in Calls, Charge(c0)
        PROVE  BeforeIsOver'
    BY <1>7 DEF McpTypeOK, OverIsKept, BeforeIsOver, UnderWay, Charge
  <1>8. ASSUME NEW c0 \in Calls, Retry(c0)
        PROVE  BeforeIsOver'
    BY <1>8 DEF McpTypeOK, OverIsKept, BeforeIsOver, UnderWay, Retry,
       Keep, Tell
  <1>9. CASE UNCHANGED mcpVars
    BY <1>9 DEF McpTypeOK, OverIsKept, BeforeIsOver, UnderWay, mcpVars
  <1>10. ASSUME NEW s0 \in Sessions, Create(s0)
         PROVE  BeforeIsOver'
    BY <1>10 DEF McpTypeOK, OverIsKept, BeforeIsOver, UnderWay, Create
  <1>11. ASSUME Restart
         PROVE  BeforeIsOver'
    BY <1>11 DEF McpTypeOK, OverIsKept, BeforeIsOver, UnderWay, Restart
  <1> QED
    BY <1>1, <1>2, <1>3, <1>4, <1>5, <1>6, <1>7, <1>8, <1>9, <1>10, <1>11,
       Zenon DEF McpNext

LEMMA McpInductive == McpSpec => []McpInv
  <1>1. McpInit => McpInv
    <2> SUFFICES ASSUME McpInit
                 PROVE  McpInv
      OBVIOUS
    <2> DEFINE t == CHOOSE s \in Sessions : TRUE
    <2>1. t \in Sessions
      BY SessionAssumption
    <2>2. user = [c \in Calls |-> t]
      BY DEF McpInit
    <2> HIDE DEF t
    <2>3. <<First[t], 0>> \in CacheKeys
      <3>1. First[t] \in {First[s] : s \in Sessions}
        BY <2>1
      <3> QED BY <3>1, HourAssumption DEF CacheKeys
    <2>4. /\ hour = 0
          /\ called = [c \in Calls |-> <<First[user[c]], hour>>]
      BY Zenon DEF McpInit, CacheKey
    <2>5. ASSUME NEW c \in Calls
          PROVE  called[c] = <<First[t], 0>>
      BY <2>2, <2>4
    <2>6. called \in [Calls -> CacheKeys]
      BY <2>3, <2>4, <2>5
    <2> QED BY <2>1, <2>2, <2>6, HourAssumption
       DEF McpInit, McpInv, McpTypeOK, OverIsKept, BeforeIsOver
  <1>2. McpInv /\ [McpNext]_mcpVars => McpInv'
    BY McpTypeStep, OverStep, BeforeStep DEF McpInv
  <1> QED BY <1>1, <1>2, PTL DEF McpSpec

(* In one process, and by sessions that list the same network first, a     *)
(* wallet's call pays twice within the hour only if the two calls overlap  *)
(* or the first ended in an error.                                         *)
THEOREM PaidOnceHolds == McpSpec => []PaidOnce
  <1>1. McpInv => PaidOnce
    BY DEF McpInv, McpTypeOK, OverIsKept, BeforeIsOver, PaidOnce
  <1> QED BY <1>1, McpInductive, PTL

-----------------------------------------------------------------------------
(* POST /mpp/charge                                                        *)

Answered(r) == answer[r] # None /\ answer[r].status # "error"

(* A charge and its row, by where it is.                                   *)
ChargeByPlace ==
    /\ answer = [r \in Requests |-> answer[r]]
    /\ \A r \in Charges :
        /\ place[r] = "idle" <=> key[r] = None
        /\ place[r] \in {"settle", "create", "lost", "finalize", "reply"} =>
              hash[r] \in mined
        /\ place[r] \in {"idle", "verify", "settle", "create"} => status[r] = "none"
        /\ place[r] \in {"lost", "finalize"} => status[r] = "pending"
        /\ place[r] = "reply" => status[r] = "settled"
        /\ status[r] # "failed"
        /\ status[r] = "settled" => filed[r] \in mined
        /\ place[r] # "done" => answer[r] = None
        /\ place[r] = "done" /\ status[r] = "pending" => answer[r].status = "error"

(* What a charge is told of is a row of its key, and its transfer was made.*)
AnsweredOfKey ==
    \A r \in Charges : Answered(r) =>
        /\ hash[r] \in mined
        /\ answer[r].payment \in Requests
        /\ key[answer[r].payment] = key[r]
        /\ status[answer[r].payment] # "none"

MppInv == MppTypeOK /\ ChargeByPlace /\ AnsweredOfKey

(* Type correctness.                                                       *)
LEMMA MppTypeStep ==
    ASSUME MppTypeOK, [MppNext]_mppVars
    PROVE  MppTypeOK'
  <1>1. ASSUME NEW r0 \in Charges, MppArrive(r0)
        PROVE  MppTypeOK'
    BY <1>1, ChargeAssumption DEF MppTypeOK, MppArrive, Goes,
       Ledger!Arrive
  <1>2. ASSUME NEW r0 \in Charges, ReadReceipt(r0)
        PROVE  MppTypeOK'
    BY <1>2, ChargeAssumption DEF MppTypeOK, ReadReceipt, Goes, Verified,
       Ledger!Error
  <1>3. ASSUME NEW r0 \in Charges, MppCreate(r0)
        PROVE  MppTypeOK'
    BY <1>3, ChargeAssumption DEF MppTypeOK, MppCreate, Goes, Ledger!Open,
       Ledger!Opened, Ledger!Answer, Ledger!Said
  <1>4. ASSUME NEW r0 \in Charges, MppFinalize(r0)
        PROVE  MppTypeOK'
    BY <1>4, ChargeAssumption DEF MppTypeOK, MppFinalize, Goes,
       Ledger!Resolve
  <1>5. ASSUME NEW r0 \in Charges, MppReply(r0)
        PROVE  MppTypeOK'
    BY <1>5, ChargeAssumption DEF MppTypeOK, MppReply, Goes,
       Ledger!Answer, Ledger!Said, Ledger!Opened
  <1>6. ASSUME NEW r0 \in Charges, MppFault(r0)
        PROVE  MppTypeOK'
    BY <1>6, ChargeAssumption DEF MppTypeOK, MppFault, Goes, Ledger!Error
  <1>7. ASSUME NEW r0 \in Charges, MppCrash(r0)
        PROVE  MppTypeOK'
    BY <1>7, ChargeAssumption DEF MppTypeOK, MppCrash
  <1>8. ASSUME NEW r0 \in Requests \ Charges, MppOthers(r0)
        PROVE  MppTypeOK'
    BY <1>8, ChargeAssumption DEF MppTypeOK, MppOthers, Ledger!Arrive,
       Ledger!Open, Ledger!Opened, Ledger!Resolve
  <1>9. ASSUME NEW h0 \in Hashes, Mine(h0)
        PROVE  MppTypeOK'
    BY <1>9, ChargeAssumption DEF MppTypeOK, Mine
  <1>10. CASE UNCHANGED mppVars
    BY <1>10 DEF MppTypeOK, mppVars
  <1> QED
    BY <1>1, <1>2, <1>3, <1>4, <1>5, <1>6, <1>7, <1>8, <1>9, <1>10, Zenon
       DEF MppNext

(* Charges.                                                                *)
LEMMA ChargeStep ==
    ASSUME MppTypeOK, ChargeByPlace, [MppNext]_mppVars
    PROVE  ChargeByPlace'
  <1>1. ASSUME NEW r0 \in Charges, MppArrive(r0)
        PROVE  ChargeByPlace'
    BY <1>1, ChargeAssumption, SMTT(60) DEF MppTypeOK, ChargeByPlace, MppArrive,
       Goes, Ledger!Arrive
  <1>2. ASSUME NEW r0 \in Charges, ReadReceipt(r0)
        PROVE  ChargeByPlace'
    BY <1>2, ChargeAssumption, SMTT(60) DEF MppTypeOK, ChargeByPlace, ReadReceipt,
       Goes, Verified, Ledger!Error
  <1>3. ASSUME NEW r0 \in Charges, MppCreate(r0)
        PROVE  ChargeByPlace'
    BY <1>3, ChargeAssumption DEF MppTypeOK, ChargeByPlace, MppCreate,
       Goes, Ledger!Open, Ledger!Opened, Ledger!Answer, Ledger!Said
  <1>4. ASSUME NEW r0 \in Charges, MppFinalize(r0)
        PROVE  ChargeByPlace'
    BY <1>4, ChargeAssumption DEF MppTypeOK, ChargeByPlace, MppFinalize,
       Goes, Ledger!Resolve
  <1>5. ASSUME NEW r0 \in Charges, MppReply(r0)
        PROVE  ChargeByPlace'
    BY <1>5, ChargeAssumption DEF MppTypeOK, ChargeByPlace, MppReply,
       Goes, Ledger!Answer, Ledger!Said, Ledger!Opened
  <1>6. ASSUME NEW r0 \in Charges, MppFault(r0)
        PROVE  ChargeByPlace'
    BY <1>6, ChargeAssumption, SMTT(60) DEF MppTypeOK, ChargeByPlace, MppFault,
       Goes, Ledger!Error
  <1>7. ASSUME NEW r0 \in Charges, MppCrash(r0)
        PROVE  ChargeByPlace'
    BY <1>7, ChargeAssumption DEF MppTypeOK, ChargeByPlace, MppCrash
  <1>8. ASSUME NEW r0 \in Requests \ Charges, MppOthers(r0)
        PROVE  ChargeByPlace'
    BY <1>8, ChargeAssumption DEF MppTypeOK, ChargeByPlace, MppOthers,
       Ledger!Arrive, Ledger!Open, Ledger!Opened, Ledger!Resolve
  <1>9. ASSUME NEW h0 \in Hashes, Mine(h0)
        PROVE  ChargeByPlace'
    BY <1>9, ChargeAssumption DEF MppTypeOK, ChargeByPlace, Mine
  <1>10. CASE UNCHANGED mppVars
    BY <1>10 DEF MppTypeOK, ChargeByPlace, mppVars
  <1> QED
    BY <1>1, <1>2, <1>3, <1>4, <1>5, <1>6, <1>7, <1>8, <1>9, <1>10, Zenon
       DEF MppNext

(* Answers.                                                                *)
LEMMA AnsweredStep ==
    ASSUME MppTypeOK, ChargeByPlace, AnsweredOfKey, [MppNext]_mppVars
    PROVE  AnsweredOfKey'
  <1>1. ASSUME NEW r0 \in Charges, MppArrive(r0)
        PROVE  AnsweredOfKey'
    BY <1>1, ChargeAssumption, SMTT(60) DEF MppTypeOK, ChargeByPlace, AnsweredOfKey,
       Answered, MppArrive, Goes, Ledger!Arrive
  <1>2. ASSUME NEW r0 \in Charges, ReadReceipt(r0)
        PROVE  AnsweredOfKey'
    BY <1>2, ChargeAssumption DEF MppTypeOK, ChargeByPlace, AnsweredOfKey,
       Answered, ReadReceipt, Goes, Verified, Ledger!Error
  <1>3. ASSUME NEW r0 \in Charges, MppCreate(r0)
        PROVE  AnsweredOfKey'
    BY <1>3, ChargeAssumption, SMTT(60) DEF MppTypeOK, ChargeByPlace, AnsweredOfKey,
       Answered, MppCreate, Goes, Ledger!Open, Ledger!Opened,
       Ledger!Answer, Ledger!Said
  <1>4. ASSUME NEW r0 \in Charges, MppFinalize(r0)
        PROVE  AnsweredOfKey'
    BY <1>4, ChargeAssumption DEF MppTypeOK, ChargeByPlace, AnsweredOfKey,
       Answered, MppFinalize, Goes, Ledger!Resolve
  <1>5. ASSUME NEW r0 \in Charges, MppReply(r0)
        PROVE  AnsweredOfKey'
    BY <1>5, ChargeAssumption DEF MppTypeOK, ChargeByPlace, AnsweredOfKey,
       Answered, MppReply, Goes, Ledger!Answer, Ledger!Said, Ledger!Opened
  <1>6. ASSUME NEW r0 \in Charges, MppFault(r0)
        PROVE  AnsweredOfKey'
    BY <1>6, ChargeAssumption DEF MppTypeOK, ChargeByPlace, AnsweredOfKey,
       Answered, MppFault, Goes, Ledger!Error
  <1>7. ASSUME NEW r0 \in Charges, MppCrash(r0)
        PROVE  AnsweredOfKey'
    BY <1>7, ChargeAssumption DEF MppTypeOK, ChargeByPlace, AnsweredOfKey,
       Answered, MppCrash
  <1>8. ASSUME NEW r0 \in Requests \ Charges, MppOthers(r0)
        PROVE  AnsweredOfKey'
    <2>1. UNCHANGED <<place, hash, mined, answer>>
      BY <1>8 DEF MppOthers, Ledger!Arrive, Ledger!Open, Ledger!Resolve
    <2>2. \A q \in Requests : key[q] # None => key'[q] = key[q]
      BY <1>8 DEF MppOthers, Ledger!Arrive, Ledger!Open, Ledger!Resolve, MppTypeOK
    <2>3. \A q \in Requests : status[q] # "none" => status'[q] # "none"
      <3>1. status' = status \/ \E s \in {"pending", "settled", "failed"} :
                                  status' = [status EXCEPT ![r0] = s]
        BY <1>8 DEF MppOthers, Ledger!Arrive, Ledger!Open, Ledger!Resolve
      <3> QED BY <3>1 DEF MppTypeOK
    <2>4. \A r \in Charges : Answered(r) => key[r] # None
      BY ChargeAssumption DEF ChargeByPlace, Answered
    <2> QED BY <2>1, <2>2, <2>3, <2>4, ChargeAssumption DEF AnsweredOfKey, Answered
  <1>9. ASSUME NEW h0 \in Hashes, Mine(h0)
        PROVE  AnsweredOfKey'
    BY <1>9, ChargeAssumption DEF MppTypeOK, ChargeByPlace, AnsweredOfKey,
       Answered, Mine
  <1>10. CASE UNCHANGED mppVars
    BY <1>10 DEF MppTypeOK, ChargeByPlace, AnsweredOfKey, Answered,
       mppVars
  <1> QED
    BY <1>1, <1>2, <1>3, <1>4, <1>5, <1>6, <1>7, <1>8, <1>9, <1>10, Zenon
       DEF MppNext

LEMMA MppInductive == MppSpec => []MppInv
  <1>1. MppInit => MppInv
    BY ChargeAssumption
       DEF MppInit, Ledger!Init, MppInv, MppTypeOK, ChargeByPlace, AnsweredOfKey, Answered
  <1>2. MppInv /\ [MppNext]_mppVars => MppInv'
    BY MppTypeStep, ChargeStep, AnsweredStep DEF MppInv
  <1> QED BY <1>1, <1>2, PTL DEF MppSpec

(* A charge answered with ok has paid, and is told of the row of its key.  *)
THEOREM OkIsPaidHolds == MppSpec => []OkIsPaid
  <1>1. MppInv => OkIsPaid
    <2> SUFFICES ASSUME MppInv, NEW r \in Charges, Answered(r)
                 PROVE  /\ hash[r] \in mined
                        /\ key[answer[r].payment] = key[r]
                        /\ \/ answer[r].payment \notin Charges
                           \/ /\ status[answer[r].payment] = "settled"
                              /\ filed[answer[r].payment] \in mined
                           \/ /\ status[answer[r].payment] = "pending"
                              /\ place[answer[r].payment] = "done" =>
                                    answer[answer[r].payment].status = "error"
      BY DEF OkIsPaid, Answered
    <2>1. /\ hash[r] \in mined /\ answer[r].payment \in Requests
          /\ key[answer[r].payment] = key[r]
          /\ status[answer[r].payment] # "none"
      BY DEF MppInv, AnsweredOfKey
    <2>2. CASE answer[r].payment \in Charges
      <3> DEFINE p == answer[r].payment
      <3>1. status[p] \in {"pending", "settled"}
        BY <2>1, <2>2 DEF MppInv, MppTypeOK, ChargeByPlace
      <3>2. status[p] = "settled" => filed[p] \in mined
        BY <2>2 DEF MppInv, ChargeByPlace
      <3>3. status[p] = "pending" /\ place[p] = "done" => answer[p].status = "error"
        BY <2>2 DEF MppInv, ChargeByPlace
      <3> HIDE DEF p
      <3> QED BY <2>1, <3>1, <3>2, <3>3 DEF p
    <2> QED BY <2>1, <2>2
  <1> QED BY <1>1, MppInductive, PTL

(* A charge, like a settlement, is a step of the ledger or none.           *)
LEMMA ChargesAreLedgers == MppSpec => Ledger!Spec
  <1>1. MppInit => Ledger!Init
    BY DEF MppInit
  <1>2. [MppNext]_mppVars => [Ledger!Next]_(Ledger!vars)
    <2> SUFFICES ASSUME [MppNext]_mppVars
                 PROVE  Ledger!Next \/ UNCHANGED <<key, status, answer>>
      BY DEF Ledger!vars
    <2>1. ASSUME NEW r \in Charges, MppArrive(r)
          PROVE  Ledger!Next
      BY <2>1, ChargeAssumption, Zenon DEF MppArrive, Ledger!Next
    <2>2. ASSUME NEW r \in Charges, ReadReceipt(r)
          PROVE  Ledger!Next \/ UNCHANGED <<key, status, answer>>
      BY <2>2, ChargeAssumption DEF ReadReceipt, Ledger!Next
    <2>3. ASSUME NEW r \in Charges, MppCreate(r)
          PROVE  Ledger!Next
      BY <2>3, ChargeAssumption, Zenon DEF MppCreate, Ledger!Next
    <2>4. ASSUME NEW r \in Charges, MppFinalize(r)
          PROVE  Ledger!Next
      BY <2>4, ChargeAssumption DEF MppFinalize, Ledger!Next
    <2>5. ASSUME NEW r \in Charges, MppReply(r)
          PROVE  Ledger!Next
      BY <2>5, ChargeAssumption DEF MppReply, Ledger!Next
    <2>6. ASSUME NEW r \in Charges, MppFault(r)
          PROVE  Ledger!Next
      BY <2>6, ChargeAssumption, Zenon DEF MppFault, Ledger!Next
    <2>7. ASSUME NEW r \in Charges, MppCrash(r)
          PROVE  UNCHANGED <<key, status, answer>>
      BY <2>7 DEF MppCrash
    <2>8. ASSUME NEW r \in Requests \ Charges, MppOthers(r)
          PROVE  Ledger!Next
      BY <2>8 DEF MppOthers, Ledger!Next
    <2>9. ASSUME NEW h \in Hashes, Mine(h)
          PROVE  UNCHANGED <<key, status, answer>>
      BY <2>9 DEF Mine
    <2>10. CASE UNCHANGED mppVars
      BY <2>10 DEF mppVars
    <2> QED BY <2>1, <2>2, <2>3, <2>4, <2>5, <2>6, <2>7, <2>8, <2>9, <2>10, Zenon DEF MppNext
  <1> QED BY <1>1, <1>2, PTL DEF MppSpec, Ledger!Spec

(* What IdempotentPayment_proofs proves of the promise, said of this one.   *)
Kept == INSTANCE IdempotentPayment_proofs WITH Candid <- TRUE

LEMMA PromiseIsKept == Ledger!Spec => []Ledger!OneOutcome
  <1>1. Ledger!Init => Kept!Init
    BY DEF Ledger!Init, Kept!Init
  <1>2. [Ledger!Next]_(Ledger!vars) => [Kept!Next]_(Kept!vars)
    BY DEF Ledger!vars, Kept!vars, Ledger!Next, Kept!Next, Ledger!Arrive, Kept!Arrive,
       Ledger!Open, Kept!Open, Ledger!Opened, Kept!Opened, Ledger!Resolve,
       Kept!Resolve, Ledger!Answer, Kept!Answer, Ledger!Said, Kept!Said, Ledger!Error, Kept!Error
  <1>3. Kept!OneOutcome => Ledger!OneOutcome
    BY DEF Ledger!OneOutcome, Kept!OneOutcome, Ledger!Told, Kept!Told
  <1> QED BY <1>1, <1>2, <1>3, Kept!OneOutcomeHolds, PTL DEF Ledger!Spec, Kept!Spec

(* No two charges of one key are told of different payments or outcomes.   *)
THEOREM OneOutcomeToClients == MppSpec => []Ledger!OneOutcome
  BY ChargesAreLedgers, PromiseIsKept, PTL

-----------------------------------------------------------------------------
(* CDP's monthly cap                                                       *)

Routed == Settles \ Direct

(* What is on the month's counter, and what may yet be carried out in it   *)
(* or is.                                                                  *)
Counted(m) == {s \in Routed : made[s] = m /\ told[s] = "settled"}
Exposed == InFlight \union Counted(month)
MadeIn(m) == {s \in Routed : made[s] = m /\ told[s] # "error"}

SettleByPlace ==
    \A s \in Settles :
        /\ at[s] \in {"idle", "sign"} => tries[s] = 0 /\ made[s] = -1
        /\ told[s] = "none" <=> at[s] # "done"
        /\ at[s] = "count" \/ told[s] = "settled" => made[s] # -1
        /\ told[s] = "quota_exceeded" => tries[s] = 0 /\ made[s] = -1
        /\ made[s] <= month

(* The month's counter holds what was counted in it, so that at the last   *)
(* admission of a month less than the cap was; the rest was in flight.     *)
CapSoFar ==
    /\ Cardinality(Counted(month)) <= used[month]
    /\ Cardinality(InFlight) <= peak
    /\ Cardinality(Exposed) < Cap + peak
    /\ \A m \in Months : m < month => Cardinality(MadeIn(m)) < Cap + peak

CdpInv == CdpTypeOK /\ SettleByPlace /\ CapSoFar

LEMMA RoutedFinite ==
    ASSUME NEW S \in SUBSET Routed
    PROVE  IsFiniteSet(S) /\ Cardinality(S) \in Nat
  <1>1. S \subseteq Settles
    BY DEF Routed
  <1> QED BY <1>1, UsageAssumption, FS_Subset, FS_CardinalityType

LEMMA Smaller ==
    ASSUME NEW T \in SUBSET Routed, NEW S \in SUBSET T
    PROVE  Cardinality(S) <= Cardinality(T)
  BY RoutedFinite, FS_Subset

LEMMA Together ==
    ASSUME NEW S \in SUBSET Routed, NEW T \in SUBSET Routed
    PROVE  Cardinality(S \union T) <= Cardinality(S) + Cardinality(T)
  <1>1. Cardinality(S \union T) =
            Cardinality(S) + Cardinality(T) - Cardinality(S \intersect T)
    BY RoutedFinite, FS_Union
  <1>2. /\ Cardinality(S) \in Nat /\ Cardinality(T) \in Nat
        /\ Cardinality(S \intersect T) \in Nat
    BY RoutedFinite
  <1> QED BY <1>1, <1>2

LEMMA OneMore ==
    ASSUME NEW S, IsFiniteSet(S), NEW x
    PROVE  /\ IsFiniteSet(S \union {x})
           /\ Cardinality(S \union {x}) \in Nat
           /\ Cardinality(S \union {x}) <= Cardinality(S) + 1
  <1>1. IsFiniteSet(S \union {x}) /\ Cardinality(S) \in Nat
    BY FS_AddElement, FS_CardinalityType
  <1>2. Cardinality(S \union {x}) = IF x \in S THEN Cardinality(S) ELSE Cardinality(S) + 1
    BY FS_AddElement
  <1> QED BY <1>1, <1>2

LEMMA Parts ==
    /\ InFlight \subseteq Routed /\ Exposed \subseteq Routed
    /\ \A m : Counted(m) \subseteq Routed /\ MadeIn(m) \subseteq Routed
  BY DEF InFlight, Exposed, Counted, MadeIn, Routed

LEMMA PartsNext ==
    /\ InFlight' \subseteq Routed /\ Exposed' \subseteq Routed
    /\ \A m : Counted(m)' \subseteq Routed /\ MadeIn(m)' \subseteq Routed
  BY DEF InFlight, Exposed, Counted, MadeIn, Routed

(* What is carried out in the month is exposed.                            *)
LEMMA MadeIsExposed ==
    ASSUME CdpTypeOK, SettleByPlace
    PROVE  MadeIn(month) \subseteq Exposed
  <1> SUFFICES ASSUME NEW s \in Routed, made[s] = month, told[s] # "error",
                      told[s] # "settled"
               PROVE  s \in InFlight
    BY DEF MadeIn, Exposed, Counted
  <1>1. s \in Settles /\ made[s] # -1
    BY UsageAssumption DEF Routed, CdpTypeOK, Months
  <1>2. told[s] = "none" /\ at[s] \notin {"done", "idle", "sign"}
    BY <1>1 DEF CdpTypeOK, SettleByPlace
  <1> QED BY <1>1, <1>2 DEF CdpTypeOK, InFlight, Routed

(* A step that admits nothing and stays in its month keeps the cap.        *)
LEMMA CapKept ==
    ASSUME CdpTypeOK, CapSoFar, CdpTypeOK', UNCHANGED <<month, peak>>,
           InFlight' \subseteq InFlight,
           Exposed' \subseteq Exposed,
           Cardinality(Counted(month)') <= used'[month],
           \A m \in Months : m < month => MadeIn(m)' \subseteq MadeIn(m)
    PROVE  CapSoFar'
  <1>1. Cardinality(InFlight') <= Cardinality(InFlight)
    BY Parts, Smaller
  <1>2. Cardinality(Exposed') <= Cardinality(Exposed)
    BY Parts, Smaller
  <1>3. \A m \in Months : m < month => Cardinality(MadeIn(m)') <= Cardinality(MadeIn(m))
    BY Parts, Smaller
  <1>4. /\ Cardinality(InFlight) \in Nat /\ Cardinality(InFlight') \in Nat
        /\ Cardinality(Exposed) \in Nat /\ Cardinality(Exposed') \in Nat
        /\ \A m : Cardinality(MadeIn(m)) \in Nat /\ Cardinality(MadeIn(m)') \in Nat
    BY Parts, PartsNext, RoutedFinite
  <1>5. Cap \in Nat /\ peak \in Nat
    BY UsageAssumption DEF CdpTypeOK
  <1>6. Cardinality(InFlight') <= peak /\ Cardinality(Exposed') < Cap + peak
    BY <1>1, <1>2, <1>4, <1>5 DEF CapSoFar
  <1>7. \A m \in Months : m < month => Cardinality(MadeIn(m)') < Cap + peak
    BY <1>3, <1>4, <1>5 DEF CapSoFar
  <1>8. Cardinality(Counted(month))' <= used'[month']
    OBVIOUS
  <1> QED BY <1>6, <1>7, <1>8 DEF CapSoFar

(* Type correctness.                                                       *)
LEMMA CdpTypeStep ==
    ASSUME CdpTypeOK, [CdpNext]_cdpVars
    PROVE  CdpTypeOK'
  <1>1. ASSUME NextMonth
        PROVE  CdpTypeOK'
    BY <1>1, UsageAssumption DEF CdpTypeOK, Months, NextMonth
  <1>2. ASSUME NEW s0 \in Settles, supports(s0)
        PROVE  CdpTypeOK'
    <2>1. at' \in [Settles -> {"idle", "sign", "post", "count", "done"}]
      BY <1>2 DEF supports, Moves, Ends, CdpTypeOK
    <2>2. told' \in [Settles -> {"none", "settled", "error", "quota_exceeded"}]
      BY <1>2 DEF supports, Moves, Ends, CdpTypeOK
    <2>3. peak' \in {peak, peak + 1}
      BY <1>2 DEF supports
    <2> QED BY <1>2, <2>1, <2>2, <2>3 DEF supports, CdpTypeOK
  <1>3. ASSUME NEW s0 \in Settles, Arrive(s0)
        PROVE  CdpTypeOK'
    BY <1>3, UsageAssumption DEF CdpTypeOK, Months, Arrive, Moves
  <1>4. ASSUME NEW s0 \in Settles, Sign(s0)
        PROVE  CdpTypeOK'
    BY <1>4, UsageAssumption DEF CdpTypeOK, Months, Sign, Moves, Ends
  <1>5. ASSUME NEW s0 \in Settles, Make(s0)
        PROVE  CdpTypeOK'
    BY <1>5, UsageAssumption DEF CdpTypeOK, Months, Make
  <1>6. ASSUME NEW s0 \in Settles, Post(s0)
        PROVE  CdpTypeOK'
    <2>1. at' \in [Settles -> {"idle", "sign", "post", "count", "done"}]
      BY <1>6 DEF Post, Moves, Ends, CdpTypeOK
    <2>2. told' \in [Settles -> {"none", "settled", "error", "quota_exceeded"}]
      BY <1>6 DEF Post, Moves, Ends, CdpTypeOK
    <2>3. tries' \in [Settles -> Nat]
      BY <1>6 DEF Post, CdpTypeOK
    <2> QED BY <1>6, <2>1, <2>2, <2>3 DEF Post, CdpTypeOK
  <1>7. ASSUME NEW s0 \in Settles, Increment(s0)
        PROVE  CdpTypeOK'
    <2>1. at' \in [Settles -> {"idle", "sign", "post", "count", "done"}]
      BY <1>7 DEF Increment, Ends, CdpTypeOK
    <2>2. told' \in [Settles -> {"none", "settled", "error", "quota_exceeded"}]
      BY <1>7 DEF Increment, Ends, CdpTypeOK
    <2>3. used' \in [Months -> Nat]
      BY <1>7 DEF Increment, CdpTypeOK
    <2> QED BY <1>7, <2>1, <2>2, <2>3 DEF Increment, CdpTypeOK
  <1>8. CASE UNCHANGED cdpVars
    BY <1>8 DEF CdpTypeOK, Months, cdpVars
  <1> QED
    BY <1>1, <1>2, <1>3, <1>4, <1>5, <1>6, <1>7, <1>8, Zenon DEF CdpNext

(* Settlements by place.                                                   *)
LEMMA SettleStep ==
    ASSUME CdpTypeOK, SettleByPlace, [CdpNext]_cdpVars
    PROVE  SettleByPlace'
  <1>1. ASSUME NextMonth
        PROVE  SettleByPlace'
    BY <1>1, UsageAssumption DEF CdpTypeOK, SettleByPlace, Months,
       NextMonth
  <1>2. ASSUME NEW s0 \in Settles, supports(s0)
        PROVE  SettleByPlace'
    BY <1>2, UsageAssumption DEF CdpTypeOK, SettleByPlace, Months,
       supports, HasQuota, Moves, Ends
  <1>3. ASSUME NEW s0 \in Settles, Arrive(s0)
        PROVE  SettleByPlace'
    BY <1>3, UsageAssumption DEF CdpTypeOK, SettleByPlace, Months, Arrive,
       Moves
  <1>4. ASSUME NEW s0 \in Settles, Sign(s0)
        PROVE  SettleByPlace'
    BY <1>4, UsageAssumption DEF CdpTypeOK, SettleByPlace, Months, Sign,
       Moves, Ends
  <1>5. ASSUME NEW s0 \in Settles, Make(s0)
        PROVE  SettleByPlace'
    BY <1>5, UsageAssumption DEF CdpTypeOK, SettleByPlace, Months, Make
  <1>6. ASSUME NEW s0 \in Settles, Post(s0)
        PROVE  SettleByPlace'
    BY <1>6, UsageAssumption, SMTT(60) DEF CdpTypeOK, SettleByPlace, Months, Post,
       Moves, Ends
  <1>7. ASSUME NEW s0 \in Settles, Increment(s0)
        PROVE  SettleByPlace'
    BY <1>7, UsageAssumption DEF CdpTypeOK, SettleByPlace, Months,
       Increment, Ends
  <1>8. CASE UNCHANGED cdpVars
    BY <1>8 DEF CdpTypeOK, SettleByPlace, Months, cdpVars
  <1> QED
    BY <1>1, <1>2, <1>3, <1>4, <1>5, <1>6, <1>7, <1>8, Zenon DEF CdpNext

(* The cap.                                                                *)
LEMMA CapStep ==
    ASSUME CdpTypeOK, CdpTypeOK', SettleByPlace, CapSoFar,
       [CdpNext]_cdpVars
    PROVE  CapSoFar'
  <1>1. ASSUME NextMonth
        PROVE  CapSoFar'
    <2>1. /\ month' = month + 1 /\ UNCHANGED <<used, at, tries, made, told, peak>>
          /\ month \in Months /\ month' \in Months
      BY <1>1 DEF NextMonth, CdpTypeOK
    <2>2. Cap \in Nat \ {0} /\ peak \in Nat /\ used[month'] \in Nat
      BY <2>1, UsageAssumption DEF CdpTypeOK
    <2>3. InFlight' = InFlight
      BY <2>1 DEF InFlight
    <2>4. Counted(month)' = {}
      <3> SUFFICES ASSUME NEW s \in Routed, made[s] = month + 1
                   PROVE  FALSE
        BY <2>1 DEF Counted
      <3>1. made[s] <= month /\ month \in Int
        BY <2>1, UsageAssumption DEF SettleByPlace, Routed, Months
      <3> QED BY <3>1
    <2>5. Exposed' = InFlight
      BY <2>3, <2>4 DEF Exposed
    <2>6. Cardinality(Counted(month)') = 0
      BY <2>4, FS_EmptySet
    <2>7. Cardinality(InFlight) \in Nat /\ Cardinality(InFlight) <= peak
      BY Parts, RoutedFinite DEF CapSoFar
    <2>8. Cardinality(MadeIn(month)) < Cap + peak
      <3>1. Cardinality(MadeIn(month)) <= Cardinality(Exposed)
        BY MadeIsExposed, Parts, Smaller
      <3>2. Cardinality(MadeIn(month)) \in Nat /\ Cardinality(Exposed) \in Nat
        BY Parts, RoutedFinite
      <3> QED BY <2>2, <3>1, <3>2 DEF CapSoFar
    <2>9. \A m \in Months : m < month' => Cardinality(MadeIn(m)') < Cap + peak
      <3> SUFFICES ASSUME NEW m \in Months, m < month + 1
                   PROVE  Cardinality(MadeIn(m)) < Cap + peak
        BY <2>1 DEF MadeIn
      <3>1. m = month \/ m < month
        BY <2>1, UsageAssumption DEF Months
      <3> QED BY <2>8, <3>1 DEF CapSoFar
    <2>10. /\ Cardinality(Counted(month)') <= used'[month']
           /\ Cardinality(InFlight') <= peak'
           /\ Cardinality(Exposed') < Cap + peak'
      BY <2>1, <2>2, <2>3, <2>5, <2>6, <2>7
    <2> QED BY <2>1, <2>9, <2>10 DEF CapSoFar
  <1>2. ASSUME NEW s0 \in Settles, supports(s0)
        PROVE  CapSoFar'
    <2>1. /\ UNCHANGED <<month, used, tries, made>> /\ s0 \in Routed /\ at[s0] = "idle"
          /\ month \in Months /\ made[s0] = -1
          /\ peak \in Nat /\ Cap \in Nat /\ used[month] \in Nat
      BY <1>2, UsageAssumption DEF supports, Moves, Ends, CdpTypeOK, SettleByPlace, Routed
    <2>2. /\ Cardinality(InFlight) \in Nat /\ Cardinality(InFlight') \in Nat
          /\ IsFiniteSet(InFlight)
          /\ Cardinality(Counted(month)) \in Nat /\ Cardinality(Exposed) \in Nat
          /\ Cardinality(Exposed') \in Nat
          /\ \A m : Cardinality(MadeIn(m)) \in Nat
      BY Parts, PartsNext, RoutedFinite
    <2>3. peak' \in Nat /\ peak <= peak' /\
          peak' = IF Cardinality(InFlight') > peak THEN peak + 1 ELSE peak
      BY <1>2, <2>1 DEF supports
    <2>4. InFlight' \subseteq InFlight \union {s0}
      BY <1>2 DEF supports, Moves, Ends, InFlight, CdpTypeOK
    <2>5. Cardinality(InFlight') <= Cardinality(InFlight) + 1
      <3>1. /\ IsFiniteSet(InFlight \union {s0})
            /\ Cardinality(InFlight \union {s0}) <= Cardinality(InFlight) + 1
            /\ Cardinality(InFlight \union {s0}) \in Nat
        BY <2>2, FS_AddElement, FS_CardinalityType
      <3>2. Cardinality(InFlight') <= Cardinality(InFlight \union {s0})
        BY <2>4, <3>1, FS_Subset
      <3> QED BY <2>2, <3>1, <3>2
    <2>6. Cardinality(InFlight') <= peak'
      BY <2>1, <2>2, <2>3, <2>5 DEF CapSoFar
    <2>7. Counted(month)' = Counted(month)
      BY <1>2, <2>1 DEF supports, Moves, Ends, Counted, Routed, CdpTypeOK, SettleByPlace
    <2>8. \A m \in Months : MadeIn(m)' = MadeIn(m)
      BY <1>2, <2>1 DEF supports, Moves, Ends, MadeIn, Routed, CdpTypeOK, SettleByPlace
    <2>9. Cardinality(Exposed') < Cap + peak'
      <3>1. CASE HasQuota(s0)
        <4>1. Cardinality(Exposed') <= Cardinality(InFlight') + Cardinality(Counted(month))
          BY <2>1, <2>7, Parts, PartsNext, Together DEF Exposed
        <4>2. Cardinality(Counted(month)) < Cap
          BY <2>1, <2>2, <3>1 DEF CapSoFar, HasQuota
        <4> QED BY <2>1, <2>2, <2>3, <2>6, <4>1, <4>2
      <3>2. CASE ~HasQuota(s0)
        <4>1. InFlight' \subseteq InFlight
          BY <1>2, <3>2 DEF supports, Ends, InFlight, CdpTypeOK
        <4>2. Exposed' \subseteq Exposed
          BY <2>1, <2>7, <4>1 DEF Exposed
        <4>3. Cardinality(Exposed') <= Cardinality(Exposed)
          BY <4>2, Parts, Smaller
        <4> QED BY <2>1, <2>2, <2>3, <4>3 DEF CapSoFar
      <3> QED BY <3>1, <3>2
    <2>10. \A m \in Months : m < month => Cardinality(MadeIn(m)') < Cap + peak'
      BY <2>1, <2>2, <2>3, <2>8 DEF CapSoFar
    <2>11. Cardinality(Counted(month)') <= used[month]
      BY <2>7 DEF CapSoFar
    <2> QED BY <2>1, <2>6, <2>9, <2>10, <2>11 DEF CapSoFar
  <1>3. ASSUME NEW s0 \in Settles, Arrive(s0)
        PROVE  CapSoFar'
    <2>1. UNCHANGED <<month, peak>>
      BY <1>3 DEF Arrive, Moves
    <2>2. InFlight' \subseteq InFlight
      BY <1>3 DEF Arrive, Moves, InFlight, CdpTypeOK
    <2>3. Counted(month)' = Counted(month) /\ used' = used
      BY <1>3 DEF Arrive, Moves, Counted, Routed, CdpTypeOK, SettleByPlace
    <2>4. Exposed' \subseteq Exposed
      BY <2>1, <2>2, <2>3 DEF Exposed
    <2>5. \A m \in Months : m < month => MadeIn(m)' \subseteq MadeIn(m)
      BY <1>3 DEF Arrive, Moves, MadeIn, Routed, CdpTypeOK, SettleByPlace
    <2>6. Cardinality(Counted(month)') <= used'[month]
      BY <2>3 DEF CapSoFar
    <2> QED BY <2>1, <2>2, <2>4, <2>5, <2>6, CapKept
  <1>4. ASSUME NEW s0 \in Settles, Sign(s0)
        PROVE  CapSoFar'
    <2>1. UNCHANGED <<month, peak>>
      BY <1>4 DEF Sign, Moves, Ends
    <2>2. InFlight' \subseteq InFlight
      BY <1>4 DEF Sign, Moves, Ends, InFlight, CdpTypeOK
    <2>3. Counted(month)' = Counted(month) /\ used' = used
      BY <1>4 DEF Sign, Moves, Ends, Counted, Routed, CdpTypeOK, SettleByPlace
    <2>4. Exposed' \subseteq Exposed
      BY <2>1, <2>2, <2>3 DEF Exposed
    <2>5. \A m \in Months : m < month => MadeIn(m)' \subseteq MadeIn(m)
      BY <1>4 DEF Sign, Moves, Ends, MadeIn, Routed, CdpTypeOK, SettleByPlace
    <2>6. Cardinality(Counted(month)') <= used'[month]
      BY <2>3 DEF CapSoFar
    <2> QED BY <2>1, <2>2, <2>4, <2>5, <2>6, CapKept
  <1>5. ASSUME NEW s0 \in Settles, Make(s0)
        PROVE  CapSoFar'
    <2>1. UNCHANGED <<month, peak>>
      BY <1>5 DEF Make
    <2>2. InFlight' \subseteq InFlight
      BY <1>5 DEF Make, InFlight, CdpTypeOK
    <2>3. Counted(month)' = Counted(month) /\ used' = used
      BY <1>5 DEF Make, Counted, Routed, CdpTypeOK, SettleByPlace
    <2>4. Exposed' \subseteq Exposed
      BY <2>1, <2>2, <2>3 DEF Exposed
    <2>5. \A m \in Months : m < month => MadeIn(m)' \subseteq MadeIn(m)
      BY <1>5, UsageAssumption DEF Make, MadeIn, Routed, CdpTypeOK, SettleByPlace, Months
    <2>6. Cardinality(Counted(month)') <= used'[month]
      BY <2>3 DEF CapSoFar
    <2> QED BY <2>1, <2>2, <2>4, <2>5, <2>6, CapKept
  <1>6. ASSUME NEW s0 \in Settles, Post(s0)
        PROVE  CapSoFar'
    <2>1. UNCHANGED <<month, peak>>
      BY <1>6 DEF Post, Moves, Ends
    <2>2. InFlight' \subseteq InFlight
      BY <1>6 DEF Post, Moves, Ends, InFlight, CdpTypeOK
    <2>3. Counted(month)' = Counted(month) /\ used' = used
      BY <1>6 DEF Post, Moves, Ends, Counted, Routed, CdpTypeOK, SettleByPlace
    <2>4. Exposed' \subseteq Exposed
      BY <2>1, <2>2, <2>3 DEF Exposed
    <2>5. \A m \in Months : m < month => MadeIn(m)' \subseteq MadeIn(m)
      BY <1>6 DEF Post, Moves, Ends, MadeIn, Routed, CdpTypeOK, SettleByPlace
    <2>6. Cardinality(Counted(month)') <= used'[month]
      BY <2>3 DEF CapSoFar
    <2> QED BY <2>1, <2>2, <2>4, <2>5, <2>6, CapKept
  <1>7. ASSUME NEW s0 \in Settles, Increment(s0)
        PROVE  CapSoFar'
    <2>1. UNCHANGED <<month, peak, made>> /\ month \in Months
      BY <1>7 DEF Increment, CdpTypeOK
    <2>2. InFlight' \subseteq InFlight
      BY <1>7 DEF Increment, Ends, InFlight, CdpTypeOK
    <2>3. Counted(month)' \subseteq Counted(month) \union InFlight
      BY <1>7 DEF Increment, Ends, Counted, InFlight, Routed, CdpTypeOK
    <2>4. Exposed' \subseteq Exposed
      BY <2>1, <2>2, <2>3 DEF Exposed
    <2>5. \A m \in Months : m < month => MadeIn(m)' \subseteq MadeIn(m)
      <3>1. told[s0] = "none"
        BY <1>7 DEF Increment, Ends, CdpTypeOK, SettleByPlace
      <3>2. \A s \in Settles \ {s0} : told'[s] = told[s]
        BY <1>7 DEF Increment, Ends, CdpTypeOK
      <3> QED BY <2>1, <3>1, <3>2 DEF MadeIn, Routed
    <2>6. /\ IsFiniteSet(Counted(month)) /\ Cardinality(Counted(month)) \in Nat
          /\ Cardinality(Counted(month)') \in Nat
          /\ used[month] \in Nat
      BY <2>1, Parts, PartsNext, RoutedFinite DEF CdpTypeOK
    <2>7. Cardinality(Counted(month)') <= used'[month]
      <3>1. CASE told' = [told EXCEPT ![s0] = "settled"]
        <4>1. used'[month] = used[month] + 1
          <5>1. told'[s0] # "error"
            BY <3>1 DEF CdpTypeOK
          <5> QED BY <1>7, <2>1, <5>1 DEF Increment, CdpTypeOK
        <4>2. Counted(month)' \subseteq Counted(month) \union {s0}
          BY <2>1, <3>1 DEF Counted, CdpTypeOK
        <4>3. /\ IsFiniteSet(Counted(month) \union {s0})
              /\ Cardinality(Counted(month) \union {s0}) <= Cardinality(Counted(month)) + 1
              /\ Cardinality(Counted(month) \union {s0}) \in Nat
          BY <2>6, OneMore
        <4>4. Cardinality(Counted(month)') <= Cardinality(Counted(month) \union {s0})
          BY <4>2, <4>3, FS_Subset
        <4> QED BY <2>6, <4>1, <4>3, <4>4 DEF CapSoFar
      <3>2. CASE told' = [told EXCEPT ![s0] = "error"]
        <4>1. Counted(month)' \subseteq Counted(month)
          BY <2>1, <3>2 DEF Counted, CdpTypeOK
        <4>2. Cardinality(Counted(month)') <= Cardinality(Counted(month))
          BY <4>1, Parts, Smaller
        <4>3. used'[month] \in {used[month], used[month] + 1}
          BY <1>7, <2>1 DEF Increment, CdpTypeOK
        <4> QED BY <2>6, <4>2, <4>3 DEF CapSoFar
      <3> QED BY <1>7, <3>1, <3>2 DEF Increment, Ends
    <2> QED BY <2>1, <2>2, <2>4, <2>5, <2>7, CapKept
  <1>8. CASE UNCHANGED cdpVars
    <2>1. UNCHANGED <<month, used, at, tries, made, told, peak>>
      BY <1>8 DEF cdpVars
    <2> QED BY <2>1 DEF CapSoFar, InFlight, Exposed, Counted, MadeIn
  <1> QED
    BY <1>1, <1>2, <1>3, <1>4, <1>5, <1>6, <1>7, <1>8, Zenon DEF CdpNext

LEMMA CdpInductive == CdpSpec => []CdpInv
  <1>1. CdpInit => CdpInv
    <2> SUFFICES ASSUME CdpInit
                 PROVE  CdpInv
      OBVIOUS
    <2>1. CdpTypeOK /\ SettleByPlace
      BY UsageAssumption DEF CdpInit, CdpTypeOK, SettleByPlace, Months
    <2>2. InFlight = {} /\ Counted(month) = {} /\ Exposed = {}
      <3>1. \A s \in Settles : at[s] = "idle" /\ told[s] = "none"
        BY DEF CdpInit
      <3>2. InFlight = {} /\ Counted(month) = {}
        BY <3>1 DEF InFlight, Counted, Routed
      <3> QED BY <3>2 DEF Exposed
    <2>3. Cardinality({}) = 0
      BY FS_EmptySet
    <2>4. used[month] = 0 /\ peak = 0 /\ month = 0 /\ Cap \in Nat \ {0}
      BY UsageAssumption DEF CdpInit, Months
    <2>5. \A m \in Months : ~(m < month)
      BY <2>4, UsageAssumption DEF Months
    <2> QED BY <2>1, <2>2, <2>3, <2>4, <2>5 DEF CdpInv, CapSoFar
  <1>2. CdpInv /\ [CdpNext]_cdpVars => CdpInv'
    BY CdpTypeStep, SettleStep, CapStep DEF CdpInv
  <1> QED BY <1>1, <1>2, PTL DEF CdpSpec

(* For any cap, any number of settlements and any number of months, a      *)
(* month exceeds the cap by less than was in flight together and by what   *)
(* was carried out although settle() threw.                                *)
THEOREM CapIsKeptHolds == CdpSpec => []CapIsKept
  <1>1. CdpInv => CapIsKept
    <2> SUFFICES ASSUME CdpInv, NEW m \in Months
                 PROVE  Cardinality({s \in Routed : made[s] = m})
                            < Cap + peak + Cardinality({s \in Routed : told[s] = "error"})
      BY DEF CapIsKept, Routed
    <2> USE DEF CdpInv
    <2> DEFINE All == {s \in Routed : made[s] = m}
               Errors == {s \in Routed : told[s] = "error"}
    <2>1. Cardinality(All) <= Cardinality(MadeIn(m)) + Cardinality(Errors)
      <3>1. All \subseteq MadeIn(m) \union Errors
        BY DEF MadeIn
      <3>2. Cardinality(All) <= Cardinality(MadeIn(m) \union Errors)
        BY <3>1, Parts, Smaller
      <3>3. Cardinality(MadeIn(m) \union Errors) <= Cardinality(MadeIn(m)) + Cardinality(Errors)
        BY Parts, Together
      <3>4. /\ Cardinality(All) \in Nat /\ Cardinality(MadeIn(m) \union Errors) \in Nat
            /\ Cardinality(MadeIn(m)) \in Nat /\ Cardinality(Errors) \in Nat
        BY Parts, RoutedFinite
      <3> QED BY <3>2, <3>3, <3>4
    <2>2. Cardinality(MadeIn(m)) < Cap + peak
      <3>1. CASE m < month
        BY <3>1 DEF CapSoFar
      <3>2. CASE m = month
        <4>1. Cardinality(MadeIn(m)) <= Cardinality(Exposed)
          BY <3>2, MadeIsExposed, Parts, Smaller
        <4>2. /\ Cardinality(MadeIn(m)) \in Nat /\ Cardinality(Exposed) \in Nat
              /\ Cap \in Nat /\ peak \in Nat
          BY Parts, RoutedFinite, UsageAssumption DEF CdpTypeOK
        <4> QED BY <4>1, <4>2 DEF CapSoFar
      <3>3. CASE m > month
        <4>1. \A s \in Routed : made[s] # m
          BY <3>3, UsageAssumption DEF SettleByPlace, Routed, Months, CdpTypeOK
        <4>2. MadeIn(m) = {}
          BY <4>1 DEF MadeIn
        <4>3. Cardinality(MadeIn(m)) = 0 /\ Cap \in Nat \ {0} /\ peak \in Nat
          BY <4>2, FS_EmptySet, UsageAssumption DEF CdpTypeOK
        <4> QED BY <4>3
      <3> QED BY <3>1, <3>2, <3>3, UsageAssumption DEF CdpTypeOK, Months
    <2>3. /\ Cardinality(All) \in Nat /\ Cardinality(MadeIn(m)) \in Nat
          /\ Cardinality(Errors) \in Nat /\ Cap \in Nat /\ peak \in Nat
      BY Parts, RoutedFinite, UsageAssumption DEF CdpTypeOK
    <2> HIDE DEF All, Errors
    <2>4. Cardinality(All) < Cap + peak + Cardinality(Errors)
      BY <2>1, <2>2, <2>3
    <2> QED BY <2>4 DEF All, Errors
  <1> QED BY <1>1, CdpInductive, PTL

-----------------------------------------------------------------------------
(* The catalogue: while a source is read, what it lists all along the pass *)
(* has been read or is ahead; while its entries are written, those that    *)
(* are behind are on display unless another source took them over. Two     *)
(* passes meet only if an administrator started one, and then neither      *)
(* promises anything.                                                      *)

(* What a steady entry is, while its source is read: read, or ahead.       *)
OnPage(e, r) ==
    \/ e \in Entries(out[r])
    \/ \E n \in DOMAIN list[SourceOf(r)] :
        n > Len(out[r]) /\ list[SourceOf(r)][n] = e

Reading ==
    \A r \in Syncs : phase[r] = "fetch" =>
        upserted[r] = 0 /\ \A e \in steady[r] : OnPage(e, r)

Written ==
    \A r \in Syncs : phase[r] = "write" =>
        /\ steady[r] \subseteq Entries(out[r])
        /\ \A n \in DOMAIN out[r] :
            /\ n <= upserted[r] /\ out[r][n] \in steady[r]
            /\ source[out[r][n]] = SourceOf(r)
            => out[r][n] \in live

Uncrossed ==
    \A q, r \in Syncs : q # r /\ Running(q) /\ Running(r) =>
        {q, r} \intersect manual # {} /\ steady[r] = {} /\ absent[r] = {}

Unlisted ==
    /\ \A r \in Syncs :
        Running(r) => absent[r] \intersect Entries(list[SourceOf(r)]) = {}
    /\ \A s \in SourceIds : delisted[s] \intersect Entries(list[s]) = {}
    /\ \A r \in Syncs : Entries(out[r]) \intersect delisted[SourceOf(r)] = {}

Resting == \A r \in Syncs : ~Running(r) => out[r] = <<>>

CatalogInv ==
    /\ CatalogTypeOK /\ Resting /\ Reading /\ Written /\ Uncrossed /\ Unlisted
    /\ ListedIsVisible /\ DelistedIsHidden

LEMMA SourceOfTyped ==
    ASSUME CatalogTypeOK, NEW r \in Syncs
    PROVE  SourceOf(r) \in SourceIds
  BY CatalogAssumption DEF CatalogTypeOK, SourceOf

LEMMA WithTyped ==
    ASSUME NEW S, NEW l \in Seq(S), NEW e \in S, NEW n \in 1 .. Len(l) + 1
    PROVE  /\ With(l, e, n) \in Seq(S)
           /\ Entries(With(l, e, n)) \subseteq Entries(l) \union {e}
           /\ \A m \in DOMAIN l : \E j \in DOMAIN With(l, e, n) :
                j >= m /\ With(l, e, n)[j] = l[m]
  <1> DEFINE k == With(l, e, n)
  <1>1. Len(l) \in Nat /\ DOMAIN l = 1 .. Len(l) /\ \A m \in 1 .. Len(l) : l[m] \in S
    OBVIOUS
  <1>2. k = [m \in 1 .. Len(l) + 1 |->
                IF m < n THEN l[m] ELSE IF m = n THEN e ELSE l[m - 1]]
    BY DEF With
  <1> HIDE DEF k
  <1>3. DOMAIN k = 1 .. Len(l) + 1
    BY <1>2
  <1>4. \A m \in 1 .. Len(l) + 1 : k[m] \in S /\ k[m] \in Entries(l) \union {e}
    BY <1>1, <1>2 DEF Entries
  <1>5. k \in Seq(S)
    BY <1>1, <1>3, <1>4, <1>2, IsASeq
  <1>6. Entries(k) \subseteq Entries(l) \union {e}
    BY <1>3, <1>4 DEF Entries
  <1>7. ASSUME NEW m \in DOMAIN l
        PROVE  \E j \in DOMAIN k : j >= m /\ k[j] = l[m]
    <2>1. CASE m < n
      BY <2>1, <1>1, <1>2, <1>3
    <2>2. CASE m >= n
      <3>1. m + 1 \in DOMAIN k /\ k[m + 1] = l[m] /\ m + 1 >= m
        BY <2>2, <1>1, <1>2, <1>3
      <3> QED  BY <3>1
    <2> QED  BY <2>1, <2>2, <1>1
  <1> QED  BY <1>5, <1>6, <1>7 DEF k

LEMMA WithoutTyped ==
    ASSUME NEW S, NEW l \in Seq(S), NEW n \in 1 .. Len(l)
    PROVE  /\ Without(l, n) \in Seq(S)
           /\ Entries(Without(l, n)) \subseteq Entries(l)
           /\ \A m \in DOMAIN l : m < n => m \in DOMAIN Without(l, n) /\ Without(l, n)[m] = l[m]
           /\ \A m \in DOMAIN l : m > n =>
                m - 1 \in DOMAIN Without(l, n) /\ Without(l, n)[m - 1] = l[m]
  <1> DEFINE k == Without(l, n)
  <1>1. Len(l) \in Nat /\ DOMAIN l = 1 .. Len(l) /\ \A m \in 1 .. Len(l) : l[m] \in S
    OBVIOUS
  <1>2. k = [m \in 1 .. Len(l) - 1 |-> IF m < n THEN l[m] ELSE l[m + 1]]
    BY DEF Without
  <1> HIDE DEF k
  <1>3. DOMAIN k = 1 .. Len(l) - 1
    BY <1>2
  <1>4. \A m \in 1 .. Len(l) - 1 : k[m] \in S /\ k[m] \in Entries(l)
    BY <1>1, <1>2 DEF Entries
  <1>5. k \in Seq(S)
    BY <1>1, <1>3, <1>4, <1>2, IsASeq
  <1>6. Entries(k) \subseteq Entries(l)
    BY <1>3, <1>4 DEF Entries
  <1>7. \A m \in DOMAIN l : m < n => m \in DOMAIN k /\ k[m] = l[m]
    BY <1>1, <1>2, <1>3
  <1>8. \A m \in DOMAIN l : m > n => m - 1 \in DOMAIN k /\ k[m - 1] = l[m]
    BY <1>1, <1>2, <1>3
  <1> QED  BY <1>5, <1>6, <1>7, <1>8 DEF k

LEMMA AppendEntries ==
    ASSUME NEW S, NEW l \in Seq(S), NEW e \in S
    PROVE  /\ Append(l, e) \in Seq(S)
           /\ Len(Append(l, e)) = Len(l) + 1
           /\ Entries(Append(l, e)) = Entries(l) \union {e}
  <1>1. Len(Append(l, e)) = Len(l) + 1 /\ Append(l, e) \in Seq(S)
    OBVIOUS
  <1>2. \A m \in 1 .. Len(l) : Append(l, e)[m] = l[m]
    OBVIOUS
  <1>3. Append(l, e)[Len(l) + 1] = e
    OBVIOUS
  <1>4. Len(l) \in Nat /\ DOMAIN l = 1 .. Len(l) /\ DOMAIN Append(l, e) = 1 .. Len(l) + 1
    OBVIOUS
  <1> QED  BY <1>1, <1>2, <1>3, <1>4 DEF Entries

LEMMA EmptyEntries == Entries(<<>>) = {}
  BY DEF Entries

LEMMA CatalogInitInv == CatalogInit => CatalogInv
  <1> SUFFICES ASSUME CatalogInit PROVE CatalogInv
    OBVIOUS
  <1>1. 1 \in DOMAIN SOURCES
    BY CatalogAssumption, EmptySeq
  <1>2. CatalogTypeOK
    BY <1>1, CatalogAssumption DEF CatalogInit, CatalogTypeOK, Syncs
  <1>3. Reading /\ Written /\ Uncrossed
    BY DEF CatalogInit, Reading, Written, Uncrossed, Running
  <1>4. Unlisted
    BY EmptyEntries, <1>2, SourceOfTyped DEF CatalogInit, Unlisted, Running
  <1>5. ListedIsVisible /\ DelistedIsHidden
    BY DEF CatalogInit, ListedIsVisible, DelistedIsHidden
  <1>6. Resting
    BY DEF CatalogInit, Resting
  <1> QED  BY <1>6, <1>2, <1>3, <1>4, <1>5 DEF CatalogInv

LEMMA InsertInv ==
    ASSUME CatalogInv, NEW s \in SourceIds, NEW e \in Endpoints,
           NEW n \in 1 .. Len(list[s]) + 1, Insert(s, e, n)
    PROVE  CatalogInv'
  <1> DEFINE k == With(list[s], e, n)
  <1> USE DEF CatalogInv
  <1>1. /\ list[s] \in Seq(Endpoints)
        /\ list' = [list EXCEPT ![s] = k]
        /\ list' \in [SourceIds -> Seq(Endpoints)] /\ list'[s] = k
        /\ \A t \in SourceIds : t # s => list'[t] = list[t]
    BY WithTyped DEF Insert, CatalogTypeOK
  <1>2. /\ Entries(k) \subseteq Entries(list[s]) \union {e}
        /\ \A m \in DOMAIN list[s] : \E j \in DOMAIN k : j >= m /\ k[j] = list[s][m]
    BY <1>1, WithTyped
  <1>0. UNCHANGED <<source, live, due, lastUrls, phase, manual, turn, out, upserted, steady>>
    BY DEF Insert
  <1> HIDE DEF k
  <1>3. CatalogTypeOK'
    <2>1. changes' \in 0 .. MaxChanges
      BY CatalogAssumption DEF CatalogTypeOK, Insert
    <2>2. absent' \in [Syncs -> SUBSET Endpoints]
      BY DEF CatalogTypeOK, Insert
    <2>3. delisted' \in [SourceIds -> SUBSET Endpoints]
      BY DEF CatalogTypeOK, Insert
    <2> QED  BY <2>1, <2>2, <2>3, <1>1, <1>0 DEF CatalogTypeOK
  <1>4. ASSUME NEW r \in Syncs
        PROVE  SourceOf(r)' = SourceOf(r) /\ SourceOf(r) \in SourceIds
    BY SourceOfTyped, <1>0 DEF SourceOf
  <1>5. ASSUME NEW r \in Syncs, NEW x, OnPage(x, r)
        PROVE  OnPage(x, r)'
    <2>1. CASE x \in Entries(out[r])
      BY <2>1, <1>0 DEF OnPage
    <2>2. CASE \E m \in DOMAIN list[SourceOf(r)] : m > Len(out[r]) /\ list[SourceOf(r)][m] = x
      <3>1. PICK m \in DOMAIN list[SourceOf(r)] : m > Len(out[r]) /\ list[SourceOf(r)][m] = x
        BY <2>2
      <3>2. CASE SourceOf(r) # s
        BY <3>1, <3>2, <1>0, <1>1, <1>4 DEF OnPage
      <3>3. CASE SourceOf(r) = s
        <4>1. PICK j \in DOMAIN k : j >= m /\ k[j] = x
          BY <3>1, <3>3, <1>2
        <4>2. j > Len(out[r]) /\ j \in DOMAIN list'[s] /\ list'[s][j] = x
          <5>1. out[r] \in Seq(Endpoints) /\ Len(out[r]) \in Nat
            BY DEF CatalogTypeOK
          <5>2. m \in Nat
            BY <3>1, <3>3, <1>1
          <5>3. k \in Seq(Endpoints) /\ j \in Nat
            BY <1>1, <4>1, <1>3 DEF CatalogTypeOK
          <5>4. j > Len(out[r])
            BY <5>1, <5>2, <5>3, <4>1, <3>1
          <5> QED  BY <5>4, <4>1, <1>1
        <4> QED  BY <4>2, <3>3, <1>0, <1>4 DEF OnPage
      <3> QED  BY <3>2, <3>3
    <2> QED  BY <1>5, <2>1, <2>2 DEF OnPage
  <1>6. Reading'
    BY <1>0, <1>5 DEF Reading
  <1>7. Written'
    BY <1>0, <1>4 DEF Written
  <1>8. Uncrossed'
    <2>1. \A r \in Syncs : absent'[r] \subseteq absent[r]
      BY DEF Insert
    <2> QED  BY <2>1, <1>0 DEF Uncrossed, Running
  <1>9. Unlisted'
    <2>1. \A r \in Syncs : absent'[r] = IF SourceOf(r) = s THEN absent[r] \ {e} ELSE absent[r]
      BY DEF Insert
    <2>2. \A t \in SourceIds : delisted'[t] = IF t = s THEN delisted[t] \ {e} ELSE delisted[t]
      BY DEF Insert, CatalogTypeOK
    <2>3. \A t \in SourceIds : Entries(list'[t]) \subseteq
              IF t = s THEN Entries(list[t]) \union {e} ELSE Entries(list[t])
      BY <1>1, <1>2
    <2>4. ASSUME NEW r \in Syncs, Running(r)'
          PROVE  absent'[r] \intersect Entries(list'[SourceOf(r)']) = {}
      BY <2>1, <2>3, <2>4, <1>0, <1>4 DEF Unlisted, Running
    <2>5. \A t \in SourceIds : delisted'[t] \intersect Entries(list'[t]) = {}
      BY <2>2, <2>3 DEF Unlisted
    <2>6. \A r \in Syncs : Entries(out'[r]) \intersect delisted'[SourceOf(r)'] = {}
      BY <2>2, <1>0, <1>4 DEF Unlisted
    <2>7. \A r \in Syncs : Running(r)' => (absent[r] \intersect Entries(list[SourceOf(r)]))' = {}
      BY <2>4
    <2>8. \A r \in Syncs : (Entries(out[r]) \intersect delisted[SourceOf(r)])' = {}
      BY <2>6
    <2> QED  BY <2>5, <2>7, <2>8 DEF Unlisted
  <1>10. ListedIsVisible'
    BY <1>0 DEF ListedIsVisible
  <1>11. DelistedIsHidden'
    <2>1. \A t \in SourceIds : delisted'[t] \subseteq delisted[t]
      BY DEF Insert, CatalogTypeOK
    <2> QED  BY <2>1, <1>0 DEF DelistedIsHidden
  <1>12. Resting'
    BY <1>0 DEF Resting, Running
  <1> QED  BY <1>12, <1>3, <1>6, <1>7, <1>8, <1>9, <1>10, <1>11

LEMMA RemoveInv ==
    ASSUME CatalogInv, NEW s \in SourceIds, NEW n \in 1 .. Len(list[s]) + 1, Remove(s, n)
    PROVE  CatalogInv'
  <1> DEFINE k == Without(list[s], n)
             x == list[s][n]
  <1> USE DEF CatalogInv
  <1>1. /\ list[s] \in Seq(Endpoints) /\ n \in 1 .. Len(list[s])
        /\ list' = [list EXCEPT ![s] = k]
        /\ list' \in [SourceIds -> Seq(Endpoints)] /\ list'[s] = k
        /\ \A t \in SourceIds : t # s => list'[t] = list[t]
    BY WithoutTyped DEF Remove, CatalogTypeOK
  <1>2. /\ Entries(k) \subseteq Entries(list[s])
        /\ \A m \in DOMAIN list[s] : m < n => m \in DOMAIN k /\ k[m] = list[s][m]
        /\ \A m \in DOMAIN list[s] : m > n => m - 1 \in DOMAIN k /\ k[m - 1] = list[s][m]
    BY <1>1, WithoutTyped
  <1>0. UNCHANGED <<source, live, due, delisted, lastUrls, phase, manual, turn, out, upserted, absent>>
    BY DEF Remove, tableVars
  <1>s. \A r \in Syncs : steady'[r] =
           IF SourceOf(r) # s THEN steady[r]
           ELSE IF phase[r] = "fetch" /\ n <= Len(out[r])
                THEN (steady[r] \ {x}) \intersect Entries(out[r])
                ELSE steady[r] \ {x}
    BY DEF Remove
  <1>t. steady' \in [Syncs -> SUBSET Endpoints]
    BY DEF Remove, CatalogTypeOK
  <1> HIDE DEF k, x
  <1>3. CatalogTypeOK'
    <2>1. changes' \in 0 .. MaxChanges
      BY CatalogAssumption DEF CatalogTypeOK, Remove
    <2> QED  BY <2>1, <1>1, <1>0, <1>t DEF CatalogTypeOK
  <1>4. ASSUME NEW r \in Syncs
        PROVE  SourceOf(r)' = SourceOf(r) /\ SourceOf(r) \in SourceIds
    BY SourceOfTyped, <1>0 DEF SourceOf
  <1>5. ASSUME NEW r \in Syncs, phase[r] = "fetch", NEW e \in steady'[r]
        PROVE  OnPage(e, r)'
    <2>1. e \in steady[r] /\ OnPage(e, r)
      BY <1>5, <1>s DEF Reading
    <2>2. CASE e \in Entries(out[r])
      BY <2>2, <1>0 DEF OnPage
    <2>3. CASE e \notin Entries(out[r])
      <3>1. PICK m \in DOMAIN list[SourceOf(r)] : m > Len(out[r]) /\ list[SourceOf(r)][m] = e
        BY <2>1, <2>3 DEF OnPage
      <3>2. CASE SourceOf(r) # s
        BY <3>1, <3>2, <1>0, <1>1, <1>4 DEF OnPage
      <3>3. CASE SourceOf(r) = s
        <4>1. ~(n <= Len(out[r])) /\ e # x
          BY <3>3, <2>3, <1>5, <1>s
        <4>2. m \in Nat /\ n \in Nat /\ Len(out[r]) \in Nat /\ m # n
          BY <3>1, <3>3, <4>1, <1>1 DEF CatalogTypeOK, x
        <4>3. CASE m < n
          BY <4>3, <3>1, <3>3, <1>0, <1>1, <1>2, <1>4 DEF OnPage
        <4>4. CASE m > n
          <5>1. m - 1 > Len(out[r])
            BY <4>4, <4>1, <4>2
          <5> QED  BY <5>1, <4>4, <3>1, <3>3, <1>0, <1>1, <1>2, <1>4 DEF OnPage
        <4> QED  BY <4>2, <4>3, <4>4
      <3> QED  BY <3>2, <3>3
    <2> QED  BY <2>2, <2>3
  <1>6. Reading'
    BY <1>0, <1>5 DEF Reading
  <1>m. \A r \in Syncs : steady'[r] \subseteq steady[r]
    BY <1>s
  <1>7. Written'
    BY <1>m, <1>0, <1>4 DEF Written
  <1>8. Uncrossed'
    BY <1>m, <1>0 DEF Uncrossed, Running
  <1>9. Unlisted'
    <2>1. \A t \in SourceIds : Entries(list'[t]) \subseteq Entries(list[t])
      BY <1>1, <1>2
    <2>2. \A r \in Syncs : Running(r)' => (absent[r] \intersect Entries(list[SourceOf(r)]))' = {}
      BY <2>1, <1>0, <1>4 DEF Unlisted, Running
    <2>3. \A t \in SourceIds : delisted'[t] \intersect Entries(list'[t]) = {}
      BY <2>1, <1>0 DEF Unlisted
    <2>4. \A r \in Syncs : (Entries(out[r]) \intersect delisted[SourceOf(r)])' = {}
      BY <1>0, <1>4 DEF Unlisted
    <2> QED  BY <2>2, <2>3, <2>4 DEF Unlisted
  <1>10. ListedIsVisible' /\ DelistedIsHidden'
    BY <1>0 DEF ListedIsVisible, DelistedIsHidden
  <1>11. Resting'
    BY <1>0 DEF Resting, Running
  <1> QED  BY <1>11, <1>3, <1>6, <1>7, <1>8, <1>9, <1>10

LEMMA StartPassInv ==
    ASSUME CatalogInv, NEW r \in Syncs, NEW n \in DOMAIN SOURCES, StartPass(r, n),
           UNCHANGED <<list, changes, tableVars>>,
           manual' = manual \/ manual' = manual \union {r},
           \A q \in Syncs \ {r} : Running(q) => {q, r} \intersect manual' # {}
    PROVE  CatalogInv'
  <1> DEFINE listed == Entries(list[SOURCES[n]])
  <1> USE DEF CatalogInv
  <1>1. /\ phase' = [phase EXCEPT ![r] = "fetch"]
        /\ turn' = [turn EXCEPT ![r] = n]
        /\ out' = [out EXCEPT ![r] = <<>>]
        /\ upserted' = [upserted EXCEPT ![r] = 0]
    BY DEF StartPass
  <1>2. /\ \A q \in Syncs \ {r} :
            /\ Crosses(q, r) <=> Running(q)
            /\ steady'[q] = IF Crosses(q, r) THEN {} ELSE steady[q]
            /\ absent'[q] = IF Crosses(q, r) THEN {} ELSE absent[q]
        /\ steady'[r] = IF \E q \in Syncs : Crosses(q, r) THEN {} ELSE listed
        /\ absent'[r] = IF \E q \in Syncs : Crosses(q, r) THEN {} ELSE Endpoints \ listed
    BY DEF StartPass, Crosses
  <1>3. ~Crosses(r, r)
    BY DEF Crosses
  <1>4. SOURCES[n] \in SourceIds /\ listed \subseteq Endpoints
    BY CatalogAssumption, SMTT(60) DEF CatalogTypeOK, Entries
  <1>5. steady' \in [Syncs -> SUBSET Endpoints] /\ absent' \in [Syncs -> SUBSET Endpoints]
    <2>1. steady' = [q \in Syncs |-> steady'[q]] /\ absent' = [q \in Syncs |-> absent'[q]]
      BY DEF StartPass
    <2>2. ASSUME NEW q \in Syncs
          PROVE  steady'[q] \subseteq Endpoints /\ absent'[q] \subseteq Endpoints
      <3>0. steady[q] \subseteq Endpoints /\ absent[q] \subseteq Endpoints
        BY DEF CatalogTypeOK
      <3> HIDE DEF listed, CatalogInv
      <3>1. CASE q = r
        BY <3>1, <1>2, <1>4
      <3>2. CASE q # r
        BY <3>0, <3>2, <1>2
      <3> QED  BY <3>1, <3>2
    <2> QED  BY <2>1, <2>2
  <1>6. CatalogTypeOK'
    <2>1. phase' \in [Syncs -> {"idle", "fetch", "write", "record", "done"}]
      BY <1>1 DEF CatalogTypeOK
    <2>2. turn' \in [Syncs -> DOMAIN SOURCES]
      BY <1>1 DEF CatalogTypeOK
    <2>3. out' \in [Syncs -> Seq(Endpoints)]
      BY <1>1, EmptySeq DEF CatalogTypeOK
    <2>4. upserted' \in [Syncs -> Nat]
      BY <1>1 DEF CatalogTypeOK
    <2> QED  BY <2>1, <2>2, <2>3, <2>4, <1>5 DEF CatalogTypeOK, tableVars
  <1>7. ASSUME NEW q \in Syncs, q # r
        PROVE  /\ phase'[q] = phase[q] /\ out'[q] = out[q] /\ upserted'[q] = upserted[q]
               /\ SourceOf(q)' = SourceOf(q) /\ SourceOf(q) \in SourceIds
               /\ steady'[q] \subseteq steady[q] /\ absent'[q] \subseteq absent[q]
    BY <1>1, <1>2, <1>7, SourceOfTyped DEF CatalogTypeOK, SourceOf
  <1>8. /\ phase'[r] = "fetch" /\ out'[r] = <<>> /\ upserted'[r] = 0
        /\ SourceOf(r)' = SOURCES[n]
        /\ steady'[r] \subseteq listed /\ absent'[r] \intersect listed = {}
    BY <1>1, <1>2, <1>3 DEF CatalogTypeOK, SourceOf
  <1> HIDE DEF listed
  <1>9. Reading'
    <2>1. ASSUME NEW q \in Syncs, phase'[q] = "fetch", q # r
          PROVE  upserted'[q] = 0 /\ \A e \in steady'[q] : OnPage(e, q)'
      BY <2>1, <1>7 DEF Reading, OnPage, tableVars
    <2>2. ASSUME NEW e \in steady'[r]
          PROVE  OnPage(e, r)'
      <3>1. PICK m \in DOMAIN list[SOURCES[n]] : list[SOURCES[n]][m] = e
        BY <1>8 DEF Entries, listed
      <3>2. m > Len(<<>>)
        BY <3>1, <1>4 DEF CatalogTypeOK
      <3> QED  BY <3>1, <3>2, <1>8 DEF OnPage
    <2> QED  BY <2>1, <2>2, <1>8 DEF Reading
  <1>10. Written'
    <2>1. ASSUME NEW q \in Syncs, phase'[q] = "write"
          PROVE  /\ (steady[q] \subseteq Entries(out[q]))'
                 /\ (\A m \in DOMAIN out[q] :
                        /\ m <= upserted[q] /\ out[q][m] \in steady[q]
                        /\ source[out[q][m]] = SourceOf(q)
                        => out[q][m] \in live)'
      <3>1. q # r
        BY <2>1, <1>8
      <3> QED  BY <2>1, <3>1, <1>7 DEF Written, tableVars
    <2> QED  BY <2>1 DEF Written
  <1>11. Uncrossed'
    <2>1. ASSUME NEW p \in Syncs, NEW q \in Syncs, p # q, Running(p)', Running(q)'
          PROVE  {p, q} \intersect manual' # {} /\ steady'[q] = {} /\ absent'[q] = {}
      <3>1. CASE p # r /\ q # r
        <4>1. Running(p) /\ Running(q)
          BY <2>1, <3>1, <1>7 DEF Running
        <4>2. {p, q} \intersect manual # {} /\ steady[q] = {} /\ absent[q] = {}
          BY <4>1, <2>1 DEF Uncrossed
        <4> QED  BY <4>2, <3>1, <1>7
      <3>2. CASE p = r
        <4>1. Running(q)
          BY <2>1, <3>2, <1>7 DEF Running
        <4> QED  BY <4>1, <3>2, <2>1, <1>2
      <3>3. CASE q = r
        <4>1. Running(p)
          BY <2>1, <3>3, <1>7 DEF Running
        <4> QED  BY <4>1, <3>3, <2>1, <1>2
      <3> QED  BY <3>1, <3>2, <3>3
    <2> QED  BY <2>1 DEF Uncrossed
  <1>12. Unlisted'
    <2>1. ASSUME NEW q \in Syncs, Running(q)'
          PROVE  (absent[q] \intersect Entries(list[SourceOf(q)]))' = {}
      <3>1. CASE q = r
        BY <3>1, <1>8 DEF listed
      <3>2. CASE q # r
        <4>1. Running(q)
          BY <2>1, <3>2, <1>7 DEF Running
        <4> QED  BY <4>1, <3>2, <1>7 DEF Unlisted
      <3> QED  BY <3>1, <3>2
    <2>2. ASSUME NEW q \in Syncs
          PROVE  (Entries(out[q]) \intersect delisted[SourceOf(q)])' = {}
      <3>1. CASE q = r
        BY <3>1, <1>8, EmptyEntries
      <3>2. CASE q # r
        BY <3>2, <1>7 DEF Unlisted, tableVars
      <3> QED  BY <3>1, <3>2
    <2>3. \A s \in SourceIds : (delisted[s] \intersect Entries(list[s]))' = {}
      BY DEF Unlisted, tableVars
    <2> QED  BY <2>1, <2>2, <2>3 DEF Unlisted
  <1>13. ListedIsVisible' /\ DelistedIsHidden'
    BY DEF ListedIsVisible, DelistedIsHidden, tableVars
  <1>14. Resting'
    <2>1. ASSUME NEW q \in Syncs, ~Running(q)'
          PROVE  out'[q] = <<>>
      <3>1. CASE q = r
        BY <3>1, <1>8
      <3>2. CASE q # r
        BY <3>2, <2>1, <1>7 DEF Resting, Running
      <3> QED  BY <3>1, <3>2
    <2> QED  BY <2>1 DEF Resting
  <1> QED  BY <1>14, <1>6, <1>9, <1>10, <1>11, <1>12, <1>13

LEMMA FetchPageInv ==
    ASSUME CatalogInv, NEW r \in Syncs, FetchPage(r)
    PROVE  CatalogInv'
  <1> DEFINE s == SourceOf(r)
             e == list[s][Len(out[r]) + 1]
  <1> USE DEF CatalogInv
  <1>0. s \in SourceIds
    BY SourceOfTyped
  <1>1. /\ phase[r] = "fetch" /\ Len(out[r]) < Len(list[s])
        /\ out' = [out EXCEPT ![r] = Append(@, list[s][Len(@) + 1])]
        /\ UNCHANGED <<list, changes, tableVars, manual, turn, upserted, absent>>
    BY DEF FetchPage, Moved
  <1>2. \/ /\ phase' = [phase EXCEPT ![r] = "fetch"] /\ steady' = steady
        \/ /\ phase' = [phase EXCEPT ![r] = "write"] /\ steady' = steady
           /\ Len(out'[r]) = Len(list[s])
        \/ /\ phase' = [phase EXCEPT ![r] = "write"]
           /\ steady' = [steady EXCEPT ![r] = @ \intersect Entries(out'[r])]
    BY DEF FetchPage, Moved
  <1>3. /\ out[r] \in Seq(Endpoints) /\ list[s] \in Seq(Endpoints)
        /\ Len(out[r]) \in Nat /\ Len(list[s]) \in Nat /\ DOMAIN list[s] = 1 .. Len(list[s])
    BY <1>0 DEF CatalogTypeOK
  <1>4. Len(out[r]) + 1 \in DOMAIN list[s] /\ e \in Endpoints /\ e \in Entries(list[s])
    <2>1. Len(out[r]) + 1 \in DOMAIN list[s]
      BY <1>1, <1>3
    <2>2. list[s][Len(out[r]) + 1] \in Endpoints
      BY <2>1, <1>3
    <2> QED  BY <2>1, <2>2 DEF Entries
  <1>5. /\ out'[r] = Append(out[r], e)
        /\ \A q \in Syncs \ {r} : out'[q] = out[q]
    BY <1>1 DEF CatalogTypeOK
  <1>6. /\ out'[r] \in Seq(Endpoints) /\ Len(out'[r]) = Len(out[r]) + 1
        /\ Entries(out'[r]) = Entries(out[r]) \union {e}
    BY <1>3, <1>4, <1>5, AppendEntries
  <1>7. \A q \in Syncs : SourceOf(q)' = SourceOf(q) /\ SourceOf(q) \in SourceIds
    BY <1>1, SourceOfTyped DEF SourceOf
  <1>8. /\ \A q \in Syncs : steady'[q] \subseteq steady[q]
        /\ phase'[r] \in {"fetch", "write"}
        /\ \A q \in Syncs \ {r} : phase'[q] = phase[q] /\ steady'[q] = steady[q]
        /\ steady' \in [Syncs -> SUBSET Endpoints]
        /\ phase' \in [Syncs -> {"idle", "fetch", "write", "record", "done"}]
    <2>1. CASE phase' = [phase EXCEPT ![r] = "fetch"] /\ steady' = steady
      BY <2>1 DEF CatalogTypeOK
    <2>2. CASE phase' = [phase EXCEPT ![r] = "write"] /\ steady' = steady
      BY <2>2 DEF CatalogTypeOK
    <2>3. CASE /\ phase' = [phase EXCEPT ![r] = "write"]
               /\ steady' = [steady EXCEPT ![r] = @ \intersect Entries(out'[r])]
      BY <2>3 DEF CatalogTypeOK
    <2> QED  BY <1>2, <2>1, <2>2, <2>3
  <1>h. /\ phase'[r] = "write" => \/ Len(out'[r]) = Len(list[s])
                                  \/ steady'[r] \subseteq Entries(out'[r])
        /\ \A q \in Syncs : Running(q)' <=> Running(q)
    BY <1>1, <1>2, <1>8 DEF CatalogTypeOK, Running
  <1>9. ASSUME NEW x \in steady'[r]
        PROVE  \/ x \in Entries(out'[r])
               \/ \E n \in DOMAIN list[s] : n > Len(out'[r]) /\ list[s][n] = x
    <2>1. x \in steady[r] /\ OnPage(x, r)
      BY <1>8, <1>1 DEF Reading
    <2>2. CASE x \in Entries(out[r])
      BY <2>2, <1>6
    <2>3. CASE x \notin Entries(out[r])
      <3>1. PICK n \in DOMAIN list[s] : n > Len(out[r]) /\ list[s][n] = x
        BY <2>1, <2>3 DEF OnPage
      <3>2. CASE n = Len(out[r]) + 1
        BY <3>1, <3>2, <1>6
      <3>3. CASE n # Len(out[r]) + 1
        <4>1. n > Len(out'[r])
          BY <3>1, <3>3, <1>3, <1>6
        <4> QED  BY <4>1, <3>1
      <3> QED  BY <3>2, <3>3
    <2> QED  BY <2>2, <2>3
  <1> HIDE DEF s, e
  <1>s. SourceOf(r) = s
    BY DEF s
  <1>10. CatalogTypeOK'
    <2>1. out' \in [Syncs -> Seq(Endpoints)]
      BY <1>1, <1>5, <1>6 DEF CatalogTypeOK
    <2> QED  BY <2>1, <1>1, <1>8 DEF CatalogTypeOK, tableVars
  <1>11. Reading'
    <2>1. ASSUME NEW q \in Syncs, phase'[q] = "fetch", q # r
          PROVE  upserted'[q] = 0 /\ \A x \in steady'[q] : OnPage(x, q)'
      BY <2>1, <1>1, <1>5, <1>7, <1>8, SMTT(60) DEF Reading, OnPage
    <2>2. \A x \in steady'[r] : OnPage(x, r)'
      BY <1>9, <1>1, <1>7, <1>s DEF OnPage
    <2>3. upserted'[r] = 0
      BY <1>1 DEF Reading
    <2> QED  BY <2>1, <2>2, <2>3 DEF Reading
  <1>12. Written'
    <2>1. ASSUME NEW q \in Syncs, phase'[q] = "write", q # r
          PROVE  /\ (steady[q] \subseteq Entries(out[q]))'
                 /\ (\A m \in DOMAIN out[q] :
                        /\ m <= upserted[q] /\ out[q][m] \in steady[q]
                        /\ source[out[q][m]] = SourceOf(q)
                        => out[q][m] \in live)'
      BY <2>1, <1>1, <1>5, <1>7, <1>8 DEF Written, tableVars
    <2>2. ASSUME phase'[r] = "write"
          PROVE  (steady[r] \subseteq Entries(out[r]))'
      <3>1. CASE Len(out'[r]) = Len(list[s])
        <4>1. \A n \in DOMAIN list[s] : ~(n > Len(out'[r]))
          BY <3>1, <1>3
        <4> QED  BY <4>1, <1>9
      <3> QED  BY <3>1, <2>2, <1>h
    <2>3. \A m \in DOMAIN out'[r] : ~(m <= upserted'[r])
      <3>1. upserted'[r] = 0
        BY <1>1 DEF Reading
      <3> QED  BY <3>1, <1>6
    <2> QED  BY <2>1, <2>2, <2>3 DEF Written
  <1>13. Uncrossed'
    BY <1>h, <1>8, <1>1 DEF Uncrossed
  <1>14. Unlisted'
    <2>1. \A q \in Syncs : Running(q)' => (absent[q] \intersect Entries(list[SourceOf(q)]))' = {}
      BY <1>h, <1>1, <1>7 DEF Unlisted
    <2>2. \A t \in SourceIds : (delisted[t] \intersect Entries(list[t]))' = {}
      BY <1>1 DEF Unlisted, tableVars
    <2>3. ASSUME NEW q \in Syncs
          PROVE  (Entries(out[q]) \intersect delisted[SourceOf(q)])' = {}
      <3>1. CASE q = r
        BY <3>1, <1>0, <1>1, <1>4, <1>6, <1>7, <1>s DEF Unlisted, tableVars
      <3>2. CASE q # r
        BY <3>2, <1>1, <1>5, <1>7 DEF Unlisted, tableVars
      <3> QED  BY <3>1, <3>2
    <2> QED  BY <2>1, <2>2, <2>3 DEF Unlisted
  <1>15. ListedIsVisible' /\ DelistedIsHidden'
    BY <1>1 DEF ListedIsVisible, DelistedIsHidden, tableVars
  <1>16. Resting'
    <2>1. Running(r)
      BY <1>1 DEF Running
    <2> QED  BY <2>1, <1>h, <1>5 DEF Resting
  <1> QED  BY <1>16, <1>10, <1>11, <1>12, <1>13, <1>14, <1>15

LEMMA LastPageInv ==
    ASSUME CatalogInv, NEW r \in Syncs, LastPage(r)
    PROVE  CatalogInv'
  <1> DEFINE s == SourceOf(r)
  <1> USE DEF CatalogInv
  <1>0. s \in SourceIds
    BY SourceOfTyped
  <1>1. /\ phase[r] = "fetch" /\ phase' = [phase EXCEPT ![r] = "write"]
        /\ UNCHANGED <<list, changes, tableVars, manual, turn, out, upserted, absent>>
        /\ \/ Len(out[r]) >= Len(list[s]) /\ steady' = steady
           \/ steady' = [steady EXCEPT ![r] = @ \intersect Entries(out[r])]
    BY DEF LastPage, Moved
  <1>2. /\ \A q \in Syncs : steady'[q] \subseteq steady[q]
        /\ \A q \in Syncs \ {r} : phase'[q] = phase[q] /\ steady'[q] = steady[q]
        /\ phase'[r] = "write"
        /\ steady' \in [Syncs -> SUBSET Endpoints]
        /\ phase' \in [Syncs -> {"idle", "fetch", "write", "record", "done"}]
        /\ \A q \in Syncs : Running(q)' <=> Running(q)
    BY <1>1 DEF CatalogTypeOK, Running
  <1>3. \A q \in Syncs : SourceOf(q)' = SourceOf(q)
    BY <1>1 DEF SourceOf
  <1>4. steady'[r] \subseteq Entries(out[r])
    <2>1. CASE Len(out[r]) >= Len(list[s]) /\ steady' = steady
      <3>1. \A n \in DOMAIN list[s] : ~(n > Len(out[r]))
        BY <2>1, <1>0 DEF CatalogTypeOK
      <3> QED  BY <3>1, <2>1, <1>1 DEF Reading, OnPage
    <2>2. CASE steady' = [steady EXCEPT ![r] = @ \intersect Entries(out[r])]
      BY <2>2 DEF CatalogTypeOK
    <2> QED  BY <2>1, <2>2, <1>1
  <1> HIDE DEF s
  <1>5. CatalogTypeOK'
    BY <1>1, <1>2 DEF CatalogTypeOK, tableVars
  <1>6. Reading'
    BY <1>1, <1>2, <1>3 DEF Reading, OnPage
  <1>7. Written'
    <2>1. ASSUME NEW q \in Syncs, phase'[q] = "write", q # r
          PROVE  /\ (steady[q] \subseteq Entries(out[q]))'
                 /\ (\A m \in DOMAIN out[q] :
                        /\ m <= upserted[q] /\ out[q][m] \in steady[q]
                        /\ source[out[q][m]] = SourceOf(q)
                        => out[q][m] \in live)'
      BY <2>1, <1>1, <1>2, <1>3 DEF Written, tableVars
    <2>2. \A m \in DOMAIN out'[r] : ~(m <= upserted'[r])
      BY <1>1 DEF Reading, CatalogTypeOK
    <2> QED  BY <2>1, <2>2, <1>1, <1>4 DEF Written
  <1>8. Uncrossed'
    BY <1>1, <1>2 DEF Uncrossed
  <1>9. Unlisted'
    BY <1>1, <1>2, <1>3 DEF Unlisted, tableVars
  <1>10. ListedIsVisible' /\ DelistedIsHidden'
    BY <1>1 DEF ListedIsVisible, DelistedIsHidden, tableVars
  <1>11. Resting'
    BY <1>1, <1>2 DEF Resting
  <1> QED  BY <1>11, <1>5, <1>6, <1>7, <1>8, <1>9, <1>10

LEMMA UpsertInv ==
    ASSUME CatalogInv, NEW r \in Syncs, UpsertEndpoint(r)
    PROVE  CatalogInv'
  <1> DEFINE e == out[r][upserted[r] + 1]
  <1> USE DEF CatalogInv
  <1>1. /\ phase[r] = "write" /\ phase' = phase
        /\ upserted[r] < Len(out[r])
        /\ upserted' = [upserted EXCEPT ![r] = @ + 1]
        /\ UNCHANGED <<list, changes, due, delisted, lastUrls, manual, turn, out, absent>>
    <2>1. phase[r] = "write" /\ phase' = [phase EXCEPT ![r] = "write"]
      BY DEF UpsertEndpoint, Moved
    <2>2. phase' = phase
      BY <2>1 DEF CatalogTypeOK
    <2> QED  BY <2>1, <2>2 DEF UpsertEndpoint
  <1>2. \/ /\ live' = live \union {e} /\ source' = [source EXCEPT ![e] = SourceOf(r)]
           /\ steady' = steady
        \/ /\ steady' = [steady EXCEPT ![r] = @ \ {e}] /\ source' = source /\ live' = live
    BY DEF UpsertEndpoint, UpsertRow
  <1>3. /\ out[r] \in Seq(Endpoints) /\ Len(out[r]) \in Nat /\ upserted[r] \in Nat
        /\ DOMAIN out[r] = 1 .. Len(out[r])
    BY DEF CatalogTypeOK
  <1>4. upserted[r] + 1 \in DOMAIN out[r] /\ e \in Endpoints /\ e \in Entries(out[r])
    <2>1. upserted[r] + 1 \in DOMAIN out[r]
      BY <1>1, <1>3
    <2>2. out[r][upserted[r] + 1] \in Endpoints
      BY <2>1, <1>3
    <2> QED  BY <2>1, <2>2 DEF Entries
  <1>5. /\ \A q \in Syncs : SourceOf(q)' = SourceOf(q) /\ SourceOf(q) \in SourceIds
        /\ \A q \in Syncs : Running(q)' <=> Running(q)
    BY <1>1, SourceOfTyped DEF SourceOf, Running
  <1>6. /\ live \subseteq live' /\ \A q \in Syncs : steady'[q] \subseteq steady[q]
        /\ \A x \in Endpoints : source'[x] # source[x] => x \in live' /\ x = e
        /\ \A x \in Endpoints : x \in live' => x \in live \/ x = e
        /\ steady' \in [Syncs -> SUBSET Endpoints] /\ live' \subseteq Endpoints
        /\ source' \in [Endpoints -> SourceIds \union {Unowned}]
    BY <1>2, <1>4, <1>5 DEF CatalogTypeOK
  <1>7. \/ e \in live' /\ source'[e] = SourceOf(r)
        \/ e \notin steady'[r] /\ source' = source /\ live' = live
    BY <1>2, <1>4 DEF CatalogTypeOK
  <1>8. /\ upserted'[r] = upserted[r] + 1
        /\ \A q \in Syncs \ {r} : upserted'[q] = upserted[q]
        /\ upserted' \in [Syncs -> Nat]
    BY <1>1 DEF CatalogTypeOK
  <1>o. \A q \in Syncs : \A m \in DOMAIN out[q] : out[q][m] \in Endpoints
    BY DEF CatalogTypeOK
  <1>9. CatalogTypeOK'
    BY <1>1, <1>6, <1>8 DEF CatalogTypeOK
  <1>10. Reading'
    BY <1>1, <1>5, <1>6, <1>8 DEF Reading, OnPage
  <1>11. Written'
    <2>1. ASSUME NEW q \in Syncs, phase'[q] = "write"
          PROVE  (steady[q] \subseteq Entries(out[q]))'
      BY <2>1, <1>1, <1>6 DEF Written
    <2>2. ASSUME NEW q \in Syncs, phase'[q] = "write", NEW m \in DOMAIN out'[q],
                 m <= upserted'[q], out'[q][m] \in steady'[q],
                 source'[out'[q][m]] = SourceOf(q)'
          PROVE  out'[q][m] \in live'
      <3>1. out'[q][m] = out[q][m] /\ out[q][m] \in Endpoints /\ m \in DOMAIN out[q]
        BY <1>1, <1>o, <2>2
      <3>2. CASE q = r /\ m = upserted[r] + 1
        BY <3>1, <3>2, <1>7, <2>2
      <3>3. CASE ~(q = r /\ m = upserted[r] + 1)
        <4>1. m <= upserted[q]
          <5>1. m \in Nat /\ upserted[q] \in Nat
            BY <3>1 DEF CatalogTypeOK
          <5> QED  BY <5>1, <3>3, <2>2, <1>8
        <4>2. CASE source'[out[q][m]] # source[out[q][m]]
          BY <4>2, <3>1, <1>6
        <4>3. CASE source'[out[q][m]] = source[out[q][m]]
          BY <4>1, <4>3, <3>1, <2>2, <1>1, <1>5, <1>6 DEF Written
        <4> QED  BY <4>2, <4>3
      <3> QED  BY <3>2, <3>3
    <2> QED  BY <2>1, <2>2 DEF Written
  <1>12. Uncrossed'
    BY <1>1, <1>5, <1>6 DEF Uncrossed
  <1>13. Unlisted'
    BY <1>1, <1>5 DEF Unlisted
  <1>14. ListedIsVisible'
    <2>1. ASSUME NEW t \in SourceIds, NEW x \in due[t], source'[x] = t
          PROVE  x \in live'
      <3>1. x \in Endpoints
        BY DEF CatalogTypeOK
      <3>2. CASE source'[x] = source[x]
        BY <3>2, <2>1, <1>6 DEF ListedIsVisible
      <3> QED  BY <3>1, <3>2, <1>6
    <2> QED  BY <2>1, <1>1 DEF ListedIsVisible
  <1>15. DelistedIsHidden'
    <2>1. ASSUME NEW t \in SourceIds, NEW x \in delisted[t], source'[x] = t, x \in live'
          PROVE  Url(x) \in lastUrls[t]
      <3>1. x \in Endpoints
        BY DEF CatalogTypeOK
      <3>2. CASE source'[x] = source[x] /\ x \in live
        BY <3>2, <2>1 DEF DelistedIsHidden
      <3>3. CASE x = e /\ live' # live
        <4>1. source'[e] = SourceOf(r)
          BY <1>7, <3>3
        <4>2. e \in Entries(out[r]) \intersect delisted[SourceOf(r)]
          BY <4>1, <3>3, <2>1, <1>4
        <4> QED  BY <4>2 DEF Unlisted
      <3>4. CASE x = e /\ source'[e] = SourceOf(r)
        <4>2. e \in Entries(out[r]) \intersect delisted[SourceOf(r)]
          BY <3>4, <2>1, <1>4
        <4> QED  BY <4>2 DEF Unlisted
      <3> QED  BY <3>1, <3>2, <3>3, <3>4, <2>1, <1>6, <1>7
    <2> QED  BY <2>1, <1>1 DEF DelistedIsHidden
  <1>16. Resting'
    BY <1>1, <1>5 DEF Resting
  <1> QED  BY <1>16, <1>9, <1>10, <1>11, <1>12, <1>13, <1>14, <1>15

LEMMA LeaveFacts ==
    ASSUME CatalogTypeOK, NEW R \in SUBSET Syncs, NEW to \in {"record", "done"}, Leave(R, to)
    PROVE  /\ \A q \in Syncs \ R :
                /\ phase'[q] = phase[q] /\ turn'[q] = turn[q] /\ out'[q] = out[q]
                /\ upserted'[q] = upserted[q] /\ steady'[q] = steady[q]
                /\ absent'[q] = absent[q]
           /\ \A q \in R :
                phase'[q] = to /\ out'[q] = <<>> /\ steady'[q] = {} /\ absent'[q] = {}
           /\ phase' \in [Syncs -> {"idle", "fetch", "write", "record", "done"}]
           /\ turn' \in [Syncs -> DOMAIN SOURCES]
           /\ out' \in [Syncs -> Seq(Endpoints)]
           /\ upserted' \in [Syncs -> Nat]
           /\ steady' \in [Syncs -> SUBSET Endpoints]
           /\ absent' \in [Syncs -> SUBSET Endpoints]
  <1>1. 1 \in DOMAIN SOURCES
    BY CatalogAssumption, EmptySeq
  <1>2. /\ phase' = [q \in Syncs |-> IF q \in R THEN to ELSE phase[q]]
        /\ turn' = IF to = "done" THEN [q \in Syncs |-> IF q \in R THEN 1 ELSE turn[q]] ELSE turn
        /\ out' = [q \in Syncs |-> IF q \in R THEN <<>> ELSE out[q]]
        /\ upserted' = [q \in Syncs |-> IF q \in R THEN 0 ELSE upserted[q]]
        /\ steady' = [q \in Syncs |-> IF q \in R THEN {} ELSE steady[q]]
        /\ absent' = [q \in Syncs |-> IF q \in R THEN {} ELSE absent[q]]
    BY DEF Leave
  <1>3. /\ phase' \in [Syncs -> {"idle", "fetch", "write", "record", "done"}]
        /\ turn' \in [Syncs -> DOMAIN SOURCES] /\ upserted' \in [Syncs -> Nat]
    BY <1>1, <1>2 DEF CatalogTypeOK
  <1>4. out' \in [Syncs -> Seq(Endpoints)]
    BY <1>2, EmptySeq DEF CatalogTypeOK
  <1>5. steady' \in [Syncs -> SUBSET Endpoints] /\ absent' \in [Syncs -> SUBSET Endpoints]
    BY <1>2 DEF CatalogTypeOK
  <1>6. \A q \in Syncs \ R :
            /\ phase'[q] = phase[q] /\ turn'[q] = turn[q] /\ out'[q] = out[q]
            /\ upserted'[q] = upserted[q] /\ steady'[q] = steady[q]
            /\ absent'[q] = absent[q]
    BY <1>2
  <1>7. \A q \in R :
            phase'[q] = to /\ out'[q] = <<>> /\ steady'[q] = {} /\ absent'[q] = {}
    BY <1>2
  <1> QED  BY <1>3, <1>4, <1>5, <1>6, <1>7

(* Syncs that leave their pass break nothing, as long as the table keeps   *)
(* what it has promised.                                                   *)
LEMMA LeaveInv ==
    ASSUME CatalogInv, NEW R \in SUBSET Syncs, NEW to \in {"record", "done"}, Leave(R, to),
           to = "record" => \A q \in R : Running(q),
           UNCHANGED <<list, changes, manual, source>>,
           live' \subseteq Endpoints,
           due' \in [SourceIds -> SUBSET Endpoints],
           delisted' \in [SourceIds -> SUBSET Endpoints],
           lastUrls' \in [SourceIds -> SUBSET {Url(e) : e \in Endpoints}],
           \A q \in Syncs \ R : steady[q] = {} \/ live \subseteq live' \/ ~Running(q),
           \A s \in SourceIds : delisted'[s] \intersect Entries(list[s]) = {},
           \A q \in Syncs \ R : Entries(out[q]) \intersect delisted'[SourceOf(q)] = {},
           ListedIsVisible', DelistedIsHidden'
    PROVE  CatalogInv'
  <1> USE DEF CatalogInv
  <1>1. CatalogTypeOK'
    BY LeaveFacts DEF CatalogTypeOK
  <1>2. ASSUME NEW q \in Syncs \ R
        PROVE  /\ phase'[q] = phase[q] /\ out'[q] = out[q] /\ upserted'[q] = upserted[q]
               /\ steady'[q] = steady[q] /\ absent'[q] = absent[q]
               /\ SourceOf(q)' = SourceOf(q)
    BY LeaveFacts DEF SourceOf
  <1>3. ASSUME NEW q \in R
        PROVE  phase'[q] = to /\ out'[q] = <<>> /\ steady'[q] = {} /\ absent'[q] = {}
    BY LeaveFacts
  <1>4. Reading'
    <2>1. ASSUME NEW q \in Syncs, phase'[q] = "fetch"
          PROVE  upserted'[q] = 0 /\ \A e \in steady'[q] : OnPage(e, q)'
      <3>1. q \notin R
        BY <1>3, <2>1
      <3> QED  BY <3>1, <2>1, <1>2 DEF Reading, OnPage
    <2> QED  BY <2>1 DEF Reading
  <1>5. Written'
    <2>1. ASSUME NEW q \in Syncs, phase'[q] = "write"
          PROVE  /\ (steady[q] \subseteq Entries(out[q]))'
                 /\ (\A m \in DOMAIN out[q] :
                        /\ m <= upserted[q] /\ out[q][m] \in steady[q]
                        /\ source[out[q][m]] = SourceOf(q)
                        => out[q][m] \in live)'
      <3>1. q \notin R
        BY <1>3, <2>1
      <3>2. phase[q] = "write" /\ Running(q)
        BY <3>1, <2>1, <1>2 DEF Running
      <3>3. steady[q] = {} \/ live \subseteq live'
        BY <3>1, <3>2
      <3> QED  BY <3>1, <3>2, <3>3, <1>2 DEF Written
    <2> QED  BY <2>1 DEF Written
  <1>6. \A q \in Syncs : Running(q)' => Running(q)
    BY <1>2, <1>3 DEF Running
  <1>7. Uncrossed'
    BY <1>2, <1>3, <1>6 DEF Uncrossed
  <1>8. Unlisted'
    <2>1. ASSUME NEW q \in Syncs, Running(q)'
          PROVE  (absent[q] \intersect Entries(list[SourceOf(q)]))' = {}
      BY <2>1, <1>2, <1>3, <1>6 DEF Unlisted
    <2>2. ASSUME NEW q \in Syncs
          PROVE  (Entries(out[q]) \intersect delisted[SourceOf(q)])' = {}
      BY <1>2, <1>3, EmptyEntries
    <2>3. \A s \in SourceIds : (delisted[s] \intersect Entries(list[s]))' = {}
      OBVIOUS
    <2> QED  BY <2>1, <2>2, <2>3 DEF Unlisted
  <1>9. Resting'
    <2>1. ASSUME NEW q \in Syncs, ~Running(q)'
          PROVE  out'[q] = <<>>
      <3>1. CASE q \in R
        BY <3>1, <1>3
      <3>2. CASE q \notin R
        BY <3>2, <2>1, <1>2 DEF Resting, Running
      <3> QED  BY <3>1, <3>2
    <2> QED  BY <2>1 DEF Resting
  <1> QED  BY <1>9, <1>1, <1>4, <1>5, <1>7, <1>8

LEMMA QuietLeaveInv ==
    ASSUME CatalogInv, NEW R \in SUBSET Syncs, NEW to \in {"record", "done"}, Leave(R, to),
           to = "record" => \A q \in R : Running(q),
           UNCHANGED <<list, changes, tableVars, manual>>
    PROVE  CatalogInv'
  <1>1. ListedIsVisible' /\ DelistedIsHidden'
    BY DEF CatalogInv, ListedIsVisible, DelistedIsHidden, tableVars
  <1>2. /\ live' \subseteq Endpoints
        /\ due' \in [SourceIds -> SUBSET Endpoints]
        /\ delisted' \in [SourceIds -> SUBSET Endpoints]
        /\ lastUrls' \in [SourceIds -> SUBSET {Url(e) : e \in Endpoints}]
        /\ UNCHANGED <<list, changes, manual, source>> /\ live' = live /\ delisted' = delisted
    BY DEF CatalogInv, CatalogTypeOK, tableVars
  <1>3. /\ \A s \in SourceIds : delisted'[s] \intersect Entries(list[s]) = {}
        /\ \A q \in Syncs \ R : Entries(out[q]) \intersect delisted'[SourceOf(q)] = {}
    BY <1>2 DEF CatalogInv, Unlisted
  <1> QED  BY <1>1, <1>2, <1>3, LeaveInv

LEMMA BeginInv ==
    ASSUME CatalogInv, NEW r \in Syncs, tick(r) \/ PostSync(r) \/ recordRun(r)
    PROVE  CatalogInv'
  <1> USE DEF CatalogInv
  <1>0. 1 \in DOMAIN SOURCES
    BY CatalogAssumption, EmptySeq
  <1>1. CASE tick(r)
    <2>1. \A q \in Syncs \ {r} : Running(q) => {q, r} \intersect manual' # {}
      BY <1>1 DEF tick
    <2> QED  BY <2>1, <1>0, <1>1, StartPassInv DEF tick
  <1>2. CASE PostSync(r)
    <2>1. \A q \in Syncs \ {r} : Running(q) => {q, r} \intersect manual' # {}
      BY <1>2 DEF PostSync
    <2> QED  BY <2>1, <1>0, <1>2, StartPassInv DEF PostSync
  <1>3. CASE recordRun(r) /\ turn[r] < Len(SOURCES) /\ StartPass(r, turn[r] + 1)
    <2>1. turn[r] + 1 \in DOMAIN SOURCES
      BY <1>3, CatalogAssumption DEF CatalogTypeOK
    <2>2. Running(r) /\ UNCHANGED <<list, changes, tableVars, manual>>
      BY <1>3 DEF recordRun, Running
    <2>3. \A q \in Syncs \ {r} : Running(q) => {q, r} \intersect manual' # {}
      BY <2>2 DEF Uncrossed
    <2> QED  BY <2>1, <2>2, <2>3, <1>3, StartPassInv
  <1>4. CASE recordRun(r) /\ Leave({r}, "done")
    BY <1>4, QuietLeaveInv DEF recordRun
  <1> QED  BY <1>1, <1>2, <1>3, <1>4 DEF recordRun

LEMMA ArchiveInv ==
    ASSUME CatalogInv, NEW r \in Syncs, markArchivedIfMissing(r)
    PROVE  CatalogInv'
  <1> DEFINE s == SourceOf(r)
  <1>0. s \in SourceIds
    BY SourceOfTyped DEF CatalogInv
  <1>1. /\ phase[r] = "write" /\ upserted[r] = Len(out[r]) /\ Leave({r}, "record")
        /\ UNCHANGED <<list, changes, source, manual>> /\ Running(r)
    BY DEF markArchivedIfMissing, Running
  <1>2. CASE out[r] = <<>> /\ UNCHANGED <<live, due, delisted, lastUrls>>
    BY <1>1, <1>2, QuietLeaveInv DEF tableVars
  <1>3. CASE /\ live' = live \ Missing(r)
             /\ due' = [due EXCEPT ![s] = steady[r]]
             /\ delisted' = [delisted EXCEPT ![s] = absent[r]]
             /\ lastUrls' = [lastUrls EXCEPT ![s] = Urls(out[r])]
    <2> USE DEF CatalogInv
    <2>1. /\ due'[s] = steady[r] /\ delisted'[s] = absent[r] /\ lastUrls'[s] = Urls(out[r])
          /\ \A t \in SourceIds \ {s} :
                due'[t] = due[t] /\ delisted'[t] = delisted[t] /\ lastUrls'[t] = lastUrls[t]
      BY <1>0, <1>3 DEF CatalogTypeOK
    <2>2. /\ due' \in [SourceIds -> SUBSET Endpoints]
          /\ delisted' \in [SourceIds -> SUBSET Endpoints]
          /\ live' \subseteq Endpoints
      BY <1>0, <1>3 DEF CatalogTypeOK
    <2>3. lastUrls' \in [SourceIds -> SUBSET {Url(e) : e \in Endpoints}]
      <3>1. Entries(out[r]) \subseteq Endpoints
        BY DEF CatalogTypeOK, Entries
      <3>2. Urls(out[r]) \subseteq {Url(e) : e \in Endpoints}
        BY <3>1 DEF Urls
      <3> QED  BY <3>2, <1>0, <1>3 DEF CatalogTypeOK
    <2>4. \A q \in Syncs \ {r} : Running(q) => steady[q] = {} /\ absent[r] = {}
      BY <1>1 DEF Uncrossed
    <2>5. \A t \in SourceIds : delisted'[t] \intersect Entries(list[t]) = {}
      BY <2>1, <1>1 DEF Unlisted
    <2>6. ASSUME NEW q \in Syncs \ {r}
          PROVE  Entries(out[q]) \intersect delisted'[SourceOf(q)] = {}
      <3>0. SourceOf(q) \in SourceIds
        BY SourceOfTyped
      <3>1. CASE SourceOf(q) # s
        BY <3>0, <3>1, <2>1 DEF Unlisted
      <3>2. CASE SourceOf(q) = s /\ Running(q)
        BY <3>2, <2>1, <2>4
      <3>3. CASE SourceOf(q) = s /\ ~Running(q)
        BY <3>3, EmptyEntries DEF Resting
      <3> QED  BY <3>1, <3>2, <3>3
    <2>7. ListedIsVisible'
      <3>1. ASSUME NEW t \in SourceIds, NEW e \in due'[t], source'[e] = t
            PROVE  e \in live'
        <4>1. e \in Endpoints /\ source[e] = t
          BY <2>2, <1>1, <3>1
        <4>2. CASE t # s
          <5>1. e \in live
            BY <4>1, <4>2, <2>1 DEF ListedIsVisible
          <5> QED  BY <5>1, <4>1, <4>2, <1>3 DEF Missing
        <4>3. CASE t = s
          <5>1. e \in steady[r] /\ e \in Entries(out[r])
            BY <4>3, <2>1, <1>1 DEF Written
          <5>2. PICK m \in DOMAIN out[r] : out[r][m] = e
            BY <5>1 DEF Entries
          <5>3. m <= upserted[r]
            BY <5>2, <1>1 DEF CatalogTypeOK
          <5>4. e \in live
            BY <5>1, <5>2, <5>3, <4>1, <4>3, <1>1 DEF Written
          <5>5. Url(e) \in Urls(out[r])
            BY <5>1 DEF Urls
          <5> QED  BY <5>4, <5>5, <1>3 DEF Missing
        <4> QED  BY <4>2, <4>3
      <3> QED  BY <3>1 DEF ListedIsVisible
    <2>8. DelistedIsHidden'
      <3>1. ASSUME NEW t \in SourceIds, NEW e \in delisted'[t], source'[e] = t, e \in live'
            PROVE  Url(e) \in lastUrls'[t]
        <4>1. e \in Endpoints /\ source[e] = t /\ e \in live /\ e \notin Missing(r)
          BY <2>2, <1>1, <1>3, <3>1
        <4>2. CASE t # s
          BY <4>1, <4>2, <2>1 DEF DelistedIsHidden
        <4>3. CASE t = s
          BY <4>1, <4>3, <2>1 DEF Missing
        <4> QED  BY <4>2, <4>3
      <3> QED  BY <3>1 DEF DelistedIsHidden
    <2>9. \A q \in Syncs \ {r} : steady[q] = {} \/ ~Running(q)
      BY <2>4
    <2> QED  BY <1>1, <2>2, <2>3, <2>5, <2>6, <2>7, <2>8, <2>9, LeaveInv
  <1> QED  BY <1>2, <1>3 DEF markArchivedIfMissing

LEMMA CatalogStep == CatalogInv /\ [CatalogNext]_catalogVars => CatalogInv'
  <1> SUFFICES ASSUME CatalogInv, [CatalogNext]_catalogVars PROVE CatalogInv'
    OBVIOUS
  <1>1. ASSUME NEW s \in SourceIds, NEW n \in 1 .. Len(list[s]) + 1, Remove(s, n)
        PROVE  CatalogInv'
    BY <1>1, RemoveInv
  <1>2. ASSUME NEW s \in SourceIds, NEW n \in 1 .. Len(list[s]) + 1, NEW e \in Endpoints,
               Insert(s, e, n)
        PROVE  CatalogInv'
    BY <1>2, InsertInv
  <1>3. ASSUME NEW r \in Syncs, tick(r) \/ PostSync(r) \/ recordRun(r)
        PROVE  CatalogInv'
    BY <1>3, BeginInv
  <1>4. ASSUME NEW r \in Syncs, FetchThrows(r) \/ ArchiveThrows(r)
        PROVE  CatalogInv'
    BY <1>4, QuietLeaveInv DEF FetchThrows, ArchiveThrows, Running
  <1>5. CASE Crash
    BY <1>5, QuietLeaveInv DEF Crash
  <1>6. CASE UNCHANGED catalogVars
    BY <1>6 DEF catalogVars, tableVars, passVars, CatalogInv, CatalogTypeOK, Reading, OnPage,
        Written, Uncrossed, Unlisted, Resting, Running, SourceOf, ListedIsVisible,
        DelistedIsHidden
  <1> QED
    BY <1>1, <1>2, <1>3, <1>4, <1>5, <1>6, FetchPageInv, LastPageInv, UpsertInv, ArchiveInv
    DEF CatalogNext

(* What a source listed all along its last effective pass is on display    *)
(* while the row is its own: the pass reads it, writes it and spares it,   *)
(* and no other pass of apps/api/src/catalogs/sync.ts takes it down.       *)
THEOREM ListedIsVisibleHolds == CatalogSpec => []ListedIsVisible
  <1>1. CatalogInv => ListedIsVisible
    BY DEF CatalogInv
  <1> QED  BY <1>1, CatalogInitInv, CatalogStep, PTL DEF CatalogSpec

(* What the source did not list all along that pass is archived by it      *)
(* (upsert.ts), except under a URL the source lists, and stays so.         *)
THEOREM DelistedIsHiddenHolds == CatalogSpec => []DelistedIsHidden
  <1>1. CatalogInv => DelistedIsHidden
    BY DEF CatalogInv
  <1> QED  BY <1>1, CatalogInitInv, CatalogStep, PTL DEF CatalogSpec

-----------------------------------------------------------------------------
(* Listings                                                                *)

(* What is read exists, and an edit writes a status.                       *)
ReadExists ==
    /\ Exists => listing.offer \in Offers
    /\ \A e \in Edits : editor[e] = "write" => Exists /\ nextRow[e].status # "none"
    /\ \A v \in Reviews : reviewer[v] = "decide" => Exists

(* What an edit that was not overtaken is to write as approved is what is  *)
(* on display.                                                             *)
FreshEdit ==
    \A e \in Edits :
        editor[e] = "write" /\ e \notin stale /\ nextRow[e].status = "approved" =>
            /\ listing.status = "approved"
            /\ \A f \in DOMAIN patch[e] : patch[e][f] = listing.offer[f]

(* A review that was not overtaken is of the offer on file.                *)
FreshReview ==
    \A v \in Reviews :
        reviewer[v] = "decide" /\ v \notin stale => seen[v] = listing.offer

ListingInv == ListingTypeOK /\ ReadExists /\ FreshEdit /\ FreshReview /\ ApprovalStands

(* A patch sets some of the fields.                                        *)
LEMMA PatchFacts ==
    ASSUME NEW p \in Patches
    PROVE  DOMAIN p \subseteq Fields /\ \A f \in DOMAIN p : p[f] \in Values
  BY DEF Patches

(* No field is a patch too.                                                *)
LEMMA NoPatchIsPatch == NoPatch \in Patches
  <1>1. NoPatch \in [{} -> Values]
    BY DEF NoPatch
  <1> QED BY <1>1 DEF Patches

(* What an edit writes is an offer: the one on file if it changes no field.*)
LEMMA PatchedFacts ==
    ASSUME ListingTypeOK, NEW e \in Edits, listing.offer \in Offers
    PROVE  /\ Patched(e) \in Offers
           /\ (\A f \in DOMAIN patch[e] : patch[e][f] = listing.offer[f])
                => Patched(e) = listing.offer
  <1>1. patch[e] \in Patches
    BY DEF ListingTypeOK
  <1>2. \A f \in DOMAIN patch[e] : patch[e][f] \in Values
    BY <1>1, PatchFacts
  <1>3. Patched(e) \in Offers
    BY <1>2 DEF Patched, Offers
  <1>4. ASSUME \A f \in DOMAIN patch[e] : patch[e][f] = listing.offer[f]
        PROVE  Patched(e) = listing.offer
    BY <1>4 DEF Patched, Offers
  <1> QED BY <1>3, <1>4

(* The invariant holds in a catalogue without the listing.                 *)
LEMMA ListingInitInv == ListingInit => ListingInv
  <1> SUFFICES ASSUME ListingInit
               PROVE  ListingInv
    OBVIOUS
  <1>1. ListingTypeOK
    BY NoPatchIsPatch DEF ListingInit, ListingTypeOK, Statuses, NoRow
  <1>2. ReadExists /\ FreshEdit /\ FreshReview /\ ApprovalStands
    BY DEF ListingInit, Exists, ReadExists, FreshEdit, FreshReview, ApprovalStands
  <1> QED BY <1>1, <1>2 DEF ListingInv

(* A submission is approved for what it offers.                            *)
LEMMA SubmitInv ==
    ASSUME ListingInv, NEW o \in Offers, NEW isVerified \in BOOLEAN,
           SubmitListing(o, isVerified)
    PROVE  ListingInv'
  <1>1. /\ \A e \in Edits : editor[e] # "write"
        /\ \A v \in Reviews : reviewer[v] # "decide"
    BY DEF SubmitListing, ListingInv, ReadExists
  <1>2. ListingTypeOK'
    BY DEF SubmitListing, ListingInv, ListingTypeOK, Statuses
  <1> QED BY <1>1, <1>2 DEF SubmitListing, ListingInv, ReadExists, Exists, FreshEdit,
             FreshReview, ApprovalStands

(* An edit that starts finds its patch to change nothing, or wants a       *)
(* review.                                                                 *)
LEMMA ReadInv ==
    ASSUME ListingInv, NEW e0 \in Edits, NEW p \in Patches, ReadListing(e0, p)
    PROVE  ListingInv'
  <1> USE DEF ListingInv
  <1>1. patch'[e0] = p /\ \A e \in Edits : e # e0 => patch'[e] = patch[e]
    BY DEF ReadListing, ListingTypeOK
  <1>2. /\ nextRow'[e0] = IF Significant(e0) THEN [status |-> "pending", published |-> FALSE]
                          ELSE [status |-> listing.status, published |-> listing.published]
        /\ \A e \in Edits : e # e0 => nextRow'[e] = nextRow[e] /\ editor'[e] = editor[e]
    BY DEF ReadListing, ListingTypeOK
  <1>3. ListingTypeOK'
    <2>1. nextRow'[e0] \in [status : Statuses, published : BOOLEAN]
      BY <1>2 DEF ListingTypeOK, Statuses
    <2> QED BY <2>1 DEF ReadListing, ListingTypeOK
  <1>4. ReadExists'
    BY <1>2 DEF ReadListing, ReadExists, Exists
  <1>5. FreshEdit'
    <2> SUFFICES ASSUME NEW e \in Edits, editor'[e] = "write", e \notin stale',
                        nextRow'[e].status = "approved"
                 PROVE  /\ listing'.status = "approved"
                        /\ \A f \in DOMAIN patch'[e] : patch'[e][f] = listing'.offer[f]
      BY DEF FreshEdit
    <2>1. CASE e = e0
      BY <1>1, <1>2, <2>1 DEF ReadListing, Significant
    <2>2. CASE e # e0
      BY <1>1, <1>2, <2>2 DEF ReadListing, FreshEdit
    <2> QED BY <2>1, <2>2
  <1>6. FreshReview' /\ ApprovalStands'
    BY DEF ReadListing, FreshReview, ApprovalStands
  <1> QED BY <1>3, <1>4, <1>5, <1>6

(* Whoever is not overtaken by a write was not before it either, and an    *)
(* edit is not if the write changed nothing, a review if the offer stays.  *)
LEMMA OvertakeFacts ==
    ASSUME NEW x, Overtake(x)
    PROVE  /\ \A e \in Edits : e # x /\ e \notin stale' =>
                e \notin stale /\ (editor[e] = "write" => listing' = listing)
           /\ \A v \in Reviews : v # x /\ v \notin stale' =>
                v \notin stale
                /\ (reviewer[v] = "decide" => listing'.offer = listing.offer)
           /\ stale' \subseteq stale \union Edits \union Reviews
  BY DEF Overtake

(* An edit that writes.                                                    *)
LEMMA WriteInv ==
    ASSUME ListingInv, NEW e0 \in Edits, WriteListing(e0)
    PROVE  ListingInv'
  <1> USE DEF ListingInv
  <1>1. /\ Overtake(e0) /\ editor[e0] = "write" /\ editor'[e0] = "idle"
        /\ \A e \in Edits : e # e0 =>
             editor'[e] = editor[e] /\ patch'[e] = patch[e] /\ nextRow'[e] = nextRow[e]
    BY DEF WriteListing, ListingTypeOK
  <1>2. listing.offer \in Offers /\ nextRow[e0].status # "none"
    BY <1>1 DEF ReadExists
  <1>3. /\ Patched(e0) \in Offers
        /\ listing'.offer = Patched(e0) /\ listing'.status = nextRow[e0].status
    BY <1>2, PatchedFacts DEF WriteListing
  <1>4. nextRow[e0] \in [status : Statuses, published : BOOLEAN]
    BY DEF ListingTypeOK
  <1>5. ListingTypeOK'
    <2>1. listing' \in [status : Statuses, offer : Offers \union {NoOffer}, published : BOOLEAN]
      BY <1>3, <1>4 DEF WriteListing
    <2>2. patch' \in [Edits -> Patches]
      BY NoPatchIsPatch DEF WriteListing, ListingTypeOK
    <2>3. nextRow' \in [Edits -> [status : Statuses, published : BOOLEAN]]
      BY DEF WriteListing, ListingTypeOK, NoRow, Statuses
    <2>4. stale' \subseteq Edits \union Reviews
      BY <1>1, OvertakeFacts DEF ListingTypeOK
    <2> QED BY <2>1, <2>2, <2>3, <2>4 DEF WriteListing, ListingTypeOK
  <1>6. ReadExists'
    BY <1>1, <1>2, <1>3 DEF WriteListing, ReadExists, Exists
  <1>7. FreshEdit'
    <2> SUFFICES ASSUME NEW e \in Edits, editor'[e] = "write", e \notin stale',
                        nextRow'[e].status = "approved"
                 PROVE  /\ listing'.status = "approved"
                        /\ \A f \in DOMAIN patch'[e] : patch'[e][f] = listing'.offer[f]
      BY DEF FreshEdit
    <2>1. e # e0
      BY <1>1
    <2>2. e \notin stale /\ listing' = listing
      BY <1>1, <2>1, OvertakeFacts
    <2> QED BY <1>1, <2>1, <2>2 DEF FreshEdit
  <1>8. FreshReview'
    <2> SUFFICES ASSUME NEW v \in Reviews, reviewer'[v] = "decide", v \notin stale'
                 PROVE  seen'[v] = listing'.offer
      BY DEF FreshReview
    <2>1. v # e0
      BY ListingAssumption
    <2>2. reviewer[v] = "decide" /\ seen'[v] = seen[v]
      BY DEF WriteListing
    <2>3. v \notin stale /\ listing'.offer = listing.offer
      BY <1>1, <2>1, <2>2, OvertakeFacts
    <2> QED BY <2>2, <2>3 DEF FreshReview
  <1>9. ApprovalStands'
    <2> SUFFICES ASSUME ~tainted', listing'.status = "approved"
                 PROVE  listing'.offer = granted'
      BY DEF ApprovalStands
    <2>1. ~tainted /\ e0 \notin stale
      BY <1>3 DEF WriteListing
    <2>2. /\ listing.status = "approved"
          /\ \A f \in DOMAIN patch[e0] : patch[e0][f] = listing.offer[f]
      BY <1>1, <1>3, <2>1 DEF FreshEdit
    <2>3. Patched(e0) = listing.offer
      BY <1>2, <2>2, PatchedFacts
    <2> QED BY <1>3, <2>1, <2>2, <2>3 DEF WriteListing, ApprovalStands
  <1> QED BY <1>5, <1>6, <1>7, <1>8, <1>9

(* A review that opens the queue sees the offer on file.                   *)
LEMMA OpenQueueInv ==
    ASSUME ListingInv, NEW v0 \in Reviews, OpenQueue(v0)
    PROVE  ListingInv'
  <1>1. ListingTypeOK'
    BY DEF ListingInv, OpenQueue, ListingTypeOK
  <1>2. FreshReview'
    BY DEF ListingInv, OpenQueue, FreshReview, ListingTypeOK
  <1>3. ReadExists'
    BY DEF ListingInv, OpenQueue, ReadExists, Exists, ListingTypeOK
  <1>4. FreshEdit' /\ ApprovalStands'
    BY DEF ListingInv, OpenQueue, FreshEdit, ApprovalStands
  <1> QED BY <1>1, <1>2, <1>3, <1>4 DEF ListingInv

(* A write that keeps the offer, of a review or of a suspension, leaves    *)
(* what others have read true unless it overtakes them.                    *)
LEMMA DecideReads ==
    ASSUME ListingInv, NEW x, Overtake(x), x \notin Edits,
           UNCHANGED <<editor, patch, nextRow>>,
           listing'.offer = listing.offer, Exists, Exists',
           \A v \in Reviews : reviewer'[v] = "decide" =>
               v # x /\ reviewer[v] = "decide" /\ seen'[v] = seen[v]
    PROVE  ReadExists' /\ FreshEdit' /\ FreshReview' /\ stale' \subseteq Edits \union Reviews
  <1> USE DEF ListingInv
  <1>1. stale' \subseteq Edits \union Reviews
    BY OvertakeFacts DEF ListingTypeOK
  <1>2. FreshReview'
    BY OvertakeFacts DEF FreshReview
  <1>3. FreshEdit'
    <2> SUFFICES ASSUME NEW e \in Edits, editor'[e] = "write", e \notin stale',
                        nextRow'[e].status = "approved"
                 PROVE  /\ listing'.status = "approved"
                        /\ \A f \in DOMAIN patch'[e] : patch'[e][f] = listing'.offer[f]
      BY DEF FreshEdit
    <2>1. e \notin stale /\ listing' = listing
      BY OvertakeFacts
    <2> QED BY <2>1 DEF FreshEdit
  <1>4. ReadExists'
    BY DEF ReadExists
  <1> QED BY <1>1, <1>2, <1>3, <1>4

(* A decision approves what the reviewer was shown.                        *)
LEMMA ModerateInv ==
    ASSUME ListingInv, NEW v0 \in Reviews, NEW d0 \in {"approved", "rejected"},
           ModerateListing(v0, d0)
    PROVE  ListingInv'
  <1> USE DEF ListingInv
  <1>1. /\ Overtake(v0) /\ reviewer[v0] = "decide" /\ reviewer'[v0] = "idle"
        /\ \A v \in Reviews : v # v0 => reviewer'[v] = reviewer[v] /\ seen'[v] = seen[v]
        /\ listing'.offer = listing.offer
    BY DEF ModerateListing, ListingTypeOK
  <1>2. v0 \notin Edits
    BY ListingAssumption
  <1>3. Exists /\ Exists'
    BY <1>1 DEF ModerateListing, ReadExists, Exists, ListingTypeOK
  <1>4. /\ ReadExists' /\ FreshEdit' /\ FreshReview'
        /\ stale' \subseteq Edits \union Reviews
    <2>1. \A v \in Reviews : reviewer'[v] = "decide" =>
              v # v0 /\ reviewer[v] = "decide" /\ seen'[v] = seen[v]
      BY <1>1
    <2>2. UNCHANGED <<editor, patch, nextRow>>
      BY DEF ModerateListing
    <2> QED BY <1>1, <1>2, <1>3, <2>1, <2>2, DecideReads
  <1>5. ListingTypeOK'
    <2>1. seen[v0] \in Offers \union {NoOffer}
      BY DEF ListingTypeOK
    <2> QED BY <1>4, <2>1 DEF ModerateListing, ListingTypeOK, Statuses
  <1>6. ApprovalStands'
    <2>1. CASE listing.status # "pending"
      BY <2>1 DEF ModerateListing, ApprovalStands
    <2>2. CASE listing.status = "pending"
      <3> SUFFICES ASSUME ~tainted', listing'.status = "approved"
                   PROVE  listing'.offer = granted'
        BY DEF ApprovalStands
      <3>1. d0 = "approved" /\ v0 \notin stale
        BY <2>2 DEF ModerateListing, ListingTypeOK
      <3> QED BY <1>1, <2>2, <3>1 DEF ModerateListing, FreshReview
    <2> QED BY <2>1, <2>2
  <1> QED BY <1>4, <1>5, <1>6

(* A suspension takes the listing off display.                             *)
LEMMA SuspendInv ==
    ASSUME ListingInv, SuspendListing
    PROVE  ListingInv'
  <1> USE DEF ListingInv
  <1>1. listing'.status = "suspended" /\ listing'.offer = listing.offer
    BY DEF SuspendListing, ListingTypeOK
  <1>2. Overtake(NoOffer) /\ NoOffer \notin Edits \union Reviews
    BY ListingAssumption DEF SuspendListing
  <1>3. Exists /\ Exists'
    BY <1>1 DEF SuspendListing, Exists
  <1>4. UNCHANGED <<editor, patch, nextRow, reviewer, seen>>
    BY DEF SuspendListing
  <1>5. /\ ReadExists' /\ FreshEdit' /\ FreshReview'
        /\ stale' \subseteq Edits \union Reviews
    BY <1>1, <1>2, <1>3, <1>4, DecideReads
  <1>6. ListingTypeOK'
    BY <1>5 DEF SuspendListing, ListingTypeOK, Statuses
  <1> QED BY <1>1, <1>5, <1>6 DEF ApprovalStands

(* Every step of the listing keeps the invariant.                          *)
LEMMA ListingStep == ListingInv /\ [ListingNext]_listingVars => ListingInv'
  <1> SUFFICES ASSUME ListingInv, [ListingNext]_listingVars
               PROVE  ListingInv'
    OBVIOUS
  <1>1. CASE UNCHANGED listingVars
    BY <1>1 DEF listingVars, ListingInv, ListingTypeOK, ReadExists, Exists, FreshEdit,
        FreshReview, ApprovalStands
  <1> QED BY <1>1, SubmitInv, ReadInv, WriteInv, OpenQueueInv, ModerateInv, SuspendInv
          DEF ListingNext

(* However many edits and reviews of a listing run, what                   *)
(* apps/dashboard/src/lib/catalog-store.ts has on display was approved as  *)
(* it stands, unless what was read for it had been overtaken.              *)
THEOREM ApprovalStandsHolds == ListingSpec => []ApprovalStands
  <1>1. ListingInv => ApprovalStands
    BY DEF ListingInv
  <1> QED BY <1>1, ListingInitInv, ListingStep, PTL DEF ListingSpec

-----------------------------------------------------------------------------
(* The rate limit                                                          *)

MinuteOf(b) == b * Minute .. b * Minute + Minute - 1

AdmittedIn(S) == {c \in Checks \ late : verdict[c] = "allowed" /\ asked[c] \in S}

RateTypeOK ==
    /\ clock \in 0 .. Ticks
    /\ asked \in [Checks -> -1 .. Ticks]
    /\ verdict \in [Checks -> {"none", "sent", "allowed", "refused", "open"}]
    /\ bucket \in [Buckets -> Nat]
    /\ gone \in [Buckets -> Nat]
    /\ late \subseteq Checks

Called == {c \in Checks : verdict[c] # "none"}

(* A check's time is read before its pipeline is sent.                     *)
AskedBefore == \A c \in Called : asked[c] \in 0 .. clock

(* A counter lasts until the minute after its own has ended,               *)
CountersLast == \A b \in Buckets : bucket[b] > 0 => gone[b] >= b * Minute + Ttl

(* and until then misses none of the checks admitted in its minute.        *)
CountersCover ==
    \A b \in Buckets :
        BucketOf(clock) \in {b, b + 1} => bucket[b] >= Admitted(MinuteOf(b))

(* The last check admitted up to a tick of a minute was within the limit   *)
(* with all those admitted before it, and the next has no more room: the   *)
(* part of the minute before that counts only grows smaller.               *)
RoomFor(t, b) ==
    LET soFar == Admitted(b * Minute .. t)
    IN  soFar > 0 =>
            Minute * soFar + (Minute - (t % Minute)) * Admitted(MinuteOf(b - 1))
                <= Minute * Limit

Weighed == \A t \in 0 .. Ticks : RoomFor(t, BucketOf(t))

RateInv ==
    /\ RateTypeOK /\ IsFiniteSet(Called)
    /\ AskedBefore /\ CountersLast /\ CountersCover /\ Weighed

LEMMA Scaled ==
    ASSUME NEW m \in Nat, NEW x \in Int, NEW y \in Int, x <= y
    PROVE  m * x <= m * y /\ x * m <= y * m
  <1>1. (y - x) * m \in Nat /\ x * m \in Int /\ y * m \in Int /\ m * x \in Int /\ m * y \in Int
    OBVIOUS
  <1>2. y * m = x * m + (y - x) * m
    OBVIOUS
  <1>3. m * x = x * m /\ m * y = y * m
    OBVIOUS
  <1> QED BY <1>1, <1>2, <1>3

(* Minutes in a row.                                                       *)
LEMMA MinutesInARow ==
    ASSUME NEW b \in Int, NEW e \in Int
    PROVE  /\ (b + 1) * Minute = b * Minute + Minute
           /\ (b - 1) * Minute = b * Minute - Minute
           /\ b * Minute \in Int
           /\ b <= e => b * Minute <= e * Minute
           /\ b < e => b * Minute + Minute <= e * Minute
  <1>1. Minute \in Nat \ {0}
    BY RateAssumption
  <1>2. b * Minute \in Int /\ (b + 1) * Minute = b * Minute + Minute
        /\ (b - 1) * Minute = b * Minute - Minute
    BY <1>1
  <1>3. ASSUME b <= e PROVE b * Minute <= e * Minute
    BY <1>1, <1>3, Scaled
  <1>4. ASSUME b < e PROVE b * Minute + Minute <= e * Minute
    <2>1. (b + 1) * Minute <= e * Minute
      BY <1>1, <1>4, Scaled
    <2> QED BY <1>2, <2>1
  <1> QED BY <1>2, <1>3, <1>4

(* A tick is its minute's beginning and the rest.                          *)
LEMMA Divided ==
    ASSUME NEW t \in Int, NEW m \in Int, m > 0
    PROVE  /\ t \div m \in Int
           /\ t % m \in 0 .. m - 1
           /\ t = m * (t \div m) + (t % m)
  <1>1. t \div m \in Int
    OBVIOUS
  <1>2. t % m \in 0 .. m - 1
    OBVIOUS
  <1>3. t = m * (t \div m) + (t % m)
    BY SMTT(30)
  <1> QED BY <1>1, <1>2, <1>3

LEMMA Quotient ==
    ASSUME NEW t \in Int, NEW m \in Int, m > 0, NEW q \in Int, q * m <= t, t < q * m + m
    PROVE  t \div m = q
  <1> DEFINE r == t - q * m
  <1>1. r \in 0 .. m - 1 /\ t = q * m + r
    OBVIOUS
  <1> HIDE DEF r
  <1> QED BY <1>1, SMTT(30)

(* The bucket of a tick, and the ticks of a bucket.                        *)
LEMMA BucketOfTick ==
    ASSUME NEW t \in Nat
    PROVE  /\ BucketOf(t) \in Nat
           /\ t % Minute \in 0 .. Minute - 1
           /\ t = BucketOf(t) * Minute + (t % Minute)
           /\ \A b \in Int : t \in MinuteOf(b) <=> b = BucketOf(t)
  <1>1. Minute \in Nat /\ Minute \in Int /\ Minute > 0
    BY RateAssumption
  <1>2. /\ BucketOf(t) \in Int
        /\ t % Minute \in 0 .. Minute - 1
        /\ t = BucketOf(t) * Minute + (t % Minute)
    BY <1>1, Divided DEF BucketOf
  <1>3. BucketOf(t) \in Nat
    BY <1>1, SMT DEF BucketOf
  <1>4. ASSUME NEW b \in Int, t \in MinuteOf(b)
        PROVE  b = BucketOf(t)
    BY <1>1, <1>4, Quotient, MinutesInARow DEF MinuteOf, BucketOf
  <1>5. t \in MinuteOf(BucketOf(t))
    <2>1. BucketOf(t) * Minute \in Int
      BY <1>1, <1>2
    <2> QED BY <1>1, <1>2, <2>1 DEF MinuteOf
  <1> QED BY <1>2, <1>3, <1>4, <1>5

(* More of either counter, and a smaller part of the one gone, weigh more. *)
LEMMA WeighsMore ==
    ASSUME NEW m \in Nat, NEW a \in Nat, NEW a2 \in Nat, a <= a2,
           NEW p \in Nat, NEW p2 \in Nat, p <= p2, NEW w \in Nat, NEW w2 \in Nat, w <= w2
    PROVE  m * a + w * p <= m * a2 + w2 * p2
  <1>1. m * a <= m * a2
    OBVIOUS
  <1>2. w * p <= w * p2
    OBVIOUS
  <1>3. w * p2 <= w2 * p2
    OBVIOUS
  <1>4. /\ m * a \in Nat /\ m * a2 \in Nat
        /\ w * p \in Nat /\ w * p2 \in Nat /\ w2 * p2 \in Nat
    OBVIOUS
  <1> QED BY <1>1, <1>2, <1>3, <1>4

(* The admitted are called, and so finitely many.                          *)
LEMMA AdmittedCount ==
    ASSUME IsFiniteSet(Called), NEW S
    PROVE  /\ IsFiniteSet(AdmittedIn(S))
           /\ Admitted(S) = Cardinality(AdmittedIn(S))
           /\ Admitted(S) \in Nat
           /\ Admitted(S) = 0 <=> AdmittedIn(S) = {}
  <1>1. AdmittedIn(S) \in SUBSET Called
    BY DEF AdmittedIn, Called
  <1>2. IsFiniteSet(AdmittedIn(S))
    BY <1>1, FS_Subset
  <1>3. Admitted(S) = Cardinality(AdmittedIn(S))
    BY DEF Admitted, AdmittedIn
  <1> QED BY <1>2, <1>3, FS_CardinalityType, FS_EmptySet

LEMMA AdmittedCountNext ==
    ASSUME IsFiniteSet(Called'), NEW S
    PROVE  /\ IsFiniteSet(AdmittedIn(S)')
           /\ Admitted(S)' = Cardinality(AdmittedIn(S)')
           /\ Admitted(S)' \in Nat
           /\ Admitted(S)' = 0 <=> AdmittedIn(S)' = {}
  <1>1. AdmittedIn(S)' \in SUBSET Called'
    BY DEF AdmittedIn, Called
  <1>2. IsFiniteSet(AdmittedIn(S)')
    BY <1>1, FS_Subset
  <1>3. Admitted(S)' = Cardinality(AdmittedIn(S)')
    BY DEF Admitted, AdmittedIn
  <1> QED BY <1>2, <1>3, FS_CardinalityType, FS_EmptySet

LEMMA AdmittedWithin ==
    ASSUME IsFiniteSet(Called), NEW S, NEW T, S \subseteq T
    PROVE  Admitted(S) <= Admitted(T)
  <1>1. AdmittedIn(S) \in SUBSET AdmittedIn(T)
    BY DEF AdmittedIn
  <1> QED BY <1>1, AdmittedCount, FS_Subset

LEMMA AdmittedWithinNext ==
    ASSUME IsFiniteSet(Called'), NEW S, NEW T, S \subseteq T
    PROVE  Admitted(S)' <= Admitted(T)'
  <1>1. AdmittedIn(S)' \in SUBSET AdmittedIn(T)'
    BY DEF AdmittedIn
  <1> QED BY <1>1, AdmittedCountNext, FS_Subset

(* What a step that admits nobody, or one check at most, does to a count.  *)
LEMMA NobodyAdmitted ==
    ASSUME IsFiniteSet(Called), IsFiniteSet(Called'), NEW S,
           AdmittedIn(S)' \subseteq AdmittedIn(S)
    PROVE  Admitted(S)' <= Admitted(S)
  <1>1. AdmittedIn(S)' \in SUBSET AdmittedIn(S)
    OBVIOUS
  <1> QED BY <1>1, AdmittedCount, AdmittedCountNext, FS_Subset

LEMMA OneAdmitted ==
    ASSUME IsFiniteSet(Called), IsFiniteSet(Called'), NEW S, NEW c,
           AdmittedIn(S)' \subseteq AdmittedIn(S) \union {c}
    PROVE  Admitted(S)' <= Admitted(S) + 1
  <1>1. AdmittedIn(S)' \in SUBSET (AdmittedIn(S) \union {c})
    OBVIOUS
  <1>2. /\ IsFiniteSet(AdmittedIn(S) \union {c})
        /\ Cardinality(AdmittedIn(S) \union {c}) <= Admitted(S) + 1
    <2>1. IsFiniteSet(AdmittedIn(S)) /\ Cardinality(AdmittedIn(S)) \in Nat
      BY AdmittedCount
    <2>2. Admitted(S) = Cardinality(AdmittedIn(S))
      BY AdmittedCount
    <2>3. /\ IsFiniteSet(AdmittedIn(S) \union {c})
          /\ Cardinality(AdmittedIn(S) \union {c}) =
                IF c \in AdmittedIn(S) THEN Cardinality(AdmittedIn(S))
                ELSE Cardinality(AdmittedIn(S)) + 1
      BY <2>1, FS_AddElement
    <2> QED BY <2>1, <2>2, <2>3
  <1>3. Cardinality(AdmittedIn(S)') <= Cardinality(AdmittedIn(S) \union {c})
    BY <1>1, <1>2, FS_Subset
  <1>4. Cardinality(AdmittedIn(S) \union {c}) \in Nat
    BY <1>2, FS_CardinalityType
  <1> QED BY <1>2, <1>3, <1>4, AdmittedCount, AdmittedCountNext

LEMMA WeighsLess ==
    ASSUME NEW m \in Nat, NEW a \in Nat, NEW a2 \in Nat, a2 <= a, NEW p \in Nat,
           NEW p2 \in Nat, p2 <= p, NEW w \in Nat, NEW l \in Nat, m * a + w * p <= m * l
    PROVE  m * a2 + w * p2 <= m * l
  <1>1. m * a2 + w * p2 <= m * a + w * p
    BY WeighsMore
  <1>2. /\ m * a \in Nat /\ w * p \in Nat /\ m * l \in Nat
        /\ m * a2 \in Nat /\ w * p2 \in Nat
    OBVIOUS
  <1> QED BY <1>1, <1>2

LEMMA RoomKept ==
    ASSUME IsFiniteSet(Called), IsFiniteSet(Called'), NEW t \in 0 .. Ticks, NEW b \in Int,
           RoomFor(t, b),
           Admitted(b * Minute .. t)' <= Admitted(b * Minute .. t),
           Admitted(MinuteOf(b - 1))' <= Admitted(MinuteOf(b - 1))
    PROVE  RoomFor(t, b)'
  <1> DEFINE w == Minute - (t % Minute)
             A == Admitted(b * Minute .. t)
             P == Admitted(MinuteOf(b - 1))
             A2 == Admitted(b * Minute .. t)'
             P2 == Admitted(MinuteOf(b - 1))'
  <1>1. w \in Nat /\ Minute \in Nat /\ Limit \in Nat
    <2>1. t \in Nat /\ Minute \in Nat /\ Limit \in Nat
      BY RateAssumption
    <2>2. t % Minute \in 0 .. Minute - 1
      BY <2>1, BucketOfTick
    <2> QED BY <2>1, <2>2
  <1>2. A \in Nat /\ P \in Nat /\ A2 \in Nat /\ P2 \in Nat
    BY AdmittedCount, AdmittedCountNext
  <1>3. SUFFICES ASSUME A2 > 0
                 PROVE  Minute * A2 + w * P2 <= Minute * Limit
    BY DEF RoomFor
  <1>4. A2 <= A /\ P2 <= P
    OBVIOUS
  <1>5. A > 0
    BY <1>2, <1>3, <1>4
  <1>6. Minute * A + w * P <= Minute * Limit
    BY <1>5 DEF RoomFor
  <1> HIDE DEF w, A, P, A2, P2
  <1> QED BY <1>1, <1>2, <1>4, <1>6, WeighsLess

(* The bucket of a check is one that Redis can hold.                       *)
LEMMA BucketHeld ==
    ASSUME NEW t \in 0 .. Ticks
    PROVE  /\ BucketOf(t) \in Buckets /\ BucketOf(t) - 1 \in Buckets
           /\ BucketOf(t) \in Nat
           /\ BucketOf(t) * Minute <= t
  <1>1. Ticks \in Nat /\ Minute \in Nat
    BY RateAssumption
  <1>2. BucketOf(t) \in Nat /\ BucketOf(Ticks) \in Nat
    BY <1>1, BucketOfTick
  <1>3. /\ BucketOf(t) * Minute <= t
        /\ Ticks < BucketOf(Ticks) * Minute + Minute
    <2>1. BucketOf(t) * Minute \in Int /\ BucketOf(Ticks) * Minute \in Int
      BY <1>1, <1>2
    <2>2. t \in MinuteOf(BucketOf(t)) /\ Ticks \in MinuteOf(BucketOf(Ticks))
      BY <1>1, <1>2, BucketOfTick
    <2> QED BY <1>1, <2>1, <2>2 DEF MinuteOf
  <1>4. BucketOf(t) <= BucketOf(Ticks)
    <2>1. BucketOf(Ticks) < BucketOf(t) =>
              BucketOf(Ticks) * Minute + Minute <= BucketOf(t) * Minute
      BY <1>2, MinutesInARow
    <2>2. BucketOf(t) * Minute \in Int /\ BucketOf(Ticks) * Minute \in Int
      BY <1>1, <1>2
    <2> QED BY <1>1, <1>2, <1>3, <2>1, <2>2
  <1>5. Buckets = -1 .. BucketOf(Ticks)
    BY DEF Buckets, BucketOf
  <1> QED BY <1>2, <1>3, <1>4, <1>5

(* Types, and the time of a check before its pipeline.                     *)
LEMMA CountFacts ==
    ASSUME RateTypeOK, AskedBefore, NEW c \in Checks, verdict[c] = "sent",
           Count(c, BucketOf(asked[c])), UNCHANGED clock
    PROVE  /\ asked[c] \in 0 .. clock /\ asked[c] \in 0 .. Ticks
           /\ bucket' \in [Buckets -> Nat]
           /\ gone' \in [Buckets -> Nat]
           /\ late' \subseteq Checks
           /\ \A b \in Buckets : bucket'[b] >= bucket[b]
           /\ \A b \in Buckets : b # BucketOf(asked[c]) =>
                  bucket'[b] = bucket[b] /\ gone'[b] = gone[b]
           /\ bucket'[BucketOf(asked[c])] = bucket[BucketOf(asked[c])] + 1
           /\ gone'[BucketOf(asked[c])] >= BucketOf(asked[c]) * Minute + Ttl
  <1>1. asked[c] \in 0 .. clock /\ asked[c] \in 0 .. Ticks
    BY RateAssumption DEF AskedBefore, Called, RateTypeOK
  <1> DEFINE b0 == BucketOf(asked[c])
  <1>2. b0 \in Buckets /\ b0 \in Nat /\ b0 * Minute <= asked[c]
    BY <1>1, BucketHeld
  <1>3. Minute \in Nat /\ Ttl \in Nat /\ clock \in Nat
    BY RateAssumption DEF RateTypeOK
  <1>4. b0 * Minute \in Int
    BY <1>2, <1>3
  <1>5. clock + Ttl >= b0 * Minute + Ttl
    BY <1>1, <1>2, <1>3, <1>4
  <1>6. /\ bucket' = [bucket EXCEPT ![b0] = @ + 1]
        /\ gone' = [gone EXCEPT ![b0] = clock + Ttl]
        /\ late' \subseteq late \union {c}
    BY DEF Count
  <1> HIDE DEF b0
  <1>7. /\ bucket' \in [Buckets -> Nat] /\ gone' \in [Buckets -> Nat]
        /\ late' \subseteq Checks
        /\ bucket'[b0] = bucket[b0] + 1 /\ gone'[b0] = clock + Ttl
        /\ \A b \in Buckets : b # b0 => bucket'[b] = bucket[b] /\ gone'[b] = gone[b]
    BY <1>2, <1>3, <1>6 DEF RateTypeOK
  <1>8. \A b \in Buckets : bucket'[b] >= bucket[b]
    BY <1>2, <1>7 DEF RateTypeOK
  <1> QED BY <1>1, <1>5, <1>7, <1>8 DEF b0

LEMMA RateTypeStep ==
    ASSUME RateTypeOK, AskedBefore, [RateNext]_rateVars
    PROVE  RateTypeOK' /\ AskedBefore'
  <1>1. CASE Tick
    BY <1>1, RateAssumption DEF Tick, RateTypeOK, AskedBefore, Called
  <1>2. ASSUME NEW c \in Checks, Check(c)
        PROVE  RateTypeOK' /\ AskedBefore'
    BY <1>2, RateAssumption DEF Check, RateTypeOK, AskedBefore, Called
  <1>3. ASSUME NEW c \in Checks, Exec(c)
        PROVE  RateTypeOK' /\ AskedBefore'
    <2>1. /\ Count(c, BucketOf(asked[c])) /\ verdict[c] = "sent"
          /\ UNCHANGED <<clock, asked>>
          /\ \E v \in {"allowed", "refused"} : verdict' = [verdict EXCEPT ![c] = v]
      BY <1>3 DEF Exec
    <2>2. /\ bucket' \in [Buckets -> Nat] /\ gone' \in [Buckets -> Nat]
          /\ late' \subseteq Checks
      BY <2>1, CountFacts
    <2> QED BY <2>1, <2>2 DEF RateTypeOK, AskedBefore, Called
  <1>4. ASSUME NEW c \in Checks, Abort(c)
        PROVE  RateTypeOK' /\ AskedBefore'
    <2>1. /\ bucket' \in [Buckets -> Nat] /\ gone' \in [Buckets -> Nat]
          /\ late' \subseteq Checks
      BY <1>4, CountFacts DEF Abort, RateTypeOK
    <2> QED BY <1>4, <2>1 DEF Abort, RateTypeOK, AskedBefore, Called
  <1>5. CASE UNCHANGED rateVars
    BY <1>5 DEF rateVars, RateTypeOK, AskedBefore, Called
  <1> QED BY <1>1, <1>2, <1>3, <1>4, <1>5 DEF RateNext

(* A step calls one check at most.                                         *)
LEMMA CalledStep ==
    ASSUME RateTypeOK, IsFiniteSet(Called), [RateNext]_rateVars
    PROVE  IsFiniteSet(Called')
  <1>1. CASE UNCHANGED verdict
    BY <1>1 DEF Called
  <1>2. ASSUME NEW c \in Checks, NEW v, verdict' = [verdict EXCEPT ![c] = v]
        PROVE  IsFiniteSet(Called')
    <2>1. Called' \in SUBSET (Called \union {c})
      BY <1>2 DEF Called, RateTypeOK
    <2>2. IsFiniteSet(Called \union {c})
      BY FS_AddElement
    <2> QED BY <2>1, <2>2, FS_Subset
  <1>3. UNCHANGED verdict \/ \E c \in Checks : \E v \in {"sent", "allowed", "refused", "open"} :
            verdict' = [verdict EXCEPT ![c] = v]
    BY DEF RateNext, Tick, Check, Exec, Abort, rateVars
  <1> QED BY <1>1, <1>2, <1>3

(* A step that admits nobody and forgets nothing keeps room.               *)
LEMMA QuietCounts ==
    ASSUME RateInv, IsFiniteSet(Called'), UNCHANGED clock,
           \A b \in Buckets : bucket'[b] >= bucket[b], bucket' \in [Buckets -> Nat],
           \A c \in Checks : c \notin late' /\ verdict'[c] = "allowed" =>
               c \notin late /\ verdict[c] = "allowed" /\ asked'[c] = asked[c]
    PROVE  CountersCover' /\ Weighed'
  <1>1. \A S : AdmittedIn(S)' \subseteq AdmittedIn(S)
    BY DEF AdmittedIn
  <1>2. \A S : Admitted(S)' <= Admitted(S)
    BY <1>1, NobodyAdmitted DEF RateInv
  <1>3. CountersCover'
    <2> SUFFICES ASSUME NEW b \in Buckets, BucketOf(clock) \in {b, b + 1}
                 PROVE  bucket'[b] >= Admitted(MinuteOf(b))'
      BY DEF CountersCover, BucketOf
    <2>1. bucket[b] >= Admitted(MinuteOf(b))
      BY DEF RateInv, CountersCover
    <2>2. Admitted(MinuteOf(b)) \in Nat /\ Admitted(MinuteOf(b))' \in Nat
      BY AdmittedCount, AdmittedCountNext DEF RateInv
    <2> QED BY <1>2, <2>1, <2>2 DEF RateInv, RateTypeOK
  <1>4. Weighed'
    <2> SUFFICES ASSUME NEW t \in 0 .. Ticks
                 PROVE  RoomFor(t, BucketOf(t))'
      BY DEF Weighed
    <2> QED BY <1>2, RoomKept, BucketHeld DEF RateInv, Weighed
  <1> QED BY <1>3, <1>4

(* The clock moves: no counter that is still to be read is gone.           *)
LEMMA TickKeeps ==
    ASSUME RateInv, RateTypeOK', IsFiniteSet(Called'), Tick
    PROVE  CountersLast' /\ CountersCover' /\ Weighed'
  <1>1. /\ clock \in Nat /\ clock + 1 \in 0 .. Ticks /\ clock' = clock + 1
        /\ Minute \in Nat \ {0} /\ Ttl \in Nat /\ Ttl >= 2 * Minute
    BY RateAssumption DEF RateInv, RateTypeOK, Tick
  <1>2. \A b \in Buckets : bucket'[b] = IF clock' < gone[b] THEN bucket[b] ELSE 0
    BY DEF Tick, Alive
  <1>3. \A S : AdmittedIn(S)' = AdmittedIn(S)
    BY DEF AdmittedIn, Tick
  <1>4. \A S : Admitted(S)' = Admitted(S)
    BY DEF Admitted, Tick
  <1>5. CountersLast'
    BY <1>2 DEF CountersLast, RateInv, Tick
  <1>6. CountersCover'
    <2> SUFFICES ASSUME NEW b \in Buckets, BucketOf(clock + 1) \in {b, b + 1}
                 PROVE  bucket'[b] >= Admitted(MinuteOf(b))
      BY <1>1, <1>4 DEF CountersCover
    <2>1. b \in Int /\ b * Minute \in Int /\ (b + 1) * Minute = b * Minute + Minute
      <3>1. b \in Int
        BY DEF Buckets
      <3> QED BY <3>1, MinutesInARow
    <2>2. clock + 1 \in MinuteOf(b) \/ clock + 1 \in MinuteOf(b + 1)
      <3>1. clock + 1 \in Nat /\ b + 1 \in Int
        BY <1>1, <2>1
      <3> QED BY <2>1, <3>1, BucketOfTick
    <2>3. b * Minute <= clock + 1 /\ clock + 1 < b * Minute + 2 * Minute
      BY <1>1, <2>1, <2>2 DEF MinuteOf
    <2>4. CASE b * Minute <= clock
      <3>1. clock \in MinuteOf(b) \/ clock \in MinuteOf(b + 1)
        BY <1>1, <2>1, <2>3, <2>4 DEF MinuteOf
      <3>2. BucketOf(clock) \in {b, b + 1}
        <4>1. b + 1 \in Int
          BY <2>1
        <4> QED BY <1>1, <2>1, <3>1, <4>1, BucketOfTick
      <3>3. bucket[b] >= Admitted(MinuteOf(b))
        BY <3>2 DEF RateInv, CountersCover
      <3>4. bucket'[b] = bucket[b]
        <4>1. bucket[b] \in Nat /\ gone[b] \in Nat
          BY DEF RateInv, RateTypeOK
        <4>2. bucket[b] > 0 => gone[b] >= b * Minute + Ttl
          BY DEF RateInv, CountersLast
        <4> QED BY <1>1, <1>2, <2>1, <2>3, <4>1, <4>2
      <3> QED BY <3>3, <3>4
    <2>5. CASE clock < b * Minute
      <3>1. AdmittedIn(MinuteOf(b)) = {}
        <4> SUFFICES ASSUME NEW c \in AdmittedIn(MinuteOf(b))
                     PROVE  FALSE
          OBVIOUS
        <4>1. asked[c] \in 0 .. clock
          BY DEF AdmittedIn, RateInv, AskedBefore, Called
        <4>2. asked[c] \in MinuteOf(b)
          BY DEF AdmittedIn
        <4> QED BY <1>1, <2>1, <2>5, <4>1, <4>2 DEF MinuteOf
      <3>2. Admitted(MinuteOf(b)) = 0
        BY <3>1, AdmittedCount DEF RateInv
      <3> QED BY <3>2 DEF RateTypeOK
    <2> QED BY <1>1, <2>1, <2>4, <2>5
  <1>7. Weighed'
    <2> SUFFICES ASSUME NEW t \in 0 .. Ticks
                 PROVE  RoomFor(t, BucketOf(t))'
      BY DEF Weighed
    <2>1. RoomFor(t, BucketOf(t))
      BY DEF RateInv, Weighed
    <2> QED BY <1>4, <2>1 DEF RoomFor
  <1> QED BY <1>5, <1>6, <1>7

(* A check is admitted in its minute: the counters it was weighed by miss  *)
(* none of those admitted in its minute, itself included, and in the one   *)
(* before.                                                                 *)
LEMMA ExecKeeps ==
    ASSUME RateInv, RateTypeOK', IsFiniteSet(Called'), NEW c \in Checks, Exec(c)
    PROVE  CountersLast' /\ CountersCover' /\ Weighed'
  <1> DEFINE b0 == BucketOf(asked[c])
             a0 == asked[c]
  <1>1. /\ Count(c, b0) /\ verdict[c] = "sent" /\ UNCHANGED <<clock, asked>>
        /\ verdict' = [verdict EXCEPT ![c] =
               IF Used(c, b0) <= Minute * Limit THEN "allowed" ELSE "refused"]
    BY DEF Exec
  <1>2. /\ a0 \in 0 .. clock /\ a0 \in 0 .. Ticks
        /\ bucket' \in [Buckets -> Nat]
        /\ \A b \in Buckets : bucket'[b] >= bucket[b]
        /\ \A b \in Buckets : b # b0 => bucket'[b] = bucket[b] /\ gone'[b] = gone[b]
        /\ bucket'[b0] = bucket[b0] + 1
        /\ gone'[b0] >= b0 * Minute + Ttl
    BY <1>1, CountFacts DEF RateInv
  <1>3. b0 \in Buckets /\ b0 - 1 \in Buckets /\ b0 \in Nat
    BY <1>2, BucketHeld
  <1>4. CountersLast'
    BY <1>2 DEF CountersLast, RateInv
  <1>5. Used(c, b0) \in Int /\ Minute * Limit \in Int
    <2>1. Minute \in Int /\ Limit \in Int /\ a0 \in Nat
      BY <1>2, RateAssumption
    <2>2. a0 % Minute \in Int
      BY <2>1, BucketOfTick
    <2>3. bucket'[b0] \in Int /\ bucket[b0 - 1] \in Int
      BY <1>2, <1>3 DEF RateInv, RateTypeOK
    <2> QED BY <2>1, <2>2, <2>3 DEF Used, Weigh
  <1>6. CASE Used(c, b0) > Minute * Limit \/ BucketOf(clock) > b0
    <2>1. Used(c, b0) > Minute * Limit => verdict'[c] # "allowed"
      <3>1. Used(c, b0) > Minute * Limit => ~ (Used(c, b0) <= Minute * Limit)
        BY <1>5
      <3> QED BY <1>1, <3>1 DEF RateInv, RateTypeOK
    <2>2. BucketOf(clock) > b0 => c \in late'
      BY <1>1 DEF Count
    <2>3. late \subseteq late'
      BY <1>1 DEF Count
    <2>4. \A e \in Checks : e \notin late' /\ verdict'[e] = "allowed" =>
              e \notin late /\ verdict[e] = "allowed" /\ asked'[e] = asked[e]
      BY <1>1, <1>6, <2>1, <2>2, <2>3 DEF RateInv, RateTypeOK
    <2> QED BY <1>1, <1>2, <1>4, <2>4, QuietCounts
  <1>7. CASE Used(c, b0) <= Minute * Limit /\ BucketOf(clock) <= b0
    <2>1. clock \in 0 .. Ticks /\ clock \in Nat
      BY RateAssumption DEF RateInv, RateTypeOK
    <2>2. \A S : AdmittedIn(S)' \subseteq AdmittedIn(S) \union {c}
      BY <1>1 DEF AdmittedIn, Count, RateInv, RateTypeOK
    <2>3. \A S : a0 \notin S => AdmittedIn(S)' \subseteq AdmittedIn(S)
      BY <1>1 DEF AdmittedIn, Count, RateInv, RateTypeOK
    <2>4. \A S : Admitted(S)' <= Admitted(S) + 1
      BY <2>2, OneAdmitted DEF RateInv
    <2>5. \A S : a0 \notin S => Admitted(S)' <= Admitted(S)
      BY <2>3, NobodyAdmitted DEF RateInv
    <2>6. \A t \in Nat, b \in Int : t \in MinuteOf(b) <=> b = BucketOf(t)
      BY BucketOfTick
    <2>7. BucketOf(clock) = b0
      <3>1. /\ BucketOf(clock) \in Nat
            /\ a0 \in MinuteOf(b0) /\ clock \in MinuteOf(BucketOf(clock))
        BY <1>2, <1>3, <2>1, <2>6, BucketOfTick
      <3>2. BucketOf(clock) < b0 => BucketOf(clock) * Minute + Minute <= b0 * Minute
        BY <1>3, <3>1, MinutesInARow
      <3>3. BucketOf(clock) * Minute \in Int /\ b0 * Minute \in Int
        BY <1>3, <3>1, MinutesInARow
      <3>4. Minute \in Nat
        BY RateAssumption
      <3>5. ~ (BucketOf(clock) < b0)
        BY <1>2, <2>1, <3>1, <3>2, <3>3, <3>4 DEF MinuteOf
      <3> QED BY <1>3, <1>7, <3>1, <3>5
    <2>8. \A S : Admitted(S) \in Nat /\ Admitted(S)' \in Nat
      BY AdmittedCount, AdmittedCountNext DEF RateInv
    <2>9. /\ bucket[b0] >= Admitted(MinuteOf(b0))
          /\ bucket[b0 - 1] >= Admitted(MinuteOf(b0 - 1))
      <3>1. b0 = (b0 - 1) + 1
        BY <1>3
      <3> QED BY <1>3, <2>7, <3>1 DEF RateInv, CountersCover
    <2>10. a0 \notin MinuteOf(b0 - 1)
      BY <1>2, <1>3, <2>6
    <2>11. CountersCover'
      <3> SUFFICES ASSUME NEW b \in Buckets, b0 \in {b, b + 1}
                   PROVE  bucket'[b] >= Admitted(MinuteOf(b))'
        BY <1>1, <2>7 DEF CountersCover
      <3>1. b \in Int /\ (b = b0 \/ b = b0 - 1)
        BY <1>3 DEF Buckets
      <3>2. bucket[b] \in Nat /\ bucket'[b] \in Nat
        BY <1>2 DEF RateInv, RateTypeOK
      <3>3. CASE b = b0
        BY <1>2, <2>4, <2>8, <2>9, <3>2, <3>3
      <3>4. CASE b = b0 - 1
        BY <1>2, <2>5, <2>8, <2>9, <2>10, <3>2, <3>4
      <3> QED BY <3>1, <3>3, <3>4
    <2>12. ASSUME NEW t \in 0 .. Ticks
           PROVE  RoomFor(t, BucketOf(t))'
      <3> DEFINE b == BucketOf(t)
      <3>1. t \in Nat /\ b \in Nat /\ t % Minute \in 0 .. Minute - 1
        BY RateAssumption, BucketOfTick
      <3>2. RoomFor(t, b)
        BY DEF RateInv, Weighed
      <3>3. /\ b * Minute \in Int /\ Minute \in Nat
            /\ t = b * Minute + (t % Minute)
            /\ t <= b * Minute + Minute - 1
        <4>1. b * Minute \in Int /\ Minute \in Nat
          BY <3>1, RateAssumption
        <4>2. t = b * Minute + (t % Minute)
          BY <3>1, BucketOfTick
        <4> HIDE DEF b
        <4> QED BY <3>1, <4>1, <4>2
      <3>4. b - 1 \in Int /\ b \in Int
        BY <3>1
      <3>5. CASE a0 \notin b * Minute .. t /\ a0 \notin MinuteOf(b - 1)
        BY <2>5, <3>2, <3>4, <3>5, RoomKept DEF RateInv
      <3>6. CASE a0 \in MinuteOf(b - 1)
        <4>1. b - 1 = b0
          BY <1>2, <2>6, <3>4, <3>6
        <4>2. clock < b * Minute
          <5>1. clock \in MinuteOf(b - 1)
            BY <2>1, <2>6, <2>7, <3>4, <4>1
          <5>2. (b - 1) * Minute = b * Minute - Minute
            BY <3>4, MinutesInARow
          <5> HIDE DEF b
          <5> QED BY <2>1, <3>3, <5>1, <5>2 DEF MinuteOf
        <4>3. AdmittedIn(b * Minute .. t)' = {}
          <5> SUFFICES ASSUME NEW e \in AdmittedIn(b * Minute .. t)'
                       PROVE  FALSE
            OBVIOUS
          <5>1. e \in Checks /\ asked[e] \in b * Minute .. t /\ verdict'[e] = "allowed"
            BY <1>1 DEF AdmittedIn
          <5>2. verdict[e] # "none"
            BY <1>1, <5>1 DEF RateInv, RateTypeOK
          <5>3. asked[e] \in 0 .. clock
            BY <5>1, <5>2 DEF RateInv, AskedBefore, Called
          <5> HIDE DEF b
          <5> QED BY <2>1, <3>3, <4>2, <5>1, <5>3
        <4>4. Admitted(b * Minute .. t)' = 0
          BY <4>3, AdmittedCountNext
        <4> QED BY <4>4 DEF RoomFor
      <3>7. CASE a0 \in b * Minute .. t
        <4>1. b = b0
          <5>1. a0 \in MinuteOf(b)
            BY <3>1, <3>3, <3>7 DEF MinuteOf
          <5> QED BY <1>2, <2>6, <3>4, <5>1
        <4> DEFINE A == Admitted(b * Minute .. t)'
                   P == Admitted(MinuteOf(b - 1))'
                   w == Minute - (t % Minute)
                   A2 == bucket'[b0]
                   P2 == bucket[b0 - 1]
                   w2 == Minute - (a0 % Minute)
        <4>2. A \in Nat /\ P \in Nat /\ A2 \in Nat /\ P2 \in Nat
          BY <1>2, <1>3, <2>8 DEF RateInv, RateTypeOK
        <4>3. A <= A2
          <5>1. b * Minute .. t \subseteq MinuteOf(b)
            BY <3>1, <3>3 DEF MinuteOf
          <5>2. A <= Admitted(MinuteOf(b))'
            BY <5>1, AdmittedWithinNext
          <5>3. Admitted(MinuteOf(b))' <= Admitted(MinuteOf(b)) + 1
            BY <2>4
          <5>4. bucket[b0] >= Admitted(MinuteOf(b)) /\ bucket[b0] \in Nat
            BY <1>3, <2>9, <4>1 DEF RateInv, RateTypeOK
          <5>5. Admitted(MinuteOf(b)) \in Nat /\ Admitted(MinuteOf(b))' \in Nat
            BY <2>8
          <5> HIDE DEF A, A2
          <5> QED BY <1>2, <4>2, <5>2, <5>3, <5>4, <5>5 DEF A2
        <4>4. P <= P2
          <5>1. P <= Admitted(MinuteOf(b0 - 1))
            BY <2>5, <2>10, <4>1
          <5>2. Admitted(MinuteOf(b0 - 1)) \in Nat
            BY <2>8
          <5> HIDE DEF P
          <5> QED BY <2>9, <4>2, <5>1, <5>2
        <4>5. w \in Nat /\ w2 \in Nat /\ w <= w2
          <5>1. a0 \in Nat
            BY <1>2, <2>1
          <5>2. a0 % Minute \in 0 .. Minute - 1 /\ a0 = b0 * Minute + (a0 % Minute)
            BY <5>1, BucketOfTick
          <5>3. t >= a0
            BY <3>7
          <5>4. t % Minute >= a0 % Minute
            BY <3>1, <3>3, <4>1, <5>1, <5>2, <5>3
          <5> QED BY <3>1, <3>3, <5>2, <5>4
        <4>6. Minute * A2 + w2 * P2 <= Minute * Limit
          BY <1>7 DEF Used, Weigh
        <4>7. Limit \in Nat
          BY RateAssumption
        <4> HIDE DEF A, P, w, A2, P2, w2
        <4>8. Minute * A + w * P <= Minute * A2 + w2 * P2
          BY <3>3, <4>2, <4>3, <4>4, <4>5, WeighsMore
        <4>9. /\ Minute * A \in Nat /\ w * P \in Nat
              /\ Minute * A2 \in Nat /\ w2 * P2 \in Nat /\ Minute * Limit \in Nat
          BY <3>3, <4>2, <4>5, <4>7
        <4>10. Minute * A + w * P <= Minute * Limit
          BY <4>6, <4>8, <4>9
        <4> QED BY <4>10 DEF RoomFor, A, P, w
      <3> QED BY <3>5, <3>6, <3>7
    <2> QED BY <1>4, <2>11, <2>12 DEF Weighed
  <1>8. BucketOf(clock) \in Int
    BY BucketOfTick, RateAssumption DEF RateInv, RateTypeOK
  <1>9. \/ Used(c, b0) > Minute * Limit \/ BucketOf(clock) > b0
        \/ Used(c, b0) <= Minute * Limit /\ BucketOf(clock) <= b0
    <2> HIDE DEF b0
    <2> QED BY <1>3, <1>5, <1>8
  <1> QED BY <1>6, <1>7, <1>9

LEMMA RateInductive == RateSpec => []RateInv
  <1>1. RateInit => RateInv
    <2> SUFFICES ASSUME RateInit
                 PROVE  RateInv
      OBVIOUS
    <2>1. Called = {} /\ IsFiniteSet(Called)
      <3>1. Called = {}
        BY DEF RateInit, Called
      <3> QED BY <3>1, FS_EmptySet
    <2>2. RateTypeOK /\ AskedBefore /\ CountersLast
      BY <2>1, RateAssumption DEF RateInit, RateTypeOK, AskedBefore, CountersLast
    <2>3. \A S : Admitted(S) = 0
      <3>1. \A S : AdmittedIn(S) = {}
        BY DEF AdmittedIn, RateInit
      <3> QED BY <2>1, <3>1, AdmittedCount
    <2>4. CountersCover
      BY <2>3 DEF CountersCover, RateInit
    <2>5. Weighed
      BY <2>3 DEF Weighed, RoomFor
    <2> QED BY <2>1, <2>2, <2>4, <2>5 DEF RateInv
  <1>2. RateInv /\ [RateNext]_rateVars => RateInv'
    <2> SUFFICES ASSUME RateInv, [RateNext]_rateVars
                 PROVE  RateInv'
      OBVIOUS
    <2>1. RateTypeOK' /\ AskedBefore' /\ IsFiniteSet(Called')
      BY RateTypeStep, CalledStep DEF RateInv
    <2>2. SUFFICES CountersLast' /\ CountersCover' /\ Weighed'
      BY <2>1 DEF RateInv
    <2>3. CASE Tick
      BY <2>1, <2>3, TickKeeps
    <2>4. ASSUME NEW c \in Checks, Exec(c)
          PROVE  CountersLast' /\ CountersCover' /\ Weighed'
      BY <2>1, <2>4, ExecKeeps
    <2>5. ASSUME UNCHANGED <<clock, bucket, gone, late>>,
                 \A e \in Checks : verdict'[e] = "allowed" =>
                     verdict[e] = "allowed" /\ asked'[e] = asked[e]
          PROVE  CountersLast' /\ CountersCover' /\ Weighed'
      <3>1. CountersLast'
        BY <2>5 DEF CountersLast, RateInv
      <3>2. \A b \in Buckets : bucket'[b] >= bucket[b]
        BY <2>5 DEF RateInv, RateTypeOK
      <3> QED BY <2>1, <2>5, <3>1, <3>2, QuietCounts DEF RateTypeOK
    <2>6. ASSUME NEW c \in Checks, Check(c)
          PROVE  CountersLast' /\ CountersCover' /\ Weighed'
      BY <2>5, <2>6 DEF Check, RateInv, RateTypeOK
    <2>7. ASSUME NEW c \in Checks, Abort(c)
          PROVE  CountersLast' /\ CountersCover' /\ Weighed'
      <3>1. \A e \in Checks : verdict'[e] = "allowed" =>
                verdict[e] = "allowed" /\ asked'[e] = asked[e]
        BY <2>7 DEF Abort, RateInv, RateTypeOK
      <3>2. CASE UNCHANGED <<bucket, gone, late>>
        BY <2>5, <2>7, <3>1, <3>2 DEF Abort
      <3>3. CASE Count(c, BucketOf(asked[c]))
        <4>1. \A b \in Buckets : bucket'[b] >= bucket[b]
          BY <2>7, <3>3, CountFacts DEF RateInv, Abort
        <4>2. CountersLast'
          BY <2>7, <3>3, CountFacts DEF RateInv, Abort, CountersLast
        <4>3. late \subseteq late'
          BY <3>3 DEF Count
        <4> QED BY <2>1, <2>7, <3>1, <4>1, <4>2, <4>3, QuietCounts DEF RateTypeOK, Abort
      <3> QED BY <2>7, <3>2, <3>3 DEF Abort
    <2>8. CASE UNCHANGED rateVars
      BY <2>5, <2>8 DEF rateVars
    <2> QED BY <2>3, <2>4, <2>6, <2>7, <2>8 DEF RateNext
  <1> QED BY <1>1, <1>2, PTL DEF RateSpec

(* Two stretches of time together.                                         *)
LEMMA AdmittedTogether ==
    ASSUME IsFiniteSet(Called), NEW S, NEW T, NEW U, U \subseteq S \union T
    PROVE  Admitted(U) <= Admitted(S) + Admitted(T)
  <1>1. AdmittedIn(U) \in SUBSET (AdmittedIn(S) \union AdmittedIn(T))
    BY DEF AdmittedIn
  <1>2. IsFiniteSet(AdmittedIn(S)) /\ IsFiniteSet(AdmittedIn(T))
    BY AdmittedCount
  <1>3. /\ IsFiniteSet(AdmittedIn(S) \union AdmittedIn(T))
        /\ Cardinality(AdmittedIn(S) \union AdmittedIn(T)) =
               Cardinality(AdmittedIn(S)) + Cardinality(AdmittedIn(T))
                   - Cardinality(AdmittedIn(S) \intersect AdmittedIn(T))
    BY <1>2, FS_Union
  <1>4. Cardinality(AdmittedIn(S) \intersect AdmittedIn(T)) \in Nat
    BY <1>2, FS_Intersection, FS_CardinalityType
  <1>5. Cardinality(AdmittedIn(U)) <= Cardinality(AdmittedIn(S) \union AdmittedIn(T))
    BY <1>1, <1>3, FS_Subset
  <1>6. /\ Admitted(S) = Cardinality(AdmittedIn(S)) /\ Admitted(S) \in Nat
        /\ Admitted(T) = Cardinality(AdmittedIn(T)) /\ Admitted(T) \in Nat
        /\ Admitted(U) = Cardinality(AdmittedIn(U)) /\ Admitted(U) \in Nat
    BY AdmittedCount
  <1>7. Cardinality(AdmittedIn(S) \union AdmittedIn(T)) \in Nat
    BY <1>3, FS_CardinalityType
  <1> QED BY <1>3, <1>4, <1>5, <1>6, <1>7

(* What a weighed sum leaves to the window that ends with it, and to a     *)
(* minute on its own.                                                      *)
LEMMA RoomLeft ==
    ASSUME NEW m \in Nat, NEW l \in Nat, NEW r \in 0 .. m - 1,
           NEW a \in Nat, NEW p \in Nat, NEW x \in Nat, x <= p + a,
           m * a + (m - r) * p <= m * l
    PROVE  m * x <= m * l + r * p
  <1>1. m * x <= m * (p + a)
    BY Scaled
  <1>2. m * (p + a) = m * a + m * p /\ (m - r) * p + r * p = m * p
    OBVIOUS
  <1>3. /\ m * a \in Int /\ m * p \in Int /\ (m - r) * p \in Int /\ r * p \in Int
        /\ m * x \in Int /\ m * l \in Int
    OBVIOUS
  <1> QED BY <1>1, <1>2, <1>3

LEMMA RoomAlone ==
    ASSUME NEW m \in Nat, m > 0, NEW l \in Nat, NEW p \in Nat, NEW w \in Nat, NEW q \in Nat,
           p > 0 => m * p + w * q <= m * l
    PROVE  p <= l
  <1> SUFFICES ASSUME l < p
               PROVE  FALSE
    OBVIOUS
  <1>1. m * (l + 1) <= m * p
    BY Scaled
  <1>2. m * (l + 1) = m * l + m
    OBVIOUS
  <1>3. m * p \in Nat /\ w * q \in Nat /\ m * l \in Nat
    OBVIOUS
  <1> QED BY <1>1, <1>2, <1>3

(* However the requests fall, no minute admits more than the limit and the *)
(* part of it that has passed since its last bucket began: whatever the    *)
(* limit, the bucket and the checks, as long as a counter is kept for two  *)
(* buckets.                                                                *)
THEOREM WindowIsBoundedHolds == RateSpec => []WindowIsBounded
  <1>1. RateInv => WindowIsBounded
    <2> SUFFICES ASSUME RateInv, NEW t \in 0 .. Ticks
                 PROVE  Minute * Admitted(t - Minute + 1 .. t)
                            <= Minute * Limit + (t % Minute)
                                   * Admitted(BucketOf(t) * Minute - Minute
                                                  .. BucketOf(t) * Minute - 1)
      BY DEF WindowIsBounded
    <2> DEFINE b == BucketOf(t)
               W == t - Minute + 1 .. t
               cur == b * Minute .. t
               prev == MinuteOf(b - 1)
               r == t % Minute
    <2>1. t \in Nat /\ Minute \in Nat /\ Limit \in Nat /\ Ticks \in Nat
      BY RateAssumption
    <2>2. b \in Nat /\ r \in 0 .. Minute - 1 /\ t = b * Minute + r
      BY <2>1, BucketOfTick
    <2>3. /\ b * Minute \in Int /\ b - 1 \in Int
          /\ (b - 1) * Minute = b * Minute - Minute
      <3>1. b \in Int
        BY <2>2
      <3>2. b - 1 \in Int
        BY <3>1
      <3> HIDE DEF b
      <3>3. b * Minute \in Int /\ (b - 1) * Minute = b * Minute - Minute
        BY <3>1, MinutesInARow
      <3> QED BY <3>2, <3>3 DEF b
    <2>4. prev = b * Minute - Minute .. b * Minute - 1
      BY <2>1, <2>3 DEF MinuteOf
    <2>5. W \subseteq prev \union cur
      <3> HIDE DEF b, r, prev
      <3> QED BY <2>1, <2>2, <2>3, <2>4
    <2>6. SUFFICES Minute * Admitted(W) <= Minute * Limit + r * Admitted(prev)
      BY <2>4
    <2>7. /\ Admitted(W) \in Nat /\ Admitted(cur) \in Nat /\ Admitted(prev) \in Nat
      BY AdmittedCount DEF RateInv
    <2>8. Admitted(W) <= Admitted(prev) + Admitted(cur)
      BY <2>5, AdmittedTogether DEF RateInv
    <2>9. CASE Admitted(cur) > 0
      <3>1. Minute * Admitted(cur) + (Minute - r) * Admitted(prev) <= Minute * Limit
        BY <2>9 DEF RateInv, Weighed, RoomFor
      <3> DEFINE C == Admitted(cur)
                 P == Admitted(prev)
      <3> HIDE DEF r, W, C, P
      <3> QED BY <2>1, <2>2, <2>7, <2>8, <3>1, RoomLeft DEF C, P
    <2>10. CASE Admitted(cur) = 0
      <3>1. Admitted(prev) <= Limit
        <4>1. CASE b = 0
          <5>1. AdmittedIn(prev) = {}
            <6> SUFFICES ASSUME NEW c \in AdmittedIn(prev)
                         PROVE  FALSE
              OBVIOUS
            <6>1. asked[c] \in Nat
              BY DEF AdmittedIn, RateInv, AskedBefore, Called
            <6>2. asked[c] <= -1
              <7>1. b * Minute = 0
                BY <2>1, <4>1
              <7>2. asked[c] \in prev
                BY DEF AdmittedIn
              <7> HIDE DEF b, prev
              <7> QED BY <2>4, <7>1, <7>2
            <6> QED BY <6>1, <6>2
          <5> QED BY <2>1, <5>1, AdmittedCount DEF RateInv
        <4>2. CASE b # 0
          <5> DEFINE u == b * Minute - 1
          <5>1. u \in MinuteOf(b - 1) /\ (b - 1) * Minute .. u = prev
            <6>1. Minute > 0
              BY RateAssumption
            <6> QED BY <2>1, <2>3, <6>1 DEF MinuteOf
          <5>2. u \in 0 .. Ticks /\ u \in Nat
            <6>1. Minute > 0 /\ Minute <= b * Minute
              BY <2>1, <2>2, <4>2, Scaled, RateAssumption
            <6> HIDE DEF b, r
            <6> QED BY <2>1, <2>2, <2>3, <6>1
          <5>3. BucketOf(u) = b - 1
            BY <2>3, <5>1, <5>2, BucketOfTick
          <5>4. RoomFor(u, b - 1)
            BY <5>2, <5>3 DEF RateInv, Weighed
          <5>5. u % Minute \in 0 .. Minute - 1
            BY <5>2, BucketOfTick
          <5>6. Admitted(MinuteOf(b - 1 - 1)) \in Nat
            BY AdmittedCount DEF RateInv
          <5>7. Admitted(prev) > 0 =>
                    Minute * Admitted(prev) + (Minute - (u % Minute))
                        * Admitted(MinuteOf(b - 1 - 1)) <= Minute * Limit
            BY <5>1, <5>4 DEF RoomFor
          <5> DEFINE P == Admitted(prev)
                     w == Minute - (u % Minute)
                     Q == Admitted(MinuteOf(b - 1 - 1))
          <5>8. w \in Nat /\ P \in Nat /\ Q \in Nat
            <6>1. w \in Nat
              BY <2>1, <5>5
            <6> HIDE DEF w
            <6> QED BY <2>7, <5>6, <6>1
          <5>9. P > 0 => Minute * P + w * Q <= Minute * Limit
            BY <5>7
          <5>10. Minute \in Nat /\ Minute > 0
            BY RateAssumption
          <5> HIDE DEF P, w, Q
          <5>11. P <= Limit
            BY <2>1, <5>8, <5>9, <5>10, RoomAlone
          <5> QED BY <5>11 DEF P
        <4> QED BY <4>1, <4>2
      <3>2. Admitted(W) <= Limit
        BY <2>1, <2>7, <2>8, <2>10, <3>1
      <3>3. Minute * Admitted(W) <= Minute * Limit
        BY <2>1, <2>7, <3>2, Scaled
      <3> DEFINE X == Admitted(W)
                 P == Admitted(prev)
      <3>4. X \in Nat /\ P \in Nat /\ r \in Nat
        BY <2>2, <2>7
      <3> HIDE DEF X, P, r
      <3>5. r * P \in Nat /\ Minute * X \in Nat /\ Minute * Limit \in Nat
        BY <2>1, <3>4
      <3>6. Minute * X <= Minute * Limit + r * P
        BY <3>3, <3>5 DEF X
      <3> QED BY <3>6 DEF X, P
    <2> QED BY <2>7, <2>9, <2>10
  <1> QED BY <1>1, RateInductive, PTL
=============================================================================
