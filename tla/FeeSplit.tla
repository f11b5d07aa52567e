------------------------------- MODULE FeeSplit -------------------------------
(***************************************************************************)
(* services/facilitator/src/fees.ts: the platform's part of a payment, a   *)
(* pure function. A state is a row of facilitator_payments with the split  *)
(* it was inserted with.                                                   *)
(***************************************************************************)
EXTENDS Integers

CONSTANTS
    FeeRates,  \* the rates, in basis points, that resource keys have
    MaxFee,    \* MAX_FEE_USDC_ATOMIC
    LastGross  \* the largest amount: bounds the behaviours

ASSUME FeeAssumption ==
    /\ FeeRates \subseteq 0 .. 1000
    /\ MaxFee \in Nat \ {0}
    /\ LastGross \in Nat

VARIABLE row

MinFee == 1

(* Mutant: the division comes before the multiplication.                   *)
ShareEarly(gross, bps) == ((gross \div 100) * bps) \div 100

Share(gross, bps) == (gross * bps) \div 10000

(* Cap, minimum, and the safety net below the gross, in this order.        *)
Clamped(fee, gross) ==
    LET capped == IF fee > MaxFee THEN MaxFee ELSE fee
        raised == IF capped < MinFee THEN MinFee ELSE capped
    IN  IF raised >= gross THEN gross - 1 ELSE raised

FeeOf(gross, bps) ==
    IF bps = 0 \/ gross <= MinFee THEN 0 ELSE Clamped(Share(gross, bps), gross)

NetOf(gross, bps) == gross - FeeOf(gross, bps)

RowOf(gross, bps) ==
    [gross |-> gross, bps |-> bps, fee |-> FeeOf(gross, bps), net |-> NetOf(gross, bps)]

FeeInit == \E bps \in FeeRates : row = RowOf(0, bps)

(* createOrFetchFacilitatorPayment inserts the next row.                   *)
FeeNext == \E gross \in 0 .. LastGross, bps \in FeeRates : row' = RowOf(gross, bps)

FeeSpec == FeeInit /\ [][FeeNext]_row

-----------------------------------------------------------------------------
(* A merchant is charged the rate or less, but for the minimum, never the  *)
(* whole amount, and never nets less of a larger payment than of a smaller *)
(* one.                                                                    *)
IsFair(r) ==
    /\ r.fee \in 0 .. MaxFee
    /\ 10000 * r.fee <= r.gross * r.bps \/ r.fee = MinFee
    /\ r.gross > 0 =>
        /\ r.net > 0
        /\ r.net >= NetOf(r.gross - 1, r.bps)

(* Every row is split fairly, where the rounding, the minimum and the cap  *)
(* of the fee meet, too.                                                   *)
SplitIsFair == IsFair(row)
=============================================================================
