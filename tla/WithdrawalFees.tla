---------------------------- MODULE WithdrawalFees ----------------------------
(***************************************************************************)
(* What a withdrawal costs and sends (vendors/pricing/withdrawal-fees.ts), *)
(* and the amounts WithdrawalsService.request writes in its row.  A client  *)
(* may ask for a fraction of a franc (@IsNumber): amounts asked for are in *)
(* hundredths, as the column Decimal(10, 2) keeps them.                    *)
(***************************************************************************)
EXTENDS Integers, Sequences, SequencesExt

CONSTANTS
    Starts,     \* hundredths of FCFA from which amounts are asked for
    Step,       \* distance between two amounts asked for
    Span        \* how far from its start, a bound

ASSUME FeesAssumption == Starts \subseteq Nat /\ Step \in Nat \ {0} /\ Span \in Nat

Operators == {"FLOOZ", "MIXX"}

TierLow == 10000          \* KABAKABA_TIER_LOW
NetworkCashFrom == 19900  \* NETWORK_CASH_FROM

(* Brackets <<max, fee>>; the last one has no max. *)
PayoutBrackets ==
    <<<<10000, 150>>, <<50000, 300>>, <<150000, 800>>, <<500000, 2000>>, <<0, 2500>>>>

FloozBrackets ==
    <<<<500, 50>>, <<1000, 75>>, <<5000, 100>>, <<15000, 280>>, <<20000, 320>>,
      <<50000, 600>>, <<100000, 1000>>>>

FloozBracketsUpTo == 100000

(* <<min, max, feeMin, feeMax>> *)
FloozRanges ==
    <<<<100001, 200000, 3169, 3356>>, <<200001, 300000, 3729, 4195>>,
      <<300001, 500000, 4195, 4381>>, <<500001, 850000, 4381, 4568>>,
      <<850001, 1000000, 4568, 5407>>, <<1000001, 1500000, 5407, 8110>>,
      <<1500001, 2000000, 8110, 9788>>>>

MixxBrackets ==
    <<<<500, 50>>, <<5000, 100>>, <<20000, 300>>, <<50000, 600>>, <<100000, 1000>>,
      <<200000, 3100>>, <<300000, 3700>>, <<500000, 4200>>, <<850000, 4400>>,
      <<900000, 4600>>, <<950000, 4900>>, <<1000000, 5100>>, <<1100000, 5400>>,
      <<1150000, 5900>>, <<1200000, 6200>>, <<1250000, 6500>>, <<1300000, 6800>>,
      <<1350000, 7000>>, <<1400000, 7300>>, <<1450000, 7600>>, <<1500000, 7800>>,
      <<2000000, 9700>>, <<0, 9700>>>>

(* The first bracket that reaches the amount, else the last. *)
FeeFromBrackets(amount, brackets) ==
    LET i == SelectInSeq(brackets, LAMBDA b : amount <= b[1]) IN
    IF i = 0 THEN Last(brackets)[2] ELSE brackets[i][2]

(* Math.round of a positive quotient. *)
Rounded(n, d) == (n \div d) + (IF 2 * (n % d) >= d THEN 1 ELSE 0)

FeeInRangeMutant(amount, band) ==
    IF amount <= band[1] \/ amount >= band[2] THEN band[3]
    ELSE band[3] + Rounded((amount - band[1]) * (band[4] - band[3]), band[2] - band[1])

FeeInRange(amount, band) ==
    IF amount <= band[1] THEN band[3]
    ELSE IF amount >= band[2] THEN band[4]
    ELSE band[3] + Rounded((amount - band[1]) * (band[4] - band[3]), band[2] - band[1])

FloozCashFee(amount) ==
    IF amount <= FloozBracketsUpTo THEN FeeFromBrackets(amount, FloozBrackets)
    ELSE LET i == SelectInSeq(FloozRanges, LAMBDA b : amount <= b[2]) IN
         IF i = 0 THEN Last(FloozRanges)[4] ELSE FeeInRange(amount, FloozRanges[i])

CashOutFee(amount, operator) ==
    IF operator = "FLOOZ" THEN FloozCashFee(amount)
    ELSE FeeFromBrackets(amount, MixxBrackets)

ComputeMutant(hundredths, operator) ==
    LET amount == hundredths \div 100
        payoutFee == FeeFromBrackets(amount, PayoutBrackets) IN
    IF amount <= TierLow
    THEN [send |-> amount, debit |-> amount + payoutFee,
          retained |-> payoutFee, platformCost |-> 0, payoutFee |-> payoutFee]
    ELSE [send |-> amount, debit |-> amount,
          retained |-> 0, platformCost |-> 0, payoutFee |-> payoutFee]

(* computeWithdrawalFees, whose amounts are Math.floor'd to whole francs. *)
Compute(hundredths, operator) ==
    LET amount == hundredths \div 100
        payoutFee == FeeFromBrackets(amount, PayoutBrackets)
        cash == CashOutFee(amount, operator) IN
    IF amount < TierLow
    THEN [send |-> amount, debit |-> amount + payoutFee,
          retained |-> payoutFee, platformCost |-> 0, payoutFee |-> payoutFee]
    ELSE IF amount < NetworkCashFrom
    THEN [send |-> amount, debit |-> amount,
          retained |-> 0, platformCost |-> payoutFee, payoutFee |-> payoutFee]
    ELSE [send |-> amount + cash, debit |-> amount,
          retained |-> 0, platformCost |-> payoutFee + cash, payoutFee |-> payoutFee]

VARIABLES
    requested,  \* hundredths of FCFA asked for
    operator,   \* the network the money is sent on
    row         \* what request writes: amount, debitedAmount, feeRetained (in
                \* hundredths), payoutAmount

feesVars == <<requested, operator, row>>

(* The row keeps the amount as it was asked for, the fees of its floor. *)
RowFor(hundredths, op) ==
    LET fees == Compute(hundredths, op) IN
    [amount |-> hundredths, debitedAmount |-> 100 * fees.debit,
     feeRetained |-> 100 * fees.retained, payoutAmount |-> fees.send]

FeesInit ==
    /\ requested \in Starts
    /\ operator \in Operators
    /\ row = RowFor(requested, operator)

AskMore ==
    /\ \E start \in Starts : start <= requested /\ requested < start + Span
    /\ requested' = requested + Step
    /\ row' = RowFor(requested', operator)
    /\ UNCHANGED operator

FeesSpec == FeesInit /\ [][AskMore]_feesVars

-----------------------------------------------------------------------------

(* In every tier each fee has exactly one payer: what is taken off the     *)
(* canteen's balance and what the platform adds are together what is sent  *)
(* and the payout fee.                                                     *)
EveryFeeHasAPayer ==
    LET fees == Compute(requested, operator) IN
    /\ fees.debit + fees.platformCost = fees.send + fees.payoutFee
    /\ fees.retained = fees.debit - (requested \div 100)
    /\ fees.send >= requested \div 100

(* Withdrawing more never sends less, on either network, though the fees   *)
(* come from tables of brackets, of ranges, and from two thresholds.       *)
MoreSendsMore == [][row'.payoutAmount >= row.payoutAmount]_feesVars

(* A canteen is never debited more than what it asked for and its own fees, *)
(* and less only by the fraction of a franc that the fees are computed      *)
(* without.                                                                 *)
DebitWithinAFranc ==
    LET owed == row.amount + row.feeRetained IN
    row.debitedAmount <= owed /\ owed - row.debitedAmount < 100

(* Nothing is lost or taken twice between the canteen and the platform.    *)
FeesAddUp == EveryFeeHasAPayer /\ DebitWithinAFranc

=============================================================================
