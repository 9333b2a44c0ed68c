--------------------------- MODULE LPIncentives ---------------------------
(***************************************************************************)
(* The schedule of liquidity provider incentives: what a block mints, and  *)
(* the closed formula for the incentives of a range of blocks              *)
(* (dexIncentives/utils/auxiliaryFunctions.ts).  Amounts are in units of   *)
(* 50000000, of which every entry of the schedule is a multiple.           *)
(***************************************************************************)
EXTENDS Integers

CONSTANTS BootstrapOffset,   \* BOOTSTRAP_PERIOD_OFFSET
          EpochLength        \* LENGTH_EPOCH_REWARDS_INCENTIVES

ASSUME ScheduleAssumption == BootstrapOffset \in Nat /\ EpochLength \in Nat \ {0}

\* The height at which the incentive changes for the (k + 1)-st time.
EpochStart(k) == BootstrapOffset + k * EpochLength

\* Mutant of LiquidityIncentivesAtHeight: an epoch lasts one block more.
IncentivesOneLater(h) ==
    CASE h <= EpochStart(0) -> 0
      [] h > EpochStart(0) /\ h <= EpochStart(1) -> 8
      [] h > EpochStart(1) /\ h <= EpochStart(2) -> 7
      [] h > EpochStart(2) /\ h <= EpochStart(3) -> 6
      [] h > EpochStart(3) /\ h <= EpochStart(4) -> 5
      [] OTHER -> 4

LiquidityIncentivesAtHeight(h) ==
    CASE h < EpochStart(0) -> 0
      [] h >= EpochStart(0) /\ h < EpochStart(1) -> 8
      [] h >= EpochStart(1) /\ h < EpochStart(2) -> 7
      [] h >= EpochStart(2) /\ h < EpochStart(3) -> 6
      [] h >= EpochStart(3) /\ h < EpochStart(4) -> 5
      [] OTHER -> 4

\* One turn of the forEach over the epochs: the incentives up to the change of
\* epoch k, when it lies inside the range.
VisitEpoch(sum, k, start, end) ==
    IF EpochStart(k) > start /\ EpochStart(k) < end
    THEN [height |-> EpochStart(k),
          incentives |-> sum.incentives
            + (EpochStart(k) - sum.height) * LiquidityIncentivesAtHeight(sum.height)]
    ELSE sum

\* The five turns of the forEach, from the block after the start block.
BeforeLastEpoch(start, end) ==
    LET sum0 == [height |-> start + 1, incentives |-> 0]
        sum1 == VisitEpoch(sum0, 0, start, end)
        sum2 == VisitEpoch(sum1, 1, start, end)
        sum3 == VisitEpoch(sum2, 2, start, end)
        sum4 == VisitEpoch(sum3, 3, start, end)
    IN  VisitEpoch(sum4, 4, start, end)

\* Its callers leave when start >= end; it throws itself when end < start.
LPIncentivesInRange(start, end) ==
    LET sum == BeforeLastEpoch(start, end)
    IN  sum.incentives + (end - sum.height) * LiquidityIncentivesAtHeight(sum.height)
          + LiquidityIncentivesAtHeight(end)
=============================================================================
