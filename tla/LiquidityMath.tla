--------------------------- MODULE LiquidityMath ---------------------------
(***************************************************************************)
(* Amounts and liquidity of a price range (dex/utils/math.ts,              *)
(* dex/utils/auxiliaryFunctions.ts).  Prices are square roots; the lower   *)
(* price comes first, as in every call of the code.                        *)
(***************************************************************************)
EXTENDS FixedPoint

\* Mutants of Rounded: amounts are always rounded down; the flag is inverted.
NeverUp(a, roundUp) == RoundDownQ96(a)
Inverted(a, roundUp) == IF roundUp THEN RoundDownQ96(a) ELSE RoundUpQ96(a)

Rounded(a, roundUp) == IF roundUp THEN RoundUpQ96(a) ELSE RoundDownQ96(a)

GetAmount0Delta(lower, upper, liquidity, roundUp) ==
    Rounded(DivQ96(MulDivQ96(NumberToQ96(liquidity), upper - lower, upper), lower), roundUp)

GetAmount1Delta(lower, upper, liquidity, roundUp) ==
    Rounded(MulQ96(NumberToQ96(liquidity), upper - lower), roundUp)

GetLiquidityForAmount0(lower, upper, amount0) ==
    LET intermediate == MulDivQ96(lower, upper, NumberToQ96(1))
    IN  RoundDownQ96(MulDivQ96(NumberToQ96(amount0), intermediate, upper - lower))

GetLiquidityForAmount1(lower, upper, amount1) ==
    RoundDownQ96(MulDivQ96(NumberToQ96(amount1), NumberToQ96(1), upper - lower))

\* Mutant of Lesser: the larger of the two.
Greater(a, b) == IF a < b THEN b ELSE a

Lesser(a, b) == IF a < b THEN a ELSE b

GetLiquidityForAmounts(current, lower, upper, amount0, amount1) ==
    IF current <= lower THEN GetLiquidityForAmount0(lower, upper, amount0)
    ELSE IF current < upper
    THEN Lesser(GetLiquidityForAmount0(current, upper, amount0),
                GetLiquidityForAmount1(lower, current, amount1))
    ELSE GetLiquidityForAmount1(lower, upper, amount1)

\* The amounts of both tokens that a change of liquidity moves at a price, as
\* updatePosition splits the range at the current price.
AmountsForLiquidity(current, lower, upper, liquidity, roundUp) ==
    IF current <= lower
    THEN <<GetAmount0Delta(lower, upper, liquidity, roundUp), 0>>
    ELSE IF current < upper
    THEN <<GetAmount0Delta(current, upper, liquidity, roundUp),
           GetAmount1Delta(lower, current, liquidity, roundUp)>>
    ELSE <<0, GetAmount1Delta(lower, upper, liquidity, roundUp)>>
=============================================================================
