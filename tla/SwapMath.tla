----------------------------- MODULE SwapMath -----------------------------
(***************************************************************************)
(* One step of a swap, inside a range of prices over which the liquidity   *)
(* is constant (swapWithin of dex/utils/swapFunctions.ts).                 *)
(***************************************************************************)
EXTENDS LiquidityMath

\* Mutant of NextPrice0: the price is rounded against the pool.
RoundedDown0(sqrtPrice, liquidityQ96, denom) == MulDivQ96(liquidityQ96, sqrtPrice, denom)

NextPrice0(sqrtPrice, liquidityQ96, denom) == MulDivRoundUpQ96(liquidityQ96, sqrtPrice, denom)

\* Tokens that are taken out of a range may be more than it holds: it throws.
HasNextPrice(sqrtPrice, liquidity, amount, isToken0, addsAmount) ==
    \/ addsAmount
    \/ IF isToken0
       THEN MulQ96(NumberToQ96(amount), sqrtPrice) < NumberToQ96(liquidity)
       ELSE MulDivRoundUpQ96(NumberToQ96(amount), NumberToQ96(1), NumberToQ96(liquidity)) <= sqrtPrice

ComputeNextPrice(sqrtPrice, liquidity, amount, isToken0, addsAmount) ==
    LET liquidityQ96 == NumberToQ96(liquidity)
        amountQ96 == NumberToQ96(amount)
    IN  IF isToken0
        THEN NextPrice0(sqrtPrice, liquidityQ96,
               IF addsAmount THEN liquidityQ96 + MulQ96(amountQ96, sqrtPrice)
                             ELSE liquidityQ96 - MulQ96(amountQ96, sqrtPrice))
        ELSE IF addsAmount
        THEN sqrtPrice + DivQ96(amountQ96, liquidityQ96)
        ELSE sqrtPrice - MulDivRoundUpQ96(amountQ96, NumberToQ96(1), liquidityQ96)

\* getAmount0Delta and getAmount1Delta swap prices that come in the other order.
Amount0(price1, price2, liquidity, roundUp) ==
    IF price1 > price2 THEN GetAmount0Delta(price2, price1, liquidity, roundUp)
                       ELSE GetAmount0Delta(price1, price2, liquidity, roundUp)
Amount1(price1, price2, liquidity, roundUp) ==
    IF price1 > price2 THEN GetAmount1Delta(price2, price1, liquidity, roundUp)
                       ELSE GetAmount1Delta(price1, price2, liquidity, roundUp)

AmountIn(from, to, liquidity, zeroToOne) ==
    IF zeroToOne THEN Amount0(from, to, liquidity, TRUE) ELSE Amount1(from, to, liquidity, TRUE)
AmountOut(from, to, liquidity, zeroToOne) ==
    IF zeroToOne THEN Amount1(from, to, liquidity, FALSE) ELSE Amount0(from, to, liquidity, FALSE)

\* The amount, of the token given or of the token asked for, that moves the price
\* to the target.
AmountNeeded(current, target, liquidity, exactInput) ==
    IF exactInput THEN AmountIn(current, target, liquidity, current >= target)
                  ELSE AmountOut(current, target, liquidity, current >= target)

\* Whether swapWithin returns.
CanSwapWithin(current, target, liquidity, amountRemaining, exactInput) ==
    \/ amountRemaining >= AmountNeeded(current, target, liquidity, exactInput)
    \/ HasNextPrice(current, liquidity, amountRemaining, current >= target, exactInput)

SwapWithin(current, target, liquidity, amountRemaining, exactInput) ==
    LET zeroToOne == current >= target
        updated == IF amountRemaining >= AmountNeeded(current, target, liquidity, exactInput)
                   THEN target
                   ELSE ComputeNextPrice(current, liquidity, amountRemaining, zeroToOne, exactInput)
    IN  [price |-> updated,
         amountIn |-> AmountIn(current, updated, liquidity, zeroToOne),
         amountOut |-> AmountOut(current, updated, liquidity, zeroToOne)]
=============================================================================
