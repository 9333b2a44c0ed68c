----------------------------- MODULE PoolSwaps -----------------------------
(***************************************************************************)
(* A swap in one pool, the price along a route of pools and the part of    *)
(* the fees that goes to the validators (dex/utils/swapFunctions.ts).      *)
(*                                                                         *)
(* Nothing here changes the stores: the pool and the ticks that a swap     *)
(* updates are copies.  An operator that may throw returns the set of its  *)
(* outcomes, which is then empty.                                          *)
(***************************************************************************)
EXTENDS DexStores, SwapMath

CONSTANTS
    FeeTierPartition,      \* FEE_TIER_PARTITION
    ValidatorsPart,        \* VALIDATORS_LSK_INCENTIVE_PART
    MaxNumberCrossedTicks, \* MAX_NUMBER_CROSSED_TICKS
    MinSqrtRatio,          \* MIN_SQRT_RATIO and MAX_SQRT_RATIO: the prices of the
    MaxSqrtRatio           \* lowest and the highest tick lie between them

ASSUME SwapsAssumption ==
    /\ FeeTierPartition \in Nat \ {0} /\ ValidatorsPart \in 0..FeeTierPartition
    /\ TierByte % 2 = 0 /\ MaxNumberCrossedTicks \in Nat \ {0}
    /\ MinSqrtRatio \in 0..TickToPrice(-MaxTick)
    /\ MaxSqrtRatio \in Nat /\ MaxSqrtRatio >= TickToPrice(MaxTick)

\* The limit of a swap whose user sets none.
Limit(zeroToOne) == IF zeroToOne THEN MinSqrtRatio ELSE MaxSqrtRatio

-----------------------------------------------------------------------------
(* Fees *)

FeeCoeffAmountBefore(poolID) == DivQ96(FeeTier(poolID) \div 2, FeeTierPartition)

\* The quotient is rounded towards 0; a tier read from a pool ID may be larger
\* than the partition.
FeeCoeffAmountAfter(poolID) ==
    LET half == FeeTier(poolID) \div 2
    IN  IF half < FeeTierPartition THEN DivQ96(half, FeeTierPartition - half)
        ELSE -DivQ96(half, half - FeeTierPartition)

\* The product is a number of tokens; it is rounded as if it were scaled.
FeeBefore(poolID, amount) == RoundUpQ96(MulQ96(amount, FeeCoeffAmountBefore(poolID)))
FeeAfter(poolID, amount) == RoundUpQ96(MulQ96(amount, FeeCoeffAmountAfter(poolID)))

ValidatorFeePart(token) == IF token = TokenLSK THEN ValidatorsPart ELSE 0

\* What transferFeesFromPool takes out of a pool for the validators.
ValidatorFee(amount, token) ==
    RoundDownQ96(MulDivQ96(NumberToQ96(amount), NumberToQ96(ValidatorFeePart(token)),
                           NumberToQ96(FeeTierPartition)))

-----------------------------------------------------------------------------
(* Ticks *)

\* The 24 bytes of the number of a tick, of which the first 20 are taken for the
\* ID of a pool, and the key that tickToBytes makes of the record of a tick.
NumberKey(tick) == <<"number", tick>>
PoolOfNumber == <<0, 0, 0>>
RecordKey(poolID) == <<poolID, "record">>

\* Whether crossTick returns.
CanCrossTick(s, poolID, key) ==
    /\ poolID \in DOMAIN s.pools
    /\ key \in DOMAIN s.ticks
    /\ \A side \in Sides :
          s.pools[poolID].feeGrowthGlobal[side] >= s.ticks[key].feeGrowthOutside[side]

\* The price that tickToPrice makes of the record of a tick.
NextTickPrice == One

-----------------------------------------------------------------------------
(* The loop of swap *)

\* The amounts and fees of the part of a swap that ends at target, or before it.
Within(pool, poolID, target, exactInput, l) ==
    LET offered == IF exactInput THEN l.remaining - FeeBefore(poolID, l.remaining)
                                 ELSE l.remaining + FeeAfter(poolID, l.remaining)
        step == SwapWithin(l.price, target, pool.liquidity, offered, exactInput)
        partial == step.price # target
        feeIn == IF partial /\ exactInput THEN l.remaining - step.amountIn
                                          ELSE FeeAfter(poolID, step.amountIn)
        feeOut == IF partial /\ ~exactInput THEN step.amountOut - l.remaining
                                            ELSE FeeBefore(poolID, step.amountOut)
    IN  IF CanSwapWithin(l.price, target, pool.liquidity, offered, exactInput)
        THEN {[price |-> step.price, amountIn |-> step.amountIn, amountOut |-> step.amountOut,
               feeIn |-> feeIn, feeOut |-> feeOut]}
        ELSE {}

LiquidityFee(fee, token) ==
    MulDivQ96(fee, FeeTierPartition - ValidatorFeePart(token), FeeTierPartition)

\* Mutant of Spent: the fees of a part are not part of what it uses up.
WithoutFees(part, exactInput) == IF exactInput THEN part.amountIn ELSE part.amountOut

Spent(part, exactInput) ==
    IF exactInput THEN part.amountIn + part.feeIn ELSE part.amountOut - part.feeOut

\* The loop's variables after such a part.
After(pool, poolID, zeroToOne, exactInput, part, l) ==
    LET tokenIn == TokenOf(poolID, IF zeroToOne THEN 0 ELSE 1)
        tokenOut == TokenOf(poolID, IF zeroToOne THEN 1 ELSE 0)
        liquidityFee == [side \in Sides |->
            IF (side = 0) = zeroToOne THEN LiquidityFee(part.feeIn, tokenIn)
                                      ELSE LiquidityFee(part.feeOut, tokenOut)]
    IN  [l EXCEPT !.price = part.price,
          !.remaining = @ - Spent(part, exactInput),
          !.in = @ + part.amountIn + part.feeIn,
          !.out = @ + part.amountOut - part.feeOut,
          !.feesIn = @ + part.feeIn,
          !.feesOut = @ + part.feeOut,
          !.feeGrowth = [side \in Sides |-> @[side] + DivQ96(liquidityFee[side], pool.liquidity)]]

\* A turn towards higher prices.  Without liquidity the price moves to that of
\* the next tick; at that price the tick is crossed.
Upwards(s, poolID, limit, exactInput, l) ==
    LET pool == s.pools[poolID]
        target == IF NextTickPrice > limit THEN limit ELSE NextTickPrice
        moved == IF pool.liquidity = 0 THEN {[l EXCEPT !.price = NextTickPrice]}
                 ELSE {After(pool, poolID, FALSE, exactInput, part, l) :
                         part \in Within(pool, poolID, target, exactInput, l)}
        crossed(n) == IF n.price = NextTickPrice THEN [n EXCEPT !.crossed = @ + 1] ELSE n
    IN  {crossed(n) : n \in {n \in moved :
            /\ \A side \in Sides : Serializable(n.feeGrowth[side])
            /\ n.price = NextTickPrice => CanCrossTick(s, poolID, RecordKey(poolID))}}

\* A turn towards lower prices crosses a tick at the current price, finds no
\* tick below it and ends the loop.
Downwards(s, tick, l) ==
    IF l.price = TickToPrice(tick) /\ tick # 0 /\ ~CanCrossTick(s, PoolOfNumber, NumberKey(tick))
    THEN {}
    ELSE {[l EXCEPT !.over = TRUE]}

\* The current tick has to be stored under its index; q96ToBytes throws on the
\* number of a tick below 0.
TurnAt(tick, s, poolID, zeroToOne, limit, exactInput, l) ==
    IF \/ l.crossed >= MaxNumberCrossedTicks
       \/ TickKey(poolID, tick) \notin DOMAIN s.ticks
       \/ tick < 0
    THEN {}
    ELSE IF zeroToOne THEN Downwards(s, tick, l)
                      ELSE Upwards(s, poolID, limit, exactInput, l)

Turn(s, poolID, zeroToOne, limit, exactInput, l) ==
    TurnAt(PriceToTick(l.price), s, poolID, zeroToOne, limit, exactInput, l)

Nothing == [in |-> 0, out |-> 0, feesIn |-> 0, feesOut |-> 0, crossed |-> 0]

\* A turn that does not end the loop crosses a tick.
Swap(s, poolID, zeroToOne, limit, amount, exactInput) ==
    LET pool == s.pools[poolID]
        start == [price |-> pool.sqrtPrice, remaining |-> amount, over |-> FALSE,
                  feeGrowth |-> pool.feeGrowthGlobal,
                  in |-> 0, out |-> 0, feesIn |-> 0, feesOut |-> 0, crossed |-> 0]
        turned(l) == IF l.over \/ l.remaining = 0 \/ l.price = limit THEN {l}
                     ELSE Turn(s, poolID, zeroToOne, limit, exactInput, l)
        loop[n \in 0..(MaxNumberCrossedTicks + 1)] ==
            IF n = 0 THEN {start} ELSE UNION {turned(l) : l \in loop[n - 1]}
    IN  IF poolID \notin DOMAIN s.pools THEN {}
        ELSE IF IF zeroToOne THEN limit >= pool.sqrtPrice ELSE limit <= pool.sqrtPrice
        THEN {Nothing}
        ELSE {[key \in DOMAIN Nothing |-> l[key]] :
                l \in {l \in loop[MaxNumberCrossedTicks + 1] : Serializable(l.price)}}

-----------------------------------------------------------------------------
(* The price along a route, computed from 1 on: that is 1/One. *)

CurrentPriceHop(pools, poolID, walk) ==
    IF poolID \notin DOMAIN pools THEN {}
    ELSE IF Token0(poolID) = walk.token
    THEN {[price |-> MulQ96(walk.price, pools[poolID].sqrtPrice), token |-> Token1(poolID)]}
    ELSE IF Token1(poolID) = walk.token /\ pools[poolID].sqrtPrice # 0
    THEN {[price |-> MulQ96(walk.price, InvQ96(pools[poolID].sqrtPrice)), token |-> Token0(poolID)]}
    ELSE {}

PricesTo(pools, tokenIn, swapRoute) ==
    LET found[n \in 0..Len(swapRoute)] ==
          IF n = 0 THEN {[price |-> 1, token |-> tokenIn]}
          ELSE UNION {CurrentPriceHop(pools, swapRoute[n], w) : w \in found[n - 1]}
    IN  found[Len(swapRoute)]

\* Mutant of ComputeCurrentPrice: the route may end at another token.
AnyEnd(pools, tokenIn, tokenOut, swapRoute) ==
    {MulQ96(w.price, w.price) : w \in PricesTo(pools, tokenIn, swapRoute)}

ComputeCurrentPrice(pools, tokenIn, tokenOut, swapRoute) ==
    {MulQ96(w.price, w.price) :
        w \in {w \in PricesTo(pools, tokenIn, swapRoute) : w.token = tokenOut}}
=============================================================================
