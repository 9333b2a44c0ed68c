----------------------------- MODULE DexStores -----------------------------
(***************************************************************************)
(* The stores of the DEX module (dex/stores/): the IDs and keys of pools,  *)
(* price ticks and positions, and the records kept under them.             *)
(*                                                                         *)
(* A token ID is the number its bytes spell, so that the order of token    *)
(* IDs is the order of numbers.  A pool ID is the concatenation of two     *)
(* token IDs and four more bytes, a position ID that of a pool ID and an   *)
(* index; the address of a pool, a hash of its ID, is modelled by the ID.  *)
(***************************************************************************)
EXTENDS TickPrices, LiquidityMath, FiniteSets

CONSTANTS
    TokenLSK,
    TierByte,        \* 2^24: what the first of the four bytes of a fee tier is worth
    TokenByte,       \* 2^56: what the first byte of a token ID is worth
    LiquidityLimit   \* 2^64

ASSUME StoresAssumption ==
    TierByte \in Nat \ {0} /\ TokenByte \in Nat \ {0} /\ LiquidityLimit \in Nat \ {0, 1}

MaxInt8 == 127

\* computePoolID writes the fee tier into the first of its four bytes, as a
\* signed byte; getFeeTier reads all four.
PoolIDs(token0, token1, feeTier) ==
    IF feeTier <= MaxInt8 THEN {<<token0, token1, feeTier * TierByte>>} ELSE {}

Token0(poolID) == poolID[1]
Token1(poolID) == poolID[2]
FeeTier(poolID) == poolID[3]

Sides == {0, 1}
TokenOf(poolID, side) == IF side = 0 THEN Token0(poolID) ELSE Token1(poolID)

PoolIDOf(positionID) == positionID[1]

\* The key of a tick by its index, and the key that has its price instead.
TickKey(poolID, tick) == <<poolID, "tick", tick>>
PriceKey(poolID, tick) == <<poolID, "price", TickToPrice(tick)>>

Put(key, value, store) == [k \in DOMAIN store \cup {key} |-> IF k = key THEN value ELSE store[k]]
Delete(key, store) == [k \in DOMAIN store \ {key} |-> store[k]]

\* q96ToBytes throws on a negative number and on one that needs more than 24
\* bytes: from 2^192 on.
Serializable(a) == a \in 0..(One * One - 1)

\* What the schemas of the stores can encode; the codec throws on anything else.
PoolType ==
    [liquidity : 0..(LiquidityLimit - 1), sqrtPrice : 0..(One * One - 1),
     feeGrowthGlobal : [Sides -> 0..(One * One - 1)], tickSpacing : Nat]
TickType ==
    [liquidityNet : (-(LiquidityLimit \div 2))..(LiquidityLimit \div 2 - 1),
     liquidityGross : 0..(LiquidityLimit - 1),
     feeGrowthOutside : [Sides -> 0..(One * One - 1)]]
PositionType(addresses) ==
    [tickLower : Ticks, tickUpper : Ticks, liquidity : 0..(LiquidityLimit - 1),
     feeGrowthInsideLast : [Sides -> 0..(One * One - 1)], ownerAddress : addresses]
=============================================================================
