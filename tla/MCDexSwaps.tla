----------------------------- MODULE MCDexSwaps -----------------------------
(***************************************************************************)
(* Small instance: ticks -2 to 2, one account with positions, one that     *)
(* swaps, and pools of three tokens: one that users create, one of the     *)
(* genesis block with the same tokens, and two in which there can be no    *)
(* positions.                                                              *)
(***************************************************************************)
EXTENDS DexSwaps

MCPriceAtBit == <<57, 51>>
MCTickBase == <<5, 4>>
MCTickSpacing == <<1>>
MCPairs == {<<0, TokenByte>>}
MCUserTicks == 0..MaxTick

GenesisPool(tickSpacing, liquidity) ==
    [liquidity |-> liquidity, sqrtPrice |-> 75, tickSpacing |-> tickSpacing,
     feeGrowthGlobal |-> [side \in Sides |-> 0]]

Asset(pools) ==
    [poolSubstore |-> pools, priceTickSubstore |-> <<>>, positionSubstore |-> <<>>,
     positionCounter |-> 0, poolCreationSettings |-> <<>>,
     incentivizedPools |-> <<[poolID |-> 0, multiplier |-> 2]>>, totalIncentivesMultiplier |-> 2]

MCGenesisAssets == {Asset(<<GenesisPool(0, 0), GenesisPool(1, 9), GenesisPool(0, 0)>>)}

MCPool == <<0, TokenByte, TierByte>>
Genesis == GenesisPoolID(1)
MCRoutesIn == {<<MCPool>>, <<Genesis>>, <<Genesis, GenesisPoolID(2)>>}
MCRoutesOut == {<<MCPool>>, <<Genesis>>, <<MCPool, Genesis, MCPool>>}

MCLimits == {MinSqrtRatio, One, MaxSqrtRatio}

\* The hypotheses of the theorems about swaps hold in this instance, but for
\* AmountsSmall: TLC's integers have no room for such a One.
ASSUME MCAssumption == TableAscends /\ GenesisPriced /\ FeesModest
=============================================================================
