--------------------------- MODULE MCDexPositions ---------------------------
(***************************************************************************)
(* Small instance: ticks -3 to 3, a pool that a transaction may create, and *)
(* the pools of the genesis block, whose fees have grown: the first has the *)
(* token 0 twice; the second, above a first one with tick spacing 0, has    *)
(* its tokens in the order in which no transaction creates a pool.          *)
(***************************************************************************)
EXTENDS DexPositions

\* Tick 1 has the price 5/4, as close as multiples of 1/64 allow.
MCPriceAtBit == <<57, 51>>
MCTickBase == <<5, 4>>

\* Fee tier 1 has tick spacing 2.
MCTickSpacing == <<2>>
MCPairs == {<<0, 1>>, <<1, 0>>}
MCUserTicks == Ticks

GenesisPool(tick, tickSpacing) ==
    [liquidity |-> 5, sqrtPrice |-> TickToPrice(tick), tickSpacing |-> tickSpacing,
     feeGrowthGlobal |-> [side \in Sides |-> IF side = 0 THEN 3 * One ELSE One]]

Asset(pools, positions) ==
    [poolSubstore |-> pools, priceTickSubstore |-> <<>>, positionSubstore |-> positions,
     positionCounter |-> Len(positions), poolCreationSettings |-> <<>>,
     incentivizedPools |-> <<[poolID |-> 0, multiplier |-> 2]>>, totalIncentivesMultiplier |-> 2]

GenesisPosition ==
    [tickLower |-> 0, tickUpper |-> 1, liquidity |-> 5,
     feeGrowthInsideLast |-> [side \in Sides |-> 0],
     ownerAddress |-> CHOOSE a \in Accounts : TRUE]

\* The hypotheses of the theorems about positions hold in this instance.
ASSUME MCAssumption == TableAscends /\ FewPositions

MCSymmetry == Permutations(Accounts)

MCGenesisAssets ==
    {Asset(<<GenesisPool(0, 2)>>, <<>>), Asset(<<GenesisPool(0, 1)>>, <<GenesisPosition>>)}
      \cup {Asset(<<GenesisPool(0, 0), GenesisPool(tick, 1)>>, <<>>) : tick \in {-2, 0, 1}}
=============================================================================
