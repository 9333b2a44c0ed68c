----------------------------- MODULE DexGenesis -----------------------------
(***************************************************************************)
(* The DEX module's part of the genesis block (dex/module.ts): which asset *)
(* verifyGenesisBlock lets through and the stores that initGenesisState    *)
(* builds from it.  A chain without the asset has no global store, and     *)
(* every command that creates a position throws on it; it is left out.     *)
(***************************************************************************)
EXTENDS DexStores

\* A pool ID of incentivizedPools is the number its bytes spell when they are
\* read as text, or NotANumber; of one digit, the order of texts is that of
\* numbers.
NotANumber == -1

\* The asset, without the IDs of its pools, ticks and positions, which are only
\* looked at for duplicates, and none are found: Buffers are compared by identity.
GenesisDEX(addresses) ==
    [poolSubstore : Seq(PoolType), priceTickSubstore : Seq(TickType),
     positionSubstore : Seq(PositionType(addresses)), positionCounter : Nat,
     poolCreationSettings : Seq([feeTier : Nat, tickSpacing : Nat]),
     incentivizedPools : Seq([poolID : NotANumber..9, multiplier : Nat]),
     totalIncentivesMultiplier : Nat]

\* The bytes that intToBuffer makes of an index, read as text, are no number.
IndexedPool(index) == NotANumber

Multipliers(incentivizedPools) ==
    FoldLeft(LAMBDA sum, pool : sum + pool.multiplier, 0, incentivizedPools)

\* The checks of ticks and positions against their pools come after those for
\* the pools, which no tick and no position passes.  The sum throws when there
\* are no incentivized pools.
VerifyGenesisBlock(g) ==
    LET exists(number) == number + 1 \in DOMAIN g.poolSubstore
    IN  /\ g.positionCounter = Len(g.positionSubstore)
        /\ \A i, j \in DOMAIN g.incentivizedPools :
              i < j => g.incentivizedPools[i].poolID <= g.incentivizedPools[j].poolID
        /\ \A i \in DOMAIN g.positionSubstore :
              LET position == g.positionSubstore[i]
              IN  position.tickLower >= -MaxTick /\ position.tickUpper <= MaxTick
                  /\ position.tickLower <= position.tickUpper
        /\ \A i \in DOMAIN g.priceTickSubstore : exists(IndexedPool(i - 1))
        /\ \A i \in DOMAIN g.positionSubstore : exists(IndexedPool(i - 1))
        /\ \A i \in DOMAIN g.incentivizedPools : exists(g.incentivizedPools[i].poolID)
        /\ \A i \in DOMAIN g.poolCreationSettings : g.poolCreationSettings[i].feeTier <= 10 ^ 6
        /\ g.incentivizedPools # <<>>
        /\ g.totalIncentivesMultiplier = Multipliers(g.incentivizedPools)

\* The ID under which the pool with an index is stored: the index in the first
\* byte, as a signed byte, and zeros.
GenesisPoolID(index) == <<index * TokenByte, 0, 0>>

\* The stores, when the indices fit.  A price tick's ID is as long as a pool's;
\* a position's has the index 0.
InitGenesisState(g) ==
    LET stored(records, key(_)) ==
          [k \in {key(i - 1) : i \in DOMAIN records} |->
              records[CHOOSE i \in DOMAIN records : key(i - 1) = k]]
        fits(records) == Len(records) <= MaxInt8 + 1
    IN  IF ~(fits(g.poolSubstore) /\ fits(g.priceTickSubstore) /\ fits(g.positionSubstore))
        THEN {}
        ELSE {[pools |-> stored(g.poolSubstore, GenesisPoolID),
               ticks |-> stored(g.priceTickSubstore, GenesisPoolID),
               positions |-> stored(g.positionSubstore, LAMBDA i : <<GenesisPoolID(i), 0>>),
               positionCounter |-> g.positionCounter]}
=============================================================================
