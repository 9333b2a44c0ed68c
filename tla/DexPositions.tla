--------------------------- MODULE DexPositions ---------------------------
(***************************************************************************)
(* Liquidity positions of the DEX module (dex/utils/auxiliaryFunctions.ts  *)
(* and the commands createPool, createPosition, addLiquidity and           *)
(* removeLiquidity).                                                       *)
(*                                                                         *)
(* Every call of these commands is awaited, so a command is one step.  A   *)
(* command that throws leaves the state as it was, except for the events   *)
(* that are kept; an operator that may throw returns the set of its        *)
(* outcomes, which is then empty.                                          *)
(***************************************************************************)
EXTENDS DexGenesis, TokenLedger, Bags

CONSTANTS
    Accounts,
    Tokens,          \* token IDs
    ValidatorIncentives, \* ADDRESS_VALIDATOR_INCENTIVES
    TickSpacing,     \* feeTiers of the module's configuration: fee tier -> tick spacing
    GenesisAssets,   \* the DEX module's asset of the possible genesis blocks
    Balance,         \* available balance of each account in each token at genesis
    Pairs,           \* bound: the pairs of tokens for which users create pools
    UserTicks,       \* bound: the ticks users name
    Amounts,         \* bound: the amounts users offer
    MaxCreated       \* bound: positions created

UserPools ==
    UNION {PoolIDs(pair[1], pair[2], tier) : pair \in Pairs, tier \in DOMAIN TickSpacing}
Pools ==
    UserPools \cup UNION {{GenesisPoolID(i - 1) : i \in DOMAIN g.poolSubstore} : g \in GenesisAssets}
Addresses == Accounts \cup Pools \cup {ValidatorIncentives}

ASSUME PositionsAssumption ==
    /\ Tokens \subseteq Nat /\ Pairs \subseteq Tokens \X Tokens
    /\ \A p \in Pools : {Token0(p), Token1(p)} \subseteq Tokens
    /\ Accounts \cap (Pools \cup {ValidatorIncentives}) = {}   \* hashes of different texts
    /\ \A tier \in DOMAIN TickSpacing : tier \in Nat /\ TickSpacing[tier] \in Nat \ {0}
    /\ GenesisAssets \subseteq GenesisDEX(Accounts)
    /\ Balance \in Nat /\ UserTicks \subseteq Ticks /\ Amounts \subseteq Nat /\ MaxCreated \in Nat

VARIABLES
    state,      \* the stores pools, ticks, positions and positionCounter, and
                \* the balances of the token module, ledger
    event,      \* the last PositionUpdateFailedEvent, which is kept
    created     \* the bag of the positions created: pool, ticks and liquidity

vars == <<state, event, created>>

Init ==
    /\ \E g \in GenesisAssets : VerifyGenesisBlock(g) /\ \E stores \in InitGenesisState(g) :
          state = [pools |-> stores.pools, ticks |-> stores.ticks,
                   positions |-> stores.positions, positionCounter |-> stores.positionCounter,
                   ledger |-> [key \in Addresses \X Tokens |->
                       [available |-> IF key[1] \in Accounts THEN Balance ELSE 0, locked |-> 0]]]
    /\ event = <<>>
    /\ created = EmptyBag

-----------------------------------------------------------------------------
(* Token transfers *)

TransferToPool(sender, pool, token, amount) ==
    Transfer(sender, pool, token, amount) \o Lock(pool, token, amount)
TransferFromPool(pool, recipient, token, amount) ==
    Unlock(pool, token, amount) \o Transfer(pool, recipient, token, amount)

\* The outcomes of awaited calls.
Performed(s, steps) ==
    {[s EXCEPT !.ledger = l] : l \in FoldLeft(
        LAMBDA ledgers, step : {[l EXCEPT ![step.key] = Moved(@, step)] :
                                  l \in {l \in ledgers : Covers(l[step.key], step)}},
        {s.ledger}, steps)}

-----------------------------------------------------------------------------
(* Fees *)

\* Mutant of Reached: a price at the tick counts as below it.
Passed(sqrtPrice, tick) == sqrtPrice > TickToPrice(tick)

Reached(sqrtPrice, tick) == sqrtPrice >= TickToPrice(tick)

EmptyTick(pool, tick) ==
    [liquidityNet |-> 0, liquidityGross |-> 0,
     feeGrowthOutside |-> IF Reached(pool.sqrtPrice, tick) THEN pool.feeGrowthGlobal
                          ELSE [side \in Sides |-> 0]]

FeeGrowthInside(s, positionID) ==
    LET pool == s.pools[PoolIDOf(positionID)]
        position == s.positions[positionID]
        lower == s.ticks[TickKey(PoolIDOf(positionID), position.tickLower)]
        upper == s.ticks[TickKey(PoolIDOf(positionID), position.tickUpper)]
        tickCurrent == PriceToTick(pool.sqrtPrice)
        below(side) == IF tickCurrent >= position.tickLower THEN lower.feeGrowthOutside[side]
                       ELSE pool.feeGrowthGlobal[side] - lower.feeGrowthOutside[side]
        above(side) == IF tickCurrent < position.tickUpper THEN upper.feeGrowthOutside[side]
                       ELSE pool.feeGrowthGlobal[side] - upper.feeGrowthOutside[side]
    IN  [side \in Sides |-> pool.feeGrowthGlobal[side] - below(side) - above(side)]

CollectableFees(s, positionID) ==
    LET position == s.positions[positionID]
    IN  [side \in Sides |-> RoundDownQ96(MulQ96(
            FeeGrowthInside(s, positionID)[side] - position.feeGrowthInsideLast[side],
            position.liquidity))]

\* collectFeesAndIncentives.  subQ96 throws when a difference is negative; the
\* division by collectableLSKFees, which the global store does not have, throws
\* when there are fees in LSK, and without them the incentive is 0: its transfer,
\* which moves nothing, is left to the token module.
CollectFeesAndIncentives(s, positionID) ==
    LET pool == PoolIDOf(positionID)
        position == s.positions[positionID]
        inside == FeeGrowthInside(s, positionID)
        fees == CollectableFees(s, positionID)
        paid(side) == TransferFromPool(pool, position.ownerAddress, TokenOf(pool, side), fees[side])
    IN  IF \A side \in Sides :
             /\ inside[side] >= position.feeGrowthInsideLast[side]
             /\ TokenOf(pool, side) = TokenLSK => fees[side] = 0
        THEN {[t EXCEPT !.positions[positionID].feeGrowthInsideLast = inside] :
                t \in Performed(s, paid(0) \o paid(1))}
        ELSE {}

-----------------------------------------------------------------------------
(* Positions *)

\* Mutant of InRange: the upper tick belongs to the range.
InClosedRange(sqrtPrice, lower, upper) == lower <= sqrtPrice /\ sqrtPrice <= upper

InRange(sqrtPrice, lower, upper) == lower <= sqrtPrice /\ sqrtPrice < upper

\* Mutant of StoreTick: the tick moves to the key that has its price.
TickMoved(pool, tick, info, ticks) ==
    Put(PriceKey(pool, tick), info, Delete(TickKey(pool, tick), ticks))

\* The tick read under its tick is stored, or deleted, under its price.
StoreTick(pool, tick, info, ticks) ==
    IF info.liquidityGross = 0 THEN Delete(PriceKey(pool, tick), ticks)
                               ELSE Put(PriceKey(pool, tick), info, ticks)

Changed(info, gross, net) ==
    [info EXCEPT !.liquidityGross = @ + gross, !.liquidityNet = @ + net]

\* The stores after the transfers of updatePosition.  The position is stored as
\* it was read before the fees were collected.
WithLiquidity(s, positionID, position, liquidityDelta) ==
    LET poolID == PoolIDOf(positionID)
        lower == position.tickLower
        upper == position.tickUpper
        updated == [position EXCEPT !.liquidity = @ + liquidityDelta]
    IN  [s EXCEPT
          !.pools[poolID].liquidity =
              IF InRange(s.pools[poolID].sqrtPrice, TickToPrice(lower), TickToPrice(upper))
              THEN @ + liquidityDelta ELSE @,
          !.positions = IF updated.liquidity = 0 THEN Delete(positionID, @)
                        ELSE Put(positionID, updated, @),
          !.ticks =
              StoreTick(poolID, upper,
                Changed(s.ticks[TickKey(poolID, upper)], liquidityDelta, -liquidityDelta),
                StoreTick(poolID, lower,
                  Changed(s.ticks[TickKey(poolID, lower)], liquidityDelta, liquidityDelta), @))]

Encodable(s, positionID, position) ==
    LET poolID == PoolIDOf(positionID)
        keys == {PriceKey(poolID, position.tickLower), PriceKey(poolID, position.tickUpper)}
    IN  /\ s.pools[poolID] \in PoolType
        /\ positionID \in DOMAIN s.positions => s.positions[positionID] \in PositionType(Accounts)
        /\ \A key \in keys \cap DOMAIN s.ticks : s.ticks[key] \in TickType

\* updatePosition: the outcomes, each the new state and the two amounts.
UpdatePosition(s, positionID, liquidityDelta) ==
    LET position == s.positions[positionID]
        pool == s.pools[PoolIDOf(positionID)]
        amounts == AmountsForLiquidity(pool.sqrtPrice,
            TickToPrice(position.tickLower), TickToPrice(position.tickUpper),
            IF liquidityDelta > 0 THEN liquidityDelta ELSE -liquidityDelta,
            liquidityDelta > 0)
        moved(side) ==
            LET poolID == PoolIDOf(positionID)
                token == TokenOf(poolID, side)
            IN  IF liquidityDelta > 0
                THEN TransferToPool(position.ownerAddress, poolID, token, amounts[side + 1])
                ELSE TransferFromPool(poolID, position.ownerAddress, token, amounts[side + 1])
        collected == IF -liquidityDelta > position.liquidity THEN {}
                     ELSE CollectFeesAndIncentives(s, positionID)
    IN  IF liquidityDelta = 0
        THEN {[state |-> t, amounts |-> <<0, 0>>] : t \in collected}
        ELSE {[state |-> t, amounts |-> amounts] :
                t \in {t \in {WithLiquidity(u, positionID, position, liquidityDelta) :
                         u \in UNION {Performed(u0, moved(0) \o moved(1)) : u0 \in collected}} :
                       Encodable(t, positionID, position)}}

\* getNewPositionID counts up a copy of the global store that is not stored.
NewPositionID(s, pool) == <<pool, s.positionCounter>>

ValidTicks(pool, lower, upper) ==
    /\ lower < upper
    /\ pool.tickSpacing # 0
    /\ lower % pool.tickSpacing = 0
    /\ upper % pool.tickSpacing = 0

\* createPosition, for ticks that are valid: the ticks and an empty position.
WithPosition(s, sender, poolID, lower, upper) ==
    LET initialized(tick, ticks) ==
          IF TickKey(poolID, tick) \in DOMAIN ticks THEN ticks
          ELSE Put(TickKey(poolID, tick), EmptyTick(s.pools[poolID], tick), ticks)
        position == [tickLower |-> lower, tickUpper |-> upper, liquidity |-> 0,
                     feeGrowthInsideLast |-> [side \in Sides |-> 0], ownerAddress |-> sender]
    IN  [s EXCEPT !.ticks = initialized(upper, initialized(lower, @)),
                  !.positions = Put(NewPositionID(s, poolID), position, @)]

Created(poolID, lower, upper, liquidity) ==
    created' = created (+) SetToBag({[pool |-> poolID, tickLower |-> lower, tickUpper |-> upper,
                                      liquidity |-> liquidity]})

-----------------------------------------------------------------------------
(* Commands.  The minima of a transaction and its time limit only make it    *)
(* fail; they are the choice of a transaction that gets through.  The throw  *)
(* of getLiquidityForAmounts is a guard of each.                             *)

CreatePool(sender, pair, feeTier, tickInitialPrice, lower, upper, amount0, amount1) ==
    LET pool == [liquidity |-> 0, sqrtPrice |-> TickToPrice(tickInitialPrice),
                 tickSpacing |-> TickSpacing[feeTier],
                 feeGrowthGlobal |-> [side \in Sides |-> 0]]
        liquidity == GetLiquidityForAmounts(pool.sqrtPrice, TickToPrice(lower),
                                            TickToPrice(upper), amount0, amount1)
    IN  /\ pair[1] < pair[2]
        /\ amount0 > 0 /\ amount1 > 0
        /\ lower <= tickInitialPrice /\ tickInitialPrice <= upper
        /\ ValidTicks(pool, lower, upper) /\ liquidity < LiquidityLimit
        /\ SumFunction(created) < MaxCreated
        /\ \E poolID \in PoolIDs(pair[1], pair[2], feeTier) \ DOMAIN state.pools :
              /\ \E out \in UpdatePosition(
                    WithPosition([state EXCEPT !.pools = Put(poolID, pool, @)],
                                 sender, poolID, lower, upper),
                    NewPositionID(state, poolID), liquidity) :
                    /\ out.amounts[1] \in 1..amount0
                    /\ out.amounts[2] \in 1..amount1
                    /\ state' = out.state
              /\ Created(poolID, lower, upper, liquidity)
        /\ UNCHANGED event

\* The liquidity is computed from the integer part of the price.
CreatePosition(sender, poolID, lower, upper, amount0, amount1) ==
    LET pool == state.pools[poolID]
        liquidity == GetLiquidityForAmounts(RoundDownQ96(pool.sqrtPrice), TickToPrice(lower),
                                            TickToPrice(upper), amount0, amount1)
    IN  /\ poolID \in DOMAIN state.pools
        /\ ValidTicks(pool, lower, upper) /\ liquidity < LiquidityLimit
        /\ SumFunction(created) < MaxCreated
        /\ \E out \in UpdatePosition(WithPosition(state, sender, poolID, lower, upper),
                                     NewPositionID(state, poolID), liquidity) :
              /\ out.amounts[1] <= amount0
              /\ out.amounts[2] <= amount1
              /\ state' = out.state
        /\ Created(poolID, lower, upper, liquidity)
        /\ UNCHANGED event

\* checkPositionExistenceAndOwnership looks up the sender's address, or public
\* key, followed by the position's ID.
OwnershipKey(sender, positionID) == <<sender>> \o positionID

NotExists(positionID) ==
    /\ event' = [positionID |-> positionID, result |-> "NOT_EXISTS"]
    /\ UNCHANGED <<state, created>>

AddLiquidity(sender, positionID, amount0, amount1) ==
    IF OwnershipKey(sender, positionID) \notin DOMAIN state.positions
    THEN NotExists(positionID)
    ELSE LET position == state.positions[positionID]
             liquidity == GetLiquidityForAmounts(
                 RoundDownQ96(state.pools[PoolIDOf(positionID)].sqrtPrice),
                 TickToPrice(position.tickLower), TickToPrice(position.tickUpper),
                 amount0, amount1)
         IN  /\ sender = position.ownerAddress /\ liquidity < LiquidityLimit
             /\ \E out \in UpdatePosition(state, positionID, liquidity) :
                   /\ out.amounts[1] <= amount0 /\ out.amounts[2] <= amount1
                   /\ state' = out.state
             /\ UNCHANGED <<event, created>>

\* The liquidity to remove is passed with a positive sign.
RemoveLiquidity(sender, positionID, liquidityToRemove) ==
    IF OwnershipKey(sender, positionID) \notin DOMAIN state.positions
    THEN NotExists(positionID)
    ELSE /\ sender = state.positions[positionID].ownerAddress
         /\ \E out \in UpdatePosition(state, positionID, liquidityToRemove) : state' = out.state
         /\ UNCHANGED <<event, created>>

PositionIDs == DOMAIN state.positions \cup {<<GenesisPoolID(0), MaxCreated>>}

Command(sender) ==
    \/ \E pair \in Pairs, feeTier \in DOMAIN TickSpacing,
          tick, lower, upper \in UserTicks, amount0, amount1 \in Amounts :
          CreatePool(sender, pair, feeTier, tick, lower, upper, amount0, amount1)
    \/ \E poolID \in Pools, lower, upper \in UserTicks, amount0, amount1 \in Amounts :
          CreatePosition(sender, poolID, lower, upper, amount0, amount1)
    \/ \E positionID \in PositionIDs, amount0, amount1 \in Amounts :
          AddLiquidity(sender, positionID, amount0, amount1)
    \/ \E positionID \in PositionIDs, liquidity \in Amounts :
          RemoveLiquidity(sender, positionID, liquidity)

Next == \E sender \in Accounts : Command(sender)

Spec == Init /\ [][Next]_vars

-----------------------------------------------------------------------------
(* Properties *)

\* The stores hold well-formed records.  A position lies in a pool that exists,
\* between two ticks that are stored, and no balance is negative.
TypeOK ==
    /\ DOMAIN state.pools \subseteq Pools
    /\ \A p \in DOMAIN state.pools : state.pools[p] \in PoolType
    /\ \A key \in DOMAIN state.ticks : state.ticks[key] \in TickType
    /\ \A id \in DOMAIN state.positions :
          /\ state.positions[id] \in PositionType(Accounts)
          /\ PoolIDOf(id) \in DOMAIN state.pools
          /\ TickKey(PoolIDOf(id), state.positions[id].tickLower) \in DOMAIN state.ticks
          /\ TickKey(PoolIDOf(id), state.positions[id].tickUpper) \in DOMAIN state.ticks
    /\ state.ledger \in [Addresses \X Tokens -> [available : Nat, locked : Nat]]

Liquidity(grants) == FoldFunction(+, 0, [g \in grants |-> created[g] * g.liquidity])

Grants(pool) == {g \in BagToSet(created) : g.pool = pool}

Ranges == {range \in Ticks \X Ticks : range[1] < range[2]}
GrantedIn(pool, range) ==
    Liquidity({g \in Grants(pool) : <<g.tickLower, g.tickUpper>> = range})

\* Every pool holds, locked, at least what all the liquidity ever granted in it
\* is worth at the current price, however that of a range is divided between
\* positions: each deposit is rounded up, and no transfer goes to another pool
\* or token.
DepositsCoverGrants ==
    \A pool \in DOMAIN state.pools :
      LET due(range, side) ==
            AmountsForLiquidity(state.pools[pool].sqrtPrice, TickToPrice(range[1]),
                TickToPrice(range[2]), GrantedIn(pool, range), FALSE)[side + 1]
      IN  \A token \in {TokenOf(pool, side) : side \in Sides} :
            state.ledger[<<pool, token>>].locked >=
              FoldFunction(+, 0, [x \in Ranges \X {side \in Sides : TokenOf(pool, side) = token}
                                    |-> due(x[1], x[2])])

\* What the proof that deposits cover the grants assumes: so few positions lose
\* less than one unit of a token to rounding, even at the lowest price.
FewPositions == MaxCreated * (TickToPrice(-MaxTick) + One) < TickToPrice(-MaxTick) * One

\* What the proof about routes assumes: verifyGenesisBlock does not look at prices.
GenesisPriced ==
    \A g \in GenesisAssets : \A i \in DOMAIN g.poolSubstore : g.poolSubstore[i].sqrtPrice # 0

\* A pool's liquidity is what the genesis block gave it and the liquidity of
\* every position created in it whose range contains its price, the lower end
\* included and the upper end not.
PoolLiquidityInRange ==
    \E g \in GenesisAssets : \A pool \in DOMAIN state.pools :
      state.pools[pool].liquidity =
        FoldFunction(+, 0, [i \in {i \in DOMAIN g.poolSubstore : GenesisPoolID(i - 1) = pool}
                              |-> g.poolSubstore[i].liquidity])
        + Liquidity({grant \in Grants(pool) :
              /\ TickToPrice(grant.tickLower) <= state.pools[pool].sqrtPrice
              /\ TickToPrice(grant.tickUpper) > state.pools[pool].sqrtPrice})

\* A pool whose price priceToTick places between the right ticks.
Located(pool) ==
    LET tick == PriceToTick(pool.sqrtPrice)
    IN  /\ tick \in Ticks /\ TickToPrice(tick) <= pool.sqrtPrice
        /\ tick < MaxTick => pool.sqrtPrice < TickToPrice(tick + 1)

\* A position has no claim to the fees of the time before it: no fees are inside
\* the range of a position, however the fees of the pool have grown, as long as
\* no swap took place since its ticks were initialized.
FreshPositionEarnsNothing ==
    \A id \in DOMAIN state.positions :
        Located(state.pools[PoolIDOf(id)]) =>
            FeeGrowthInside(state, id) = [side \in Sides |-> 0]

\* verifyGenesisBlock refuses a state, "Incorrect position counter.", in which
\* the counter is not the number of the positions.
PositionCounterCounts == state.positionCounter = Cardinality(DOMAIN state.positions)

\* A position update fails with POSITION_UPDATE_FAILED_NOT_EXISTS "as position
\* does not exist".
NotExistsMeansAbsent ==
    event # <<>> => event.positionID \notin DOMAIN state.positions
=============================================================================
