# TLA+ models of the Lisk DEX sidechain

This directory holds a TLA+ development of `src/app/modules` (all source paths
below are relative to `src/src/app/modules/` unless they say otherwise): modules
that model the components of the sidechain, TLC configurations that check them
on small instances, and theorems checked by TLAPS.  `PROJECT.json` lists the
runs, the correspondence between definitions and source lines, the hazards of
the code and the disagreements between code and documentation that the runs show.

## 1. The system

The sidechain is a Lisk SDK application.  The SDK's state machine executes
blocks one at a time: for each block it calls the `beforeTransactionsExecute`
hook of every module, then `verify` and `execute` of each transaction's command,
then the `afterTransactionsExecute` hooks.  When `execute` throws, the state is
restored to what it was before the transaction.  All state is kept in
substores read and written through asynchronous calls.  Nothing runs in
parallel, but the code often calls an asynchronous function without `await`:
such a call runs up to its first `await` and finishes in between whatever runs
next.

| Component | State | Operations |
|---|---|---|
| **DEX Governance** (`dexGovernance/`) | substores `proposals` (index -> proposal with tally and status), `votes` (voter -> recent votes), `index` (newest, next outcome check, next quorum check) | commands `createProposal`, `voteOnProposal`; hook `beforeTransactionsExecute` (quorum loop, outcome loop); `initGenesisState`, `verifyGenesisBlock` |
| **Incentivized pools** (`dex/method.ts`) | `incentivizedPools`, `totalIncentivesMultiplier` of the DEX global store | `updateIncentivizedPools`, called by governance when an incentivization proposal is accepted |
| **DEX Incentives** (`dexIncentives/`) | locked balance of the two incentive accounts (in the token module) | hook `afterTransactionsExecute`: mint and lock LP incentives; every round, `transferAllValidatorLSKIncentives`; `getLPIncentivesInRange` |
| **DEX liquidity positions** (`dex/utils/auxiliaryFunctions.ts`, commands `createPool`, `createPosition`, `addLiquidity`, `removeLiquidity`, `collectFees`) | substores `pools`, `priceTicks`, `positions`, `dexGlobal` | the five commands; `createPool`, `createPosition`, `updatePosition`, `collectFeesAndIncentives`, `getFeeGrowthInside` |
| **DEX swaps** (`dex/utils/swapFunctions.ts`, commands `swapExactIn`, `swapExactOut`, `swapWithPriceLimit`) | the same, and token balances | `swap` (loop over ticks), `crossTick`, `transferFeesFromPool`, the settlement of a route |
| **DEX routing** (`computeRegularRoute`, `computeExceptionalRoute`) | none (reads pools) | pure graph searches over the pools |
| **DEX genesis and settings** (`dex/module.ts`, `dex/method.ts`) | `dexGlobal` | `verifyGenesisBlock`, `initGenesisState`, `addPoolCreationSettings` |
| **Pool incentives** (`dex/utils/tokenEconomicsFunctions.ts`) | pools' incentive accumulators | `updatePoolIncentives`, fees to validators |
| **Fixed-point arithmetic** (`dex/utils/q96.ts`, `math.ts`) | none | Q96 numbers, `tickToPrice`, `priceToTick` |
| **DEX Rewards** (`dexRewards/`) | none | constants only |
| **Endpoints** (`dex/endpoint.ts`) | none (reads the stores) | `dryRunSwapExactIn`, `dryRunSwapExactOut`; queries of single records |
| In-memory DB, schemas, events, application, CLI, utilities | none of the chain | declarations, I/O |

How they interact.  Governance calls the DEX (`updateIncentivizedPools`) from its
block hook, and its `createProposal` asks the DEX for the pool.  It reads staked
amounts from the PoS module and the total supply from the token module.  DEX
Incentives mints in every block, so the supply that governance compares votes
with grows from block to block.  DEX swaps pay validator fees into the account
that DEX Incentives empties once a round.  The DEX asks DEX Incentives for the
incentives minted between two heights (`getLPIncentivesInRange`) when it
advances a pool's accumulator.

Where the difficulty lies:

* **state used across an `await`**: a record is read once, then used in a loop or
  after other calls have changed the store (governance hook, `updatePosition`);
* **calls that are not awaited**: `addVotes`, token transfers of swaps and of the
  validator payout overlap with one another and with what follows;
* **order**: proposals are closed in the order of creation, by indexes kept apart
  from the proposals;
* **limits and boundaries**: the number of live proposals, the ends of periods,
  epochs of incentives, ticks at the edge of a range, rounding;
* **keys**: the same record is addressed in different ways by reader and writer
  (`index` substore, price ticks, positions).

There is no persistence other than the SDK's stores and no network code in this
repository, so crashes, restarts, timeouts and lost messages are not among the
behaviours to model.

### What makes each component correct

| Component | Correct when |
|---|---|
| DEX Governance | proposals are decided once, in the order of creation, after their period, on a tally that no longer moves; the number of live proposals is bounded; the hook of a block ends; tallies are the sums of the recorded votes |
| Incentivized pools | the list and the total follow the last accepted proposal about each pool |
| DEX Incentives | the incentives of any range of blocks are those minted in it; the payout never overdraws its account, in whatever order its calls settle, and reaches every validator |
| Positions | a pool holds what it owes at the current price; its liquidity is that of the ranges around its price; a position earns only fees of its own time; every position has an ID of its own and its owner can update it |
| Swaps | a swap gives tokens only for tokens, no more than asked for, and its fees are part of what is paid; a route leads from one token to the other; the calls that settle a route leave, in any order, the balances its event tells, and a refused one leaves nothing half done |
| Endpoints | a dry run answers only along a route the command would take |
| Routing | finds a route exactly if there is one, and ends |
| Arithmetic | prices grow with ticks; the tick of a price is the last one below it; roundings favour the pool |

## 2. Plan

Modules are written from the inside out: first the module that decides about the
chain's money by votes and has the most intricate hook (governance), then the
incentives minted in every block, then the arithmetic under the DEX, positions,
and on top of them swaps.

| Step | Modules | Composition | Status |
|---|---|---|---|
| 1 | `ProposalLifecycle` (abstract), `IncentivizedPools`, `DexGovernance`, `DexGovernanceProofs` | governance EXTENDS the pools' list it updates and implements the life cycle through an INSTANCE | done |
| 2 | `LPIncentives`, `Numbers`, `DexIncentives`, `DexIncentivesProofs` | the module's hooks and payout EXTEND the schedule of incentives and `Numbers`, the conversions of integers, as `DexSwaps` does; `FiniteSums` has the sums the proofs need | done |
| 3 | `FixedPoint`, `TickPrices`, `LiquidityMath`, `SwapMath`, `MCAlgorithms`; `LiquidityMathProofs`, `PriceTableProofs`, `AlgorithmsProofs` | each EXTENDS the arithmetic below it | done |
| 4 | `TokenLedger`, `DexStores`, `DexGenesis`, `DexPositions`, `DexPositionsProofs` | positions EXTEND the stores, the genesis block that fills them and the ledger, which `DexIncentives` EXTENDS too | done |
| 5 | `PoolSwaps` | EXTENDS `DexStores` and `SwapMath`: pure functions of the stores | done |
| 6 | `DexEndpoint`, `DexSwaps`, `DexSwapsProofs` | `DexSwaps` composes positions and swaps: `DexPositions` gives the stores, the ledger and the commands before a swap | done |
| 7 | `DexRouting` | EXTENDS `DexStores`; another kind of input of `MCAlgorithms` | done |

Abstract specifications: `ProposalLifecycle` for governance.  For the settlement
of a swap the property `SettledAsSwapped` relates the balances before and after
to the event, which is all a user may rely on; an atomic transfer as an abstract
specification would not be implemented, since clashing calls lose updates.

## 3. The models and the code

### Governance

`DexGovernance` has one variable per substore (`proposals`, `votes`,
`indexStore`), and for each block its `height`, the point its execution has
reached (`phase`), the number of transactions so far (`txs`) and the hook's local
copy of the index record (`indexRead`).

| Code | Definition |
|---|---|
| `verifyGenesisBlock`, `initGenesisState` | `VerifyGenesisBlock`, `GenesisIndex`, `Init` |
| start of `beforeTransactionsExecute` | `NextBlock` |
| an iteration of its quorum loop; leaving the loop | `QuorumCheck`; `QuorumLoopEnds` |
| an iteration of its outcome loop; leaving the loop | `OutcomeCheck`; `OutcomeLoopEnds` |
| `createProposal.execute`, and when it throws | `CreateProposal`, `CreateProposalFails` |
| `voteOnProposal.execute`, and when it throws | `VoteOnProposal`, `VoteOnProposalFails` |
| `addVotes` up to its first `await`, and from there to its `set` | `AddVotesGet`, `AddVotesSet` |
| `updateIncentivizedPools` of the DEX | `UpdateIncentivizedPools` of `IncentivizedPools` |

The iterations are steps of their own so that a loop that never ends is a cycle of
the model.  `voteOnProposal` calls `addVotes` without `await`: each call is put
in `getting`, moves to `setting` when it has read its proposal, and ends with
its write; these steps interleave with one another and with the following
transactions of the block.  They are assumed to settle before the next block,
whose assembly takes orders of magnitude longer than a read of a store.  In the
same command `votesStore.setKey` is not awaited either; it is modelled as taking
effect at once, the state machine's write being synchronous once the key is
built.

Things of the code that shape the model:

* `initGenesisState` verifies the asset of the genesis block, but then lists the
  proposals and votes of its own substores (`dexGovernance/module.ts:195`, `:196`), which are still empty; it
  writes what it lists under keys of its own making, and last the index record
  (`GenesisIndex`).  So a chain starts without proposals, whatever its asset holds
  (`gov_genesis`); the unit test of the function fills the substores before it calls it.
  The asset has to pass `VerifyGenesisBlock` all the same;
* the hook keeps its index record under the empty key, `createProposal` reads
  and writes one under the key `'0'` that nobody else writes.  `Init` allows the
  second record to be absent, in which case no proposal can be created, or to be
  there with the same contents, as in the command's tests
  (`commandCreateProposal.spec.ts:145`);
* `voteOnProposal` throws for a voter without a record in `votes`: the write of
  the first one comes after a read that finds none and throws.  `Init` takes the votes substore from `SeededVotes`: none of a voter,
  an empty one or one with a vote, as `commandVoteOnProposal.spec.ts:122` sets it up.
  What the runs show of proposals and votes therefore holds of chains whose substores
  were seeded; on others governance has no proposals at all;
* governance's commands are given their dependencies by an `init` that the
  module does not call for `voteOnProposal`, and `createProposal` looks for the pool
  in a store that the module does not register.  The models describe the commands as
  their tests set them up, with these dependencies there.

`ProposalLifecycle` states, on the height, the creation heights and the statuses
alone, what a proposal may do.  `DexGovernance` implements it under the mapping
`Lifecycle`.

### DEX Incentives

`LPIncentives` holds the schedule (`getLiquidityIncentivesAtHeight`) and the
closed formula for a range of blocks (`getLPIncentivesInRange`).
`DexIncentives` has the height, the point of the block, the token balances
(`ledger`), and, for the properties, the incentives minted so far after each
block and the shares each validator was granted (`owed`).

| Code | Definition |
|---|---|
| minting and locking in `afterTransactionsExecute` | `MintLiquidityIncentives` |
| `transferAllValidatorLSKIncentives` | `PayOut`, `NothingToPay` |
| `transferFeesFromPool` of the DEX | `TransferFeesFromPool` |
| a call of the token module: each read of an account, each write | `TokenGet`, `TokenSet` |

The two `forEach` loops of the payout do not await their transfers, nor the lock
of the remainder.  `PayOut` starts all calls at once; a call is a sequence of
updates of one account each, and each update a read and a later write, so that
two calls may read the same balance before either writes it.  A call whose read
finds the balance too low throws and ends there.  The amounts are those the callbacks compute
before the first transfer resumes.  A standby share is a quotient of integers that the
code turns into a number and back: `AsNumber` of `Numbers` rounds it to the nearest
float, of which `ExactUpTo` (2^53) is the last that every smaller integer is one
too.  `transferFeesFromPool` gets its amount through the same conversion.  The shares the payout reports to the PoS
module (`updateSharedRewards`) are external and left out.

### Arithmetic

`FixedPoint` has the operations of `q96.ts` with `One` in place of 2^96.
`TickPrices` has `tickToPrice`, `priceToTick` and the square root, with the
table of prices, the largest tick and the ratio of a tick as parameters;
`LiquidityMath` has the amounts and the liquidity of a range; `SwapMath` has
`computeNextPrice` and `swapWithin`.  Recursive functions stand for the loops over
the table.
`MCAlgorithms` enumerates inputs as its initial states, one kind for each
question.

### The ledger and the stores of the DEX

`TokenLedger` has the token module's transfer, lock and unlock as sequences of
updates of one account each.  `DexStores` has the IDs of pools and the keys and
types of the records; the types are what the stores' schemas can encode.

### Genesis of the DEX

`DexGenesis` has the asset (`GenesisDEX`), `verifyGenesisBlock` and
`initGenesisState`.  The checks look a pool up by `Number` of a buffer: that of an
index is no number, so the checks of ticks and positions refuse any genesis block
that has one, and those after them are never reached; that of an incentivized pool
is its ID read as text.  A pool is stored under its index in the first byte.
`GenesisAssets` gives the assets of a run, of which `Init` takes one that passes.

### Positions

`DexPositions` keeps the stores `pools`, `ticks`, `positions`, the counter and
the token balances in one record `state`, because the helpers of the code pass
the stores from one to the next: an operator takes the record and returns the
set of its possible successors, empty when the code throws.

| Code | Definition |
|---|---|
| `createPool`, `createPosition` (commands) | `CreatePool`, `CreatePosition` |
| `addLiquidity`, `removeLiquidity` (commands) | `AddLiquidity`, `RemoveLiquidity` |
| `createPosition`, `getNewPositionID` | `WithPosition`, `NewPositionID` |
| `updatePosition` | `UpdatePosition`, `WithLiquidity`, `StoreTick` |
| `collectFeesAndIncentives`, `computeCollectableFees`, `computeCollectableIncentives` | `CollectFeesAndIncentives`, `CollectableFees` |
| `getFeeGrowthInside` | `FeeGrowthInside` |
| `checkPositionExistenceAndOwnership` | `OwnershipKey`, `NotExists` |
| `computePoolID` | `PoolIDs` of `DexStores`: none for a tier above 127 |

Everything in these commands is awaited, so each is one step.  The model keeps
what the code does with keys, counters and copies:

* a tick is initialized and read under `tickToBytes(tick)`, and written after an
  update under `q96ToBytes(tickToPrice(tick))`;
* `getNewPositionID` counts up a copy of the global store that is dropped, so
  every position of a pool has the same ID;
* the position is stored, after fees were collected, as it was read before;
* the commands that update a position look it up under sender and ID, a key
  under which there is never anything: both always fail, and the branch behind the
  lookup is in the model but is not reached;
* `createPosition` computes the liquidity from the price without its fraction, and
  `getLiquidityForAmounts` throws from `LiquidityLimit` (2^64) on, a guard of the commands that call it;
* `computePoolID` writes the fee tier in one signed byte, so of the configured
  tiers only 100, with tick spacing 2, gives a pool ID;
* `verifyGenesisBlock` refuses every genesis with positions or ticks, since it
  takes `Number` of a buffer, and a genesis pool gets its index as ID, so its
  tokens never come in the order that `createPool` demands.

`collectFees` has no action: its schema makes objects of the position IDs, so
`Buffer.concat` throws on the first, and without positions it does nothing.
Swaps do not store the pools they change, so fees only grow before genesis.
The fee of a command (`payFee`) goes to the fee module and is not modelled, nor is the
transfer of a position's incentives: their amount is 0 whenever the command gets that far.

### Swaps

`PoolSwaps` has `swap` and `computeCurrentPrice` as functions of the stores that
return the set of their outcomes, empty when the code throws.  One turn of the loop
of `swap` is `Turn`; what the loop computes is a record, and its turns the values of
a recursive function.  The model keeps what the loop does with ticks:

* the tick of the current price has to be stored, under its index, or the lookup
  throws; so does `q96ToBytes` for a tick below 0;
* the ticks before and after are looked for with the number of the tick as key,
  among records of other keys: there is never one before it, and the one after
  is a record, not a tick, and its price that of tick 0;
* the pool and the ticks that are changed are copies of the stored ones.

So a swap from the first token to the second returns zeros or throws, and one in
the other direction succeeds only from a price above 1, in one turn, downwards.
Fee coefficients come out of the tier read from the pool ID, 2^24 times the configured
one, and of products rounded as if they were scaled.  `SwapMath` has the step within
a range and when it throws.

`DexSwaps` has the commands and, as in `DexIncentives`, the calls of the token module
under way.

| Code | Definition |
|---|---|
| `verify` of the commands with a route | `ValidRoute` |
| `swapExactIn.execute`, its loop over the route | `SwapExactIn`, `HopExactIn` |
| `swapExactOut.execute`, its loop over the reversed route | `SwapExactOut`, `HopExactOut` |
| `swapWithPriceLimit`, `verify` and `execute` | `SwapWithPriceLimit` |
| `transferPoolToPool`, `transferFeesFromPool` | the same names |
| the calls between two pools of a route | `BetweenPools` |
| the SwappedEvent and the start of all calls | `Settle` |
| a read of an account, a write | `TokenGet`, `TokenSet` |

A command computes all its swaps, then starts the calls that pay for them and ends.
Each call runs on by itself: a command is therefore one step, and every read and
write of the calls another.  A call that finds too low a balance rejects its promise;
the handlers of the commands throw in turn, which no one catches, so the model
ends that call (`refused`) and goes on.  `clashed` collects the records that a
call read between another's read and write.  Both are there for the property on
balances, and nothing depends on them.

`DexEndpoint` has the dry runs, which walk a route with the input and the output
the other way round (section 6).

### Routing

`DexRouting` has the two searches.  Pools come in the order of their keys.  The
regular route compares a token with pool IDs; the exceptional one keeps one array
for the paths of all routes and looks visited tokens up by identity.  Its queue is
a sequence, and the search a recursive function of the turns taken, of which
`MaxTurns` are looked at.

## 4. What the runs check

| Run | Instance | Shows |
|---|---|---|
| `gov_safety` | 2 voters, 3 proposals (2 live), 9 blocks, 1 transaction each, periods 2 and 4, a supply that grows by 20 in every block | type; `CreationOrder`, `LiveProposalLimit`, `OutcomeIndexIsFrontier`, `ClosedInTime`, `IncentivesFollowOutcomes`, `FinalStatusStable`, `ClosedTallyFrozen`, `OutcomeIndexMonotone`, and `ImplementsLifecycle` (refinement) |
| `gov_single` | 1 live proposal, blocks to height 8, 2 transactions each, periods 1 and 3, a supply that grows by 50 in every block | liveness: the hook ends, and every proposal is closed |
| `gov_hook` | 2 proposals created in one block | **violation**: the hook need not end |
| `gov_tally` | 2 voters with stakes 1 or 2, seeded records | **violation**: tallies differ from the recorded votes |
| `gov_genesis` | an asset with a proposal and its vote | **violation**, in the first state: the proposals of the genesis asset are not stored |
| `incentives` | 10 blocks over all epochs, 3 validators (weights 2, 1, 0), 7 or 22 units locked at first, 1 swap fee | type; `RangeIsMinted`, `SharesCovered`, `OwedIsPaid`, `LockedIsPaidOut` (liveness) |
| `incentives_fees` | 7 blocks, 1 swap fee | **violation**: the fee never reaches a validator |
| `algorithms` | 6 fraction bits, 3 entries of the table, ticks -7..7; every set of pools between four tokens | ticks, square root, amounts, one swap step; `SearchFindsRoute` |
| `positions` | 2 accounts, 2 pools, ticks -3..3, 2 positions | type; `DepositsCoverGrants`, `PoolLiquidityInRange`, `FreshPositionEarnsNothing` |
| `swaps` | ticks -2..2, 4 pools of 3 tokens, one account with up to 3 positions and one that swaps, routes of up to 3 pools, 4 calls under way | `SwapsTypeOK`, `NothingForFree`, `RoutesAreWalks`, `SettledAsSwapped`, `RefusedCallsLeaveNothing` |
| `positions_counter` | the same as `positions` | **violation**: the position counter is not the number of positions |
| `positions_owner` | the same | **violation**: an existing position "does not exist" |

Bounds and why they are enough:

* *Governance.*  Two live proposals are the least with which indexes can fall out
  of step, a third reuses the place of the first.  The quorum period is shorter than
  the voting period by as many blocks as there are live proposals (`DurationsApart`), the
  least difference the theorems allow, and nine blocks see a proposal made in the first
  block and one made while it is live through both.  One vote in a block is in flight
  together with the next transaction's in `gov_single`, where a voter's revote takes back
  the earlier vote in the same block.  The supply grows in every block, as on the chain, with
  a quorum of 1%: a stake of 2 is a turnout above the quorum when a proposal is new,
  exactly at it at a supply of 200, and below it later.
* *Incentives.*  A bootstrap period of one block and epochs of two put each of the
  five boundaries, and a range ending on it, in ten blocks; with three validators
  there are three payouts.  Seven units among three validators leave remainders in
  both divisions; a third of 22 is 7, which `AsNumber` rounds up to 8 when every integer
  up to 4 is a float.
* *Algorithms.*  One in 64 is coarse, so roundings are much larger relative to the
  values than in the code and every rounding case occurs; the table has entries for
  three bits, each rounded like the code's.  The properties on prices depend on the
  table being close enough to the powers it stands for; the run takes one that is
  rounded to the nearest multiple, and `MCAssumption` checks that it fits in the sense
  of the theorems (`TableFits`, section 5).  The liquidities of a swap step are 1 to 9, and
  34 and 200, with which an amount of the first token is rounded twice to more
  than what was offered (section 6).
* *Positions.*  Two positions are the least that share a tick, a range or an ID.
  Prices below, in and above a range, and exactly at its ends, all occur.  The genesis
  pool has fees grown on both sides and liquidity of its own, and its price at a
  tick.  The two accounts are interchangeable (symmetry; the run has safety
  properties only).  `MCAssumption` checks that the instance satisfies what the
  theorems about positions assume.
* *Swaps.*  With six fraction bits every rounding in fees and amounts occurs.  A
  route has a price only if it leads from token to token both as proposed and
  reversed, and each of its swaps pays out only if it asks for the first token of a
  pool, above the price 1, with the current tick stored.  The least with which a
  route of three swaps moves tokens in all of them, each paid with what the next
  gives, are a pool that users create, with two positions, and one of the genesis
  block with the same tokens in the other order, with one; that is why there are
  three positions.  The route goes through the first pool twice, so calls of one swap
  meet on its records.  Four calls under way are the calls of that route, and those of a
  swap that takes fees for the validators, of which the lock may come before
  the transfer it waits for.  A third token gives routes of two swaps for an exact
  input.  Two swaps that overlap are not reached; the calls of one already read and
  write the same records in every order.  Positions do not change after the first
  swap: they touch accounts of other users, and pools of which a swap changes the
  balance only.  `UserTicks` leaves ticks below 0, from which no swap starts, to the
  other runs.  `MCAssumption` checks what the theorems about swaps assume, but for
  `AmountsSmall`, for which TLC's integers have no room.
* *Routing.*  Four tokens have walks of up to three pools, cycles, and components of
  two tokens each.  A token has up to three pools, so 1 + 3 + 9 + 27 turns look at
  all tokens that are three pools away: `TurnsSuffice`, which `MCAssumption` checks,
  says that `MaxTurns` allows as many.

`CHECK_DEADLOCK FALSE` is set for the runs on positions and swaps, where the bounds
on positions and swaps and the balances let the system stop; the other models have a
`BoundReached` step at the last block, so that a deadlock elsewhere would be found.

Fairness.  `gov_single`, `gov_hook`, `incentives` and `incentives_fees` assume weak
fairness of the hook's steps, of calls under way and of the next block: the state
machine runs a hook to its end, Node's event loop resumes promises, and a live
chain produces blocks.  Nothing is assumed of transactions.

## 5. What is proved

The theorems are listed in `PROJECT.json`; each holds for every value of the
constants that satisfies the named assumptions of the modules
(`GovernanceAssumption`, `DurationsApart`, `SeededAssumption`, `IncentivesAssumption`,
`AddressAssumption`, `NumbersAssumption`, `PrecisionAssumption`, `OneAssumption`,
`TickAssumption`, `StoresAssumption`, ...) and
what the theorem itself assumes.  TLC evaluates the former in every run.  `DurationsApart` asks
that the two periods end at least `MaxRecordedVotes` blocks apart: in `constants.ts` (lines 16
to 21) it is 130000 blocks for 100 proposals.  `PrecisionAssumption` asks for no more validators
than 2^53.

| Module | Theorems |
|---|---|
| `DexGovernanceProofs` | type; `CreationOrder`, `LiveProposalLimit`, `OutcomeIndexIsFrontier`, `ClosedInTime`, `ClosedTallyFrozen`, `OutcomeIndexMonotone`; `FinalStatusStable`, `IncentivesFollowOutcomes` and the refinement of `ProposalLifecycle`, for any growth of the supply |
| `DexIncentivesProofs` | `RangeIsMinted`; the shares of a payout fit what it unlocks; `SharesCovered`, `OwedIsPaid` |
| `LiquidityMathProofs` | the square root is exact; a deposit is within the amounts offered; deposits cover withdrawals; a round trip of two swap steps makes no profit - for all prices, amounts and liquidities |
| `PriceTableProofs` | prices increase with the tick in every table that fits; the table of the code fits, so its prices ascend |
| `AlgorithmsProofs` | the invariants of the run `algorithms`; on prices, in every table that fits; on routes, for any tokens and pools |
| `DexPositionsProofs` | `PositionsInv`; type; `PoolLiquidityInRange`, `FreshPositionEarnsNothing`, `DepositsCoverGrants` |
| `DexSwapsProofs` | type (`SwapsTypeOK`); `RoutesAreWalks`, `SettledAsSwapped`, `NothingForFree` |
| `FiniteSums` | lemmas on sums over finite sets and sequences, used by the others |

*Governance* (`DexGovernanceProofs`).  The argument has four layers.

1. `TypeInv`: `TypeOK` together with `NewestIndexAgrees`, that the record
   `createProposal` keeps names the newest proposal.  Without the latter a new
   proposal could leave a gap in the indexes.  `TypeCorrect` follows.
2. `SafetyInv`, on top of it, adds two facts to the properties themselves.
   `CallsOnActive`: a call of `addVotes` is under way only among the transactions of
   a block, for an active proposal, and writes back what it read but for a tally;
   it is needed because that write stores a whole proposal, status included.
   `LoopIndexes`: each loop of the hook has advanced its stored index by at most
   one from the hook's copy.  The six properties of the table follow.
3. `FullInv`, which adds that no decided proposal is checked again.  The outcome loop writes
   back the quorum index its hook read, so a block that takes an outcome repeats its quorum
   checks in the next, when the supply may have grown.  `FrontierInv`, on
   the indexes at the end of a hook (`AtFrontier`): the quorum index never falls below the
   outcome index, and the blocks that the proposal at the quorum index has waited beyond its quorum period
   are at most the outcomes that can have held it up.  At most `MaxRecordedVotes` proposals
   are live, so with `DurationsApart` it is still in its voting period when it is checked
   again; those below the outcome index are the decided ones.  `OutcomeInv` is the same between the
   steps of the outcome loop.  `FinalStatusStable` and the refinement of
   `ProposalLifecycle` follow.
4. `PoolsInv`, for the pools' list (`IncentivesFollowOutcomes`).  The `forEach` of
   `updateIncentivizedPools` is a fold, unfolded once for all lists (`VisitStep`);
   as long as each pool has one entry, the entry it skips after a `splice` is never
   one it had to drop (`PoolDropped`), and sorting only moves entries (`SortKeeps`).
   So an update changes one multiplier and nothing else (`ListUpdated`).  A proposal
   is decided after all older ones and never again, so the one that is decided as accepted
   is the newest accepted about its pool (`NewestAccepted`).  No write changes what a
   proposal asks for (`ContentKnown`), and there are finitely many pools.  The sort is written out in
   `IncentivizedPools` because `SortSeq` has no definition the provers can use.

*Incentives* (`DexIncentivesProofs`).  `RangeIsMintedHolds`: the closed formula is
the difference of a running total, written without recursion as a sum of clamped
ramps, one for each epoch; each block adds its incentive to the total; hence the
hooks mint what the formula says, whatever the lengths of the epochs.

*Payout* (`DexIncentivesProofs`).  The reads and writes of all transfers of a payout
interleave, so the invariant is about what is still to come.  For the account of the
validators, the recorded balance, and every balance about to be written over it, is at
least what the reads to come will take; so lost updates do no harm.  For a validator, what it
is owed is its balance and the share under way, of which there is one call at one place.
`SharesFit`, that the shares add up to no more than the amount, gives
the first at the start of a payout; a standby share rounded up to a float exceeds the quotient by at most a 2^53th part of
it (`AsNumberBound`), for which the quotients of the active validators leave room
(`SharesOfOthers`).  `OwedIsPaid` is about the shares only: of the remainder, which is
locked again, it says nothing (section 6).  Addresses of validators must differ from the
module's accounts (`AddressAssumption`).

*Arithmetic* (`LiquidityMathProofs`, `AlgorithmsProofs`).  Every operation of
`q96.ts` is bracketed by inequalities without division, and the theorems follow
by multiplying them out; an iteration of `sqrt` stays at or above the root and goes
down until it is there.  About the table of prices they assume `TableAscends` only:
prices are positive and increase with the tick.  Withdrawals are covered when the lowest
price exceeds one unit by enough for one rounding
(`One + 2 * TickToPrice(-MaxTick) <= One * TickToPrice(-MaxTick)`);
with 2^-96 as unit and a lowest price of about 2^-64 the right side is 2^32 times
the left.

*Prices* (`PriceTableProofs`).  A price below 1 is the product of the entries for the
bits of the tick that are set, rounded down at every factor.

1. From a tick n to n + 1 a bit k is set and the bits below it, all set, are cleared.
   `TableFits` asks that at each such carry the price falls by a factor a/b at least:
   the entry of bit k against the product of all entries below it (`LowPrice`). The
   factors above k are common to both; multiplying from the lowest bit or from the
   highest one differs by less than a unit for each factor but the first
   (`OrderOfFactors`), the `slack` of `TableFits`. So the price of n + 1, a times, is
   below that of n, b times, plus b times the slack (`Neighbours`); and `TableFits`
   asks that at the lowest price, the one of tick -`MaxTick`, a/b is more than this.
   Hence prices fall with every further tick (`FittingFalls`), and increase above 1,
   where they are inverted (`FittingAscends`).
2. `priceToTick` tries the bits from the highest down and multiplies in that order.
   Its search is the greedy one for the last tick whose product, in this order, is not
   below the price (`SearchBrackets`, `SearchFinds`), and the order of the factors
   moves a price by less than the distance to the next. Up to tick 0 this is exact
   (`RoundTrip`); above, the price is inverted first, and the answer is within one
   tick (`TickFound`). `InversionFits` says that the comparison with the price of tick
   1, a square root, leaves no price uninverted from tick 2 on.
3. `IsTableOfCode` is the table of `constants.ts` with 2^96 and `MAX_TICK`. For it a/b
   is 100004/100000, the slack is 19 and the lowest price 4295128738 units
   (`LowestOfCode`, twenty products the prover computes), so `TableOfCodeFits`,
   `InversionOfCodeFits` and `TableOfCodeAscends` follow: the hypotheses on the table
   of all theorems hold for the constants of the code. The definition is in the module
   of the proofs, as TLC reads no numbers of that size.

*Routes* (`AlgorithmsProofs`).  The search is a function of the turns taken (`SearchIs`),
and its bound `TurnsSuffice` depends on the number of tokens and on the pools of a token
only.

1. What is found is a route: the tokens in the queue are connected to the first one by
   the pools on the path so far (`SearchInv`, `TurnKeeps`).  The path is one array for
   all routes, so it holds more pools than the route needs.
2. What is connected is found.  While the token is not found, a token at position i of
   the queue is at its head i turns later (`QueueAdvances`), and the queue after n turns
   has at most 1 + n * degree - n tokens (`QueueBounded`).  So whatever the pools of a
   token lead to that is visited in the first m turns is visited in the first
   1 + m * degree (`VisitedNext`).  Tokens may be visited again and again, but with
   every such step the set of visited tokens grows, or no pool leaves it (`AllVisited`):
   after as many steps as there are other tokens all connected ones are in it.
3. Between tokens that are not connected, the queue has only tokens with pools, or
   is empty after the first turn (`QueueLives`, `QueueDies`).

The regular route never answers: it looks for a token among the IDs of pools
(`NoRegularRoute`).

*Positions* (`DexPositionsProofs`, assuming `TableAscends`, which the table of the code
satisfies).  `PositionsInv` has

* the stores: a position lies in a pool, between two ticks that are stored under
  their index, as they were initialized.  Nothing else is ever written
  under an index, as updates store ticks under their price, which is why
  `FreshPositionEarnsNothing` holds for all time: below a tick that was
  initialized at or below the price is all the fee growth, above it none;
* the deposits: what a pool has locked of a token is at least the sum of the amounts
  paid in for the positions created.  The sum runs over the bag `created`, each
  term rounded up, and `updatePosition` moves exactly one such term from its
  owner's available to the pool's locked balance, also when both tokens of the
  pool are the same;
* the liquidity: that of the genesis block and of the positions around the price;
* records that fit their schemas.

`DepositsCoverGrants` compares the sum of terms rounded up with the amount of
the summed liquidity rounded down.  Each term is bounded below by a linear function
of its liquidity less the first of its two rounding losses; `FewPositions` says that
the losses of all positions together stay below a unit (section 6).
No theorem needs the lookups of `addLiquidity` and
`removeLiquidity` to fail, but they do, and the proof uses it: there is no key of
their shape (`NeverOwned`).

*Swaps* (`DexSwapsProofs`, assuming `TableAscends` too).

1. The loops.  A swap, and a walk along a route, is the last value of a recursive
   function, and the prover cannot unfold it.  `LoopExists` shows once that such a
   function exists for any number of turns; the induction over it (`LoopInduction`)
   then needs a set of values for each turn.  For the loop of `swap` (`SwapCases`) it gives
   that a swap which does not throw is idle, or is one part that ends before its
   target and uses up the amount.
2. `SwapsTypeOK`.  `SwapsInv` adds to the invariant of the stores the types of the
   events, of the ledger and of the calls under way.  The hypothesis `FeesModest`
   bounds the tiers read from pool IDs, and excludes the one with which the code
   would divide by zero; without it a fee could exceed the amount it is taken from.
3. `RoutesAreWalks` follows from `BeforeSwaps`, which is that positions obey
   `PositionsInv` as long as nothing was swapped.  `LeadsTo` says of the first pools
   of a route that their tokens lead to a token; each pool whose price is not 0
   carries it on, whatever the price so far.  Only genesis pools might have
   the price 0, which `verifyGenesisBlock` does not look at (`GenesisPriced`).
4. `SettledAsSwapped`.  The statement is about states in which no call is under way;
   `BooksInv` holds before that too: for each balance, and for the total of each
   token, what is written plus what the calls under way still add (`Pending`) is what
   was there before the first swap plus what the events exchange.  A swap adds the same to
   its event and to its calls, route by route (`AddsPoolToPool`: between two pools
   no available balance moves); a write moves one step of a call from
   the second sum to the first.  That needs the account to be as the call read
   it, which is what `clashed = {}` says (`CallsOK`), and that no call ended early
   (`refused = {}`).  Routes may be of any length, pass a pool several times, and any number
   of swaps may overlap, which the run does not reach.
5. `NothingForFree`.  For an exact output the price after the step is rounded up, so
   what comes out is at least what was asked for; from a price above 1 it also
   costs at least one token.  For an exact input the token paid in is never
   taken twice over: a step takes no more than it was offered (section 6) if the liquidity and
   the amount together do not exceed 2^96.  `AmountsSmall` states these bounds; with
   64 bits for liquidity and amounts, 31 for half a fee tier and One = 2^96 it holds
   with room to spare.

Every invariant and action property of the passing runs has a theorem, except
`RefusedCallsLeaveNothing`, which is model-checked only, and `TypeOK` of `DexIncentives`, a
lemma (`TypeCorrect`) of the theorems on the payout.  Also only
model-checked are the liveness properties under fairness, which is out of
the prover's reach, and the violations.

The prover has no induction over an arbitrary operator.  Where one is needed, over a
loop, a fold or a set, it is made over the set of the naturals (or subsets) for which
the statement holds (`SetOfAllNaturals`, `SetOfAllSubsets` of `FiniteSums`).

## 6. Disagreements between code and documentation

`PROJECT.json` lists them under `findings`, each with the run that shows it and the
sentence it contradicts: the hook that need not end, votes counted and not
recorded, genesis proposals that are not stored, validator fees locked
in one token and paid in another, the position counter, and positions that
cannot be found by their owners.

Met while modelling, but not contradicting any documented statement: `priceToTick`
does not undo `tickToPrice` for about half of the ticks above 0 (it answers 18 for
the price of tick 19), since it only corrects downwards; ticks at or below 0 are
exact and any answer is within one tick.  `FreshPositionEarnsNothing` is therefore
stated for pools whose price `priceToTick` places correctly: for the others a new
position that begins at the current tick is credited with all fees of the past.
`swapWithin` tells `computeNextPrice` the wrong token for swaps with exact output.

In the payout of the validators, the debits of the account that are not awaited read it
together and write over one another, and over the lock of the remainder, so part
of what was unlocked may be left unlocked in the account, or be locked and paid as well.

Met while proving:

* a swap step that does not reach its target, and is paid in the first token, may
  take one token more than it was offered: the next price is rounded up, and the
  amount computed back from it is rounded up twice, in the division and to a whole
  number (liquidity 200, 2 tokens, from the price of tick 2 towards that of tick -7, one in 64).
  `StepWithinBounds` excludes that case (`Precise`).  The swaps that succeed today start
  above a price of 1, where the second rounding cannot cost a token as long as the
  liquidity and the amount together stay below 2^96;
* a pool covers what it owes only while the rounding losses of all its positions
  stay below one unit: each amount paid in is rounded twice, and the multiples of
  2^-96 lost in the first rounding add up.  `DepositsCoverGrants` is proved for as many
  positions as `FewPositions` allows.  At the lowest price of the real table
  these are about 2^32.

Swaps:

* exact-in swaps always swap the first token of a pool for the second, whatever the
  token given, and so always pay out 0; exact-out swaps in that direction have an
  input of 0, pass only when the maximum is 0, and pay the amount asked for out
  of the pool;
* `swapExactOut` fails when the input is below the maximum (`swapExactOut.ts:193`),
  the dry run when it is above (`endpoint.ts:478`, "Too high input amount"); it
  reverses the route in place before it computes the price along it, and walks the
  reversed route from the token given;
* both dry runs pass `exactInput` inverted to `swap`;
* the last check on a route compares the second token of its first pool with the
  token asked for (`swapExactIn.ts:92`);
* the amounts of a SwappedEvent are not what was settled when a call is refused or
  two calls are on one record at once: `SettledAsSwapped` is stated for the rest;
* tokens between pools go from the pool that was swapped in first to the next, which
  for an exact output is against the direction of the payment;
* `MAX_NUMBER_CROSSED_TICKS` is never exceeded, as the first crossing throws; the error
  of any throw in a swap is nevertheless SWAP_FAILED_TOO_MANY_TICKS;
* `MIN_SQRT_RATIO` (4295128735) is a little less than the price of `MIN_TICK`, which
  is 4295128738 (`LowestOfCode`), and `MAX_SQRT_RATIO` a little more than that of
  `MAX_TICK`; the model takes any such bounds.

Routing: between tokens that no pools connect, `computeExceptionalRoute` does not end
when the first token has a pool; the path it returns lists every pool it looked
at, followed by the token asked for.  `computeRegularRoute` never finds a route.

## 7. What is not modelled

* `getRoute` and `getOptimalSwapPool`, which have no caller in the repository and
  look for pools under IDs that are not those of any pool; `constructPoolsGraph`,
  and the copies of the functions on swaps and routes in `auxiliaryFunctions.ts`,
  which nothing calls.
* `addPoolCreationSettings` of `dex/method.ts`: nothing calls it.
* `updatePoolIncentives` and `computeNewIncentivesPerLiquidity`: the first changes a
  copy of the pool, and looks for its ID among buffers by identity, so it returns before.
* `getCredibleDirectPrice`, `getLSKPrice`, `getTVL` and the queries of single
  records: they read the stores and convert for output.
* What the process does with the rejected promise of a call that nobody awaits.
* The parameters' minima, maxima and time limits, which only make a command
  fail: the models let a transaction through or leave it out.
* Serialization (`bytesToQ96`, `computeSqrtPrice`), schemas other than those of the
  stores and of genesis, events other than those a property is about, the scratch
  state of dry runs, the application and its command line: no state of the chain or
  pure I/O.
* The Lisk SDK: its state machine, stores and modules appear only through what
  the code relies on.
