--------------------------- MODULE MCAlgorithms ---------------------------
(***************************************************************************)
(* What the pure functions of the DEX promise, over every input of a small *)
(* domain: each state is one input.                                        *)
(***************************************************************************)
EXTENDS DexRouting, SwapMath

CONSTANTS
    MaxLiquidity,    \* bound: liquidity of a range
    SwapLiquidities, \* bound: liquidity that a swap meets
    MaxAmount,       \* bound: amounts of tokens
    MaxSquare,       \* bound: arguments of Sqrt
    Tokens           \* tokens of the pools to route through

ASSUME BoundsAssumption ==
    /\ MaxLiquidity \in Nat /\ MaxAmount \in Nat /\ MaxSquare \in Nat
    /\ SwapLiquidities \subseteq Nat \ {0}
    /\ Tokens \subseteq Nat /\ IsFiniteSet(Tokens)

MCPriceAtBit == <<57, 51, 40>>
MCTickBase == <<5, 4>>
MCSwapLiquidities == 1..9 \cup {34, 200}

AllPools == UNION {PoolIDs(p[1], p[2], 1) : p \in {p \in Tokens \X Tokens : p[1] < p[2]}}

\* Turns in which a search has looked at all walks of n pools, when no token has more
\* pools than the degree.
TurnsTo(degree) ==
    LET turns[n \in 0..Cardinality(Tokens)] ==
            IF n = 0 THEN 1 ELSE 1 + degree * turns[n - 1]
    IN  turns

\* What the proof about searches assumes: enough turns are looked at.
TurnsSuffice ==
    \E degree \in 0..MaxTurns :
        /\ \A t \in Tokens : Cardinality(PoolsOf(AllPools, t)) <= degree
        /\ TurnsTo(degree)[Cardinality(Tokens) - 1] <= MaxTurns

\* What the proofs assume of the table of prices and of the bound on turns.
ASSUME MCAssumption ==
    /\ TableFits /\ InversionFits
    /\ One + 2 * TickToPrice(-MaxTick) <= One * TickToPrice(-MaxTick)
    /\ TurnsSuffice

VARIABLE input

Ranges == {r \in Ticks \X Ticks : r[1] < r[2]}

Init ==
    \/ input \in [kind : {"tick"}, tick : Ticks]
    \/ input \in [kind : {"price"}, price : TickToPrice(-MaxTick)..TickToPrice(MaxTick)]
    \/ input \in [kind : {"sqrt"}, value : 0..MaxSquare]
    \/ input \in [kind : {"deposit"}, tick : Ticks, range : Ranges,
                  amount0 : 1..MaxAmount, amount1 : 1..MaxAmount]
    \/ input \in [kind : {"split"}, tick : Ticks, range : Ranges,
                  first : 1..MaxLiquidity, second : 1..MaxLiquidity]
    \/ input \in [kind : {"swap"}, from : Ticks, to : Ticks,
                  liquidity : SwapLiquidities, amount : 1..MaxAmount]
    \/ input \in [kind : {"route"}, pools : SUBSET AllPools, tokenIn : Tokens, tokenOut : Tokens]

Next == UNCHANGED input

Spec == Init /\ [][Next]_input

-----------------------------------------------------------------------------
(* Properties *)

\* tickToPrice is strictly increasing, across the inversion at tick 0 too.
PricesIncrease ==
    input.kind = "tick" /\ input.tick < MaxTick =>
        TickToPrice(input.tick) < TickToPrice(input.tick + 1)

\* priceToTick finds the last tick whose price is not above the given one, or a
\* neighbour of it.
TickWithinOne ==
    input.kind = "price" =>
        LET below == CHOOSE t \in Ticks :
                /\ TickToPrice(t) <= input.price
                /\ \A u \in Ticks : u > t => TickToPrice(u) > input.price
        IN  PriceToTick(input.price) \in (below - 1)..(below + 1)

\* Up to tick 0, where no price is inverted, priceToTick undoes tickToPrice.
RoundTripBelowOne ==
    input.kind = "tick" /\ input.tick <= 0 => PriceToTick(TickToPrice(input.tick)) = input.tick

\* Newton's iteration ends with the square root rounded down.
SqrtIsFloor == input.kind = "sqrt" => Sqrt(input.value) = FloorSqrt(input.value)

\* The amounts of the liquidity computed from two amounts, rounded up for the
\* deposit, are within these amounts.
DepositFitsAmounts ==
    input.kind = "deposit" =>
        LET current == TickToPrice(input.tick)
            lower == TickToPrice(input.range[1])
            upper == TickToPrice(input.range[2])
            liquidity == GetLiquidityForAmounts(current, lower, upper, input.amount0, input.amount1)
            paid == AmountsForLiquidity(current, lower, upper, liquidity, TRUE)
        IN  paid[1] <= input.amount0 /\ paid[2] <= input.amount1

\* What two deposits paid in is enough to withdraw their liquidity at once.
DepositsCoverWithdrawal ==
    input.kind = "split" =>
        LET amounts(liquidity, roundUp) ==
              AmountsForLiquidity(TickToPrice(input.tick), TickToPrice(input.range[1]),
                                  TickToPrice(input.range[2]), liquidity, roundUp)
        IN  \A i \in {1, 2} :
              amounts(input.first, TRUE)[i] + amounts(input.second, TRUE)[i]
                >= amounts(input.first + input.second, FALSE)[i]

Step == SwapWithin(TickToPrice(input.from), TickToPrice(input.to),
                   input.liquidity, input.amount, TRUE)

\* The next price is rounded twice when the first token is paid in.  The error is
\* less than one of its tokens as long as liquidity and amount are small beside it.
Precise(price, liquidity, amount) == liquidity * One + amount * price <= One * price

\* A step of a swap with exact input stops between the current and the target
\* price and takes no more than the amount given, but for that error.
StepWithinBounds ==
    input.kind = "swap" /\ input.from # input.to =>
        LET from == TickToPrice(input.from)
            to == TickToPrice(input.to)
        IN  IF from > to
            THEN /\ to <= Step.price /\ Step.price <= from
                 /\ Precise(from, input.liquidity, input.amount) => Step.amountIn <= input.amount
            ELSE /\ from <= Step.price /\ Step.price <= to
                 /\ Step.amountIn <= input.amount

\* Swapping the output of such a step back returns no more than was paid in.
NoProfitFromRoundTrip ==
    input.kind = "swap" /\ input.from # input.to =>
        LET back == SwapWithin(Step.price, TickToPrice(input.from),
                               input.liquidity, Step.amountOut, TRUE)
        IN  back.amountOut <= Step.amountIn

\* Pools lead from one token to the other: no set of tokens that no pool leaves has
\* the first without the second.
Connected(pools, tokenIn, tokenOut) ==
    \A S \in SUBSET Tokens :
        tokenIn \in S /\ (\A p \in pools : Token0(p) \in S <=> Token1(p) \in S) => tokenOut \in S

\* A route is found exactly between tokens that pools connect, and its pools are
\* among those of the answer.  Otherwise the search gives up only when no pool has
\* the token given, and goes on and on when one has.
SearchFindsRoute ==
    input.kind = "route" =>
        LET search == ExceptionalSearch(input.pools, input.tokenIn, input.tokenOut)
            regular == ComputeRegularRoute(input.pools, input.tokenIn, input.tokenOut)
            connected == Connected(input.pools, input.tokenIn, input.tokenOut)
        IN  /\ regular # <<>> \/ search.found <=> connected
            /\ ~connected =>
                 (Ended(search) <=> \A p \in input.pools : input.tokenIn \notin {Token0(p), Token1(p)})
            /\ \A path \in ComputeExceptionalRoute(input.pools, input.tokenIn, input.tokenOut) :
                 path # <<>> => /\ Last(path) = <<input.tokenOut>>
                                /\ Connected(Range(Front(path)), input.tokenIn, input.tokenOut)
=============================================================================
