-------------------------- MODULE AlgorithmsProofs --------------------------
(***************************************************************************)
(* Properties of the pure functions that MCAlgorithms enumerates, for      *)
(* every width of the fraction, every table of prices and all inputs.      *)
(***************************************************************************)
EXTENDS MCAlgorithms, PriceTableProofs

-----------------------------------------------------------------------------
(* The square root *)

\* Newton's iteration ends with the square root rounded down.
THEOREM SqrtIsFloorHolds == Spec => []SqrtIsFloor
<1>1. Init => SqrtIsFloor
  <2> SUFFICES ASSUME Init, input.kind = "sqrt" PROVE Sqrt(input.value) = FloorSqrt(input.value)
    BY DEF SqrtIsFloor
  <2>1. input \in [kind : {"sqrt"}, value : 0..MaxSquare]
    BY DEF Init
  <2>2. input.value \in Nat
    BY <2>1, BoundsAssumption
  <2>3. QED
    BY <2>2, SqrtExact
<1>2. SqrtIsFloor /\ [Next]_input => SqrtIsFloor'
  BY DEF SqrtIsFloor, Next
<1>3. QED
  BY <1>1, <1>2, PTL DEF Spec

-----------------------------------------------------------------------------
(* The prices of ticks *)

\* The input never changes, so what holds of every input always holds.
LEMMA Constant == ASSUME [Next]_input PROVE input' = input
BY DEF Next

\* In a table that fits, tickToPrice is strictly increasing.
THEOREM PricesIncreaseHolds == ASSUME TableFits PROVE Spec => []PricesIncrease
<1>1. Init => PricesIncrease
  <2> SUFFICES ASSUME Init, input.kind = "tick", input.tick < MaxTick
               PROVE  TickToPrice(input.tick) < TickToPrice(input.tick + 1)
    BY DEF PricesIncrease
  <2>1. input.tick \in Ticks
    BY DEF Init
  <2>2. QED
    BY <2>1, FittingAscends DEF TableAscends
<1>2. PricesIncrease /\ [Next]_input => PricesIncrease'
  BY Constant DEF PricesIncrease
<1>3. QED
  BY <1>1, <1>2, PTL DEF Spec

\* Up to tick 0 priceToTick undoes tickToPrice, though the products of the two are
\* rounded in opposite orders.
THEOREM RoundTripHolds == ASSUME TableFits PROVE Spec => []RoundTripBelowOne
<1>1. Init => RoundTripBelowOne
  <2> SUFFICES ASSUME Init, input.kind = "tick", input.tick <= 0
               PROVE  PriceToTick(TickToPrice(input.tick)) = input.tick
    BY DEF RoundTripBelowOne
  <2>1. input.tick \in Ticks
    BY DEF Init
  <2>2. QED
    BY <2>1, FittingFalls, RoundTrip
<1>2. RoundTripBelowOne /\ [Next]_input => RoundTripBelowOne'
  BY Constant DEF RoundTripBelowOne
<1>3. QED
  BY <1>1, <1>2, PTL DEF Spec

\* priceToTick finds the last tick whose price is not above the given one, or a neighbour
\* of it, over the whole range of prices.
THEOREM TickWithinOneHolds == ASSUME TableFits, InversionFits PROVE Spec => []TickWithinOne
<1>1. Init => TickWithinOne
  <2> SUFFICES ASSUME Init, input.kind = "price" PROVE TickWithinOne
    BY DEF TickWithinOne
  <2> DEFINE price == input.price
             IsBelow(t) == /\ TickToPrice(t) <= price
                           /\ \A u \in Ticks : u > t => TickToPrice(u) > price
             below == CHOOSE t \in Ticks : IsBelow(t)
  <2>1. price \in TickToPrice(-MaxTick)..TickToPrice(MaxTick)
    BY DEF Init
  <2>2. TableAscends
    BY FittingAscends
  <2>3. -MaxTick \in Ticks /\ MaxTick \in Ticks
    BY TickAssumption DEF Ticks
  <2>4. TickToPrice(-MaxTick) \in Nat /\ TickToPrice(MaxTick) \in Nat
    BY <2>2, <2>3 DEF TableAscends
  <2>5. price \in Nat /\ TickToPrice(-MaxTick) <= price /\ price <= TickToPrice(MaxTick)
    BY <2>1, <2>4
  <2> HIDE DEF price
  <2>6. \E t \in Ticks : IsBelow(t)
    BY <2>2, <2>5, LastBelow
  <2>7. below \in Ticks /\ IsBelow(below)
    <3> HIDE DEF IsBelow
    <3>1. QED
      BY <2>6
  <2> HIDE DEF below
  <2>8. PriceToTick(price) \in (below - 1)..(below + 1)
    BY <2>5, <2>7, TickFound
  <2>9. QED
    BY <2>8 DEF TickWithinOne, below, price
<1>2. TickWithinOne /\ [Next]_input => TickWithinOne'
  BY Constant DEF TickWithinOne
<1>3. QED
  BY <1>1, <1>2, PTL DEF Spec

-----------------------------------------------------------------------------
(* Amounts and steps at the prices of ticks *)

\* The amounts of the liquidity computed from two amounts, rounded up for the
\* deposit, are within these amounts, for all ticks and amounts.
THEOREM DepositFitsHolds == ASSUME TableAscends PROVE Spec => []DepositFitsAmounts
<1>1. Init => DepositFitsAmounts
  <2> SUFFICES ASSUME Init, input.kind = "deposit" PROVE DepositFitsAmounts
    BY DEF DepositFitsAmounts
  <2>1. input \in [kind : {"deposit"}, tick : Ticks, range : Ranges,
                   amount0 : 1..MaxAmount, amount1 : 1..MaxAmount]
    BY DEF Init
  <2> DEFINE current == TickToPrice(input.tick)
             lower == TickToPrice(input.range[1])
             upper == TickToPrice(input.range[2])
  <2>2. /\ input.tick \in Ticks /\ input.range[1] \in Ticks /\ input.range[2] \in Ticks
        /\ input.range[1] < input.range[2]
    BY <2>1 DEF Ranges
  <2>3. current \in Nat \ {0} /\ lower \in Nat \ {0} /\ upper \in Nat /\ lower < upper
    BY <2>2, Ascending DEF TableAscends
  <2>4. input.amount0 \in Nat /\ input.amount1 \in Nat
    BY <2>1, BoundsAssumption
  <2> HIDE DEF current, lower, upper
  <2>5. LET liquidity == GetLiquidityForAmounts(current, lower, upper, input.amount0, input.amount1)
            paid == AmountsForLiquidity(current, lower, upper, liquidity, TRUE)
        IN  paid[1] <= input.amount0 /\ paid[2] <= input.amount1
    BY <2>3, <2>4, DepositFits
  <2>6. QED
    BY <2>5 DEF DepositFitsAmounts, current, lower, upper
<1>2. DepositFitsAmounts /\ [Next]_input => DepositFitsAmounts'
  BY Constant DEF DepositFitsAmounts
<1>3. QED
  BY <1>1, <1>2, PTL DEF Spec

\* What two deposits paid in is enough to withdraw their liquidity at once, unless the
\* fraction or the lowest price is of one or two units only.
THEOREM DepositsCoverHolds ==
    ASSUME TableAscends, One + 2 * TickToPrice(-MaxTick) <= One * TickToPrice(-MaxTick)
    PROVE  Spec => []DepositsCoverWithdrawal
<1>1. Init => DepositsCoverWithdrawal
  <2> SUFFICES ASSUME Init, input.kind = "split" PROVE DepositsCoverWithdrawal
    BY DEF DepositsCoverWithdrawal
  <2>1. input \in [kind : {"split"}, tick : Ticks, range : Ranges,
                   first : 1..MaxLiquidity, second : 1..MaxLiquidity]
    BY DEF Init
  <2> DEFINE current == TickToPrice(input.tick)
             lower == TickToPrice(input.range[1])
             upper == TickToPrice(input.range[2])
             lowest == TickToPrice(-MaxTick)
  <2>2. /\ input.tick \in Ticks /\ input.range[1] \in Ticks /\ input.range[2] \in Ticks
        /\ input.range[1] < input.range[2]
    BY <2>1 DEF Ranges
  <2>3. current \in Nat /\ lower \in Nat \ {0} /\ upper \in Nat /\ lower < upper
    BY <2>2, Ascending DEF TableAscends
  <2>4. input.first \in Nat /\ input.second \in Nat
    BY <2>1, BoundsAssumption
  <2>5. -MaxTick \in Ticks /\ -MaxTick <= input.range[1]
    BY <2>2, TickAssumption DEF Ticks
  <2>6. lowest \in Nat \ {0} /\ lowest <= lower
    <3>1. CASE -MaxTick = input.range[1]
      BY <3>1, <2>5 DEF TableAscends
    <3>2. CASE -MaxTick < input.range[1]
      BY <3>2, <2>2, <2>5, Ascending DEF TableAscends
    <3>3. QED
      BY <3>1, <3>2, <2>2, <2>5, TickAssumption DEF Ticks
  <2> HIDE DEF current, lower, upper, lowest
  <2>7. One + 2 * lower <= One * lower
    <3>1. One <= lowest * (One - 2)
      BY <2>6, OneAssumption DEF lowest
    <3>2. One - 2 \in Nat
      BY <3>1, <2>6, OneAssumption
    <3>3. lowest * (One - 2) <= lower * (One - 2)
      BY <3>2, <2>3, <2>6
    <3>4. lowest * (One - 2) \in Int /\ lower * (One - 2) \in Int
      BY <3>2, <2>3, <2>6
    <3>5. lower * (One - 2) = One * lower - 2 * lower /\ One * lower \in Int
      BY <2>3, OneAssumption
    <3>6. QED
      BY <3>1, <3>3, <3>4, <3>5, <2>3, OneAssumption
  <2>8. \A i \in {1, 2} :
          AmountsForLiquidity(current, lower, upper, input.first, TRUE)[i]
            + AmountsForLiquidity(current, lower, upper, input.second, TRUE)[i]
          >= AmountsForLiquidity(current, lower, upper, input.first + input.second, FALSE)[i]
    BY <2>3, <2>4, <2>7, DepositsCover
  <2>9. QED
    BY <2>8 DEF DepositsCoverWithdrawal, current, lower, upper
<1>2. DepositsCoverWithdrawal /\ [Next]_input => DepositsCoverWithdrawal'
  BY Constant DEF DepositsCoverWithdrawal
<1>3. QED
  BY <1>1, <1>2, PTL DEF Spec

\* An input about a swap step is between two ticks whose prices differ.
LEMMA SwapInput ==
    ASSUME TableAscends, Init, input.kind = "swap", input.from # input.to
    PROVE  /\ input.from \in Ticks /\ input.to \in Ticks
           /\ TickToPrice(input.from) \in Nat \ {0} /\ TickToPrice(input.to) \in Nat \ {0}
           /\ input.liquidity \in Nat \ {0} /\ input.amount \in Nat
           /\ input.from < input.to => TickToPrice(input.from) < TickToPrice(input.to)
           /\ input.from > input.to => TickToPrice(input.to) < TickToPrice(input.from)
<1>1. input \in [kind : {"swap"}, from : Ticks, to : Ticks,
                 liquidity : SwapLiquidities, amount : 1..MaxAmount]
  BY DEF Init
<1>2. input.from \in Ticks /\ input.to \in Ticks
  BY <1>1
<1>3. input.liquidity \in Nat \ {0} /\ input.amount \in Nat
  <2>1. input.liquidity \in SwapLiquidities /\ input.amount \in 1..MaxAmount
    BY <1>1
  <2>2. input.amount \in Nat
    BY <2>1, BoundsAssumption
  <2>3. SwapLiquidities \subseteq Nat \ {0}
    BY BoundsAssumption
  <2>4. input.liquidity \in Nat \ {0}
    BY <2>1, <2>3
  <2>5. QED
    BY <2>2, <2>4
<1>4. input.from < input.to => TickToPrice(input.from) < TickToPrice(input.to)
  BY <1>2, Ascending
<1>5. input.from > input.to => TickToPrice(input.to) < TickToPrice(input.from)
  <2>1. input.from > input.to => input.to < input.from
    BY <1>2, TickAssumption DEF Ticks
  <2>2. QED
    BY <2>1, <1>2, Ascending
<1>6. QED
  BY <1>2, <1>3, <1>4, <1>5 DEF TableAscends

\* A step of a swap stops between the current and the target price and takes no more
\* than the amount given, but for the rounding that Precise excludes.
THEOREM StepWithinBoundsHolds == ASSUME TableAscends PROVE Spec => []StepWithinBounds
<1>1. Init => StepWithinBounds
  <2> SUFFICES ASSUME Init, input.kind = "swap", input.from # input.to PROVE StepWithinBounds
    BY DEF StepWithinBounds
  <2> DEFINE from == TickToPrice(input.from)
             to == TickToPrice(input.to)
  <2>1. /\ from \in Nat \ {0} /\ to \in Nat \ {0}
        /\ input.liquidity \in Nat \ {0} /\ input.amount \in Nat
    BY SwapInput
  <2>2. from < to \/ to < from
    <3>1. input.from < input.to \/ input.from > input.to
      BY SwapInput, TickAssumption DEF Ticks
    <3>2. QED
      BY <3>1, SwapInput
  <2>3. Step = StepIn(from, to, input.liquidity, input.amount)
    BY DEF Step, StepIn
  <2> HIDE DEF from, to
  <2>4. CASE from < to
    <3>1. from <= Step.price /\ Step.price <= to /\ Step.amountIn <= input.amount
      BY <2>1, <2>3, <2>4, StepUp
    <3>2. ~(from > to)
      BY <2>1, <2>4
    <3>3. QED
      BY <3>1, <3>2 DEF StepWithinBounds, from, to
  <2>5. CASE to < from
    <3>1. /\ to <= Step.price /\ Step.price <= from
          /\ Precise(from, input.liquidity, input.amount) => Step.amountIn <= input.amount
      <4>1. from \in Nat /\ to <= from
        BY <2>1, <2>5
      <4>2. QED
        BY <4>1, <2>1, <2>3, StepDown DEF Precise
    <3>2. from > to
      BY <2>1, <2>5
    <3>3. QED
      BY <3>1, <3>2 DEF StepWithinBounds, from, to
  <2>6. QED
    BY <2>2, <2>4, <2>5
<1>2. StepWithinBounds /\ [Next]_input => StepWithinBounds'
  BY Constant DEF StepWithinBounds, Step
<1>3. QED
  BY <1>1, <1>2, PTL DEF Spec

\* Swapping the output of such a step back returns no more than was paid in.
THEOREM NoProfitHolds == ASSUME TableAscends PROVE Spec => []NoProfitFromRoundTrip
<1>1. Init => NoProfitFromRoundTrip
  <2> SUFFICES ASSUME Init, input.kind = "swap", input.from # input.to PROVE NoProfitFromRoundTrip
    BY DEF NoProfitFromRoundTrip
  <2> DEFINE from == TickToPrice(input.from)
             to == TickToPrice(input.to)
  <2>1. /\ from \in Nat \ {0} /\ to \in Nat \ {0}
        /\ input.liquidity \in Nat \ {0} /\ input.amount \in Nat
    BY SwapInput
  <2>2. Step = SwapWithin(from, to, input.liquidity, input.amount, TRUE)
    BY DEF Step
  <2> HIDE DEF from, to
  <2>3. SwapWithin(Step.price, from, input.liquidity, Step.amountOut, TRUE).amountOut <= Step.amountIn
    BY <2>1, <2>2, NoProfit
  <2>4. QED
    BY <2>3 DEF NoProfitFromRoundTrip, from
<1>2. NoProfitFromRoundTrip /\ [Next]_input => NoProfitFromRoundTrip'
  BY Constant DEF NoProfitFromRoundTrip, Step
<1>3. QED
  BY <1>1, <1>2, PTL DEF Spec

-----------------------------------------------------------------------------
(* The pools of a token *)

\* Two keys, compared part by part.
LEMMA KeysCompared ==
    ASSUME NEW p \in Nat \X Nat \X Nat, NEW q \in Nat \X Nat \X Nat
    PROVE  Before(p, q) <=> \/ p[1] < q[1]
                            \/ p[1] = q[1] /\ p[2] < q[2]
                            \/ p[1] = q[1] /\ p[2] = q[2] /\ p[3] < q[3]
<1>1. /\ DOMAIN p = 1..3 /\ p[1] \in Nat /\ p[2] \in Nat /\ p[3] \in Nat
      /\ q[1] \in Nat /\ q[2] \in Nat /\ q[3] \in Nat
  OBVIOUS
<1>2. 1..3 = {1, 2, 3} /\ 1..(1 - 1) = {} /\ 1..(2 - 1) = {1} /\ 1..(3 - 1) = {1, 2}
  OBVIOUS
<1>3. Before(p, q) <=> \E i \in {1, 2, 3} : p[i] < q[i] /\ \A j \in 1..(i - 1) : p[j] = q[j]
  BY <1>1, <1>2 DEF Before
<1>4. QED
  BY <1>1, <1>2, <1>3

\* Keys are in a strict order, and any two of them are.
LEMMA KeysOrdered ==
    ASSUME NEW S \in SUBSET (Nat \X Nat \X Nat)
    PROVE  /\ \A p \in S : ~Before(p, p)
           /\ \A p, q, r \in S : Before(p, q) /\ Before(q, r) => Before(p, r)
           /\ \A p, q \in S : p # q => Before(p, q) \/ Before(q, p)
<1> DEFINE K == Nat \X Nat \X Nat
           Less(p, q) == \/ p[1] < q[1]
                         \/ p[1] = q[1] /\ p[2] < q[2]
                         \/ p[1] = q[1] /\ p[2] = q[2] /\ p[3] < q[3]
<1>1. \A p, q \in K : Before(p, q) <=> Less(p, q)
  BY KeysCompared
<1>2. \A p \in K : p[1] \in Nat /\ p[2] \in Nat /\ p[3] \in Nat /\ p = <<p[1], p[2], p[3]>>
  OBVIOUS
<1>3. \A p \in K : ~Less(p, p)
  BY <1>2
<1>4. ASSUME NEW p \in K, NEW q \in K, NEW r \in K, Less(p, q), Less(q, r) PROVE Less(p, r)
  BY <1>2, <1>4
<1>5. ASSUME NEW p \in K, NEW q \in K, p # q PROVE Less(p, q) \/ Less(q, p)
  <2>1. p[1] # q[1] \/ p[2] # q[2] \/ p[3] # q[3]
    BY <1>2, <1>5
  <2>2. QED
    BY <1>2, <2>1
<1>6. S \subseteq K
  OBVIOUS
<1> HIDE DEF K, Less
<1>7. QED
  BY <1>1, <1>3, <1>4, <1>5, <1>6

\* How many pools are before one.
Earlier(S, p) == {q \in S : Before(q, p)}

\* All pools are listed, each once.
LEMMA PoolsListed ==
    ASSUME NEW S \in SUBSET (Nat \X Nat \X Nat), IsFiniteSet(S)
    PROVE  /\ DOMAIN AllPoolIDs(S) = 1..Cardinality(S) /\ Cardinality(S) \in Nat
           /\ \A i \in 1..Cardinality(S) : AllPoolIDs(S)[i] \in S
           /\ \A p \in S : \E i \in 1..Cardinality(S) : AllPoolIDs(S)[i] = p
<1> DEFINE D == 1..Cardinality(S)
           place == [p \in S |-> Cardinality(Earlier(S, p)) + 1]
           at(i) == CHOOSE p \in S : Cardinality(Earlier(S, p)) = i - 1
<1>1. IsFiniteSet(D) /\ Cardinality(D) = Cardinality(S) /\ Cardinality(S) \in Nat
  <2>1. Cardinality(S) \in Nat
    BY FS_CardinalityType
  <2>2. ASSUME NEW n \in Nat PROVE IsFiniteSet(1..n) /\ Cardinality(1..n) = n
    BY FS_Interval
  <2>3. QED
    BY <2>1, <2>2
<1>2. ASSUME NEW p \in S
      PROVE  /\ Earlier(S, p) \in SUBSET S /\ p \notin Earlier(S, p) /\ IsFiniteSet(Earlier(S, p))
             /\ Cardinality(Earlier(S, p)) \in Nat /\ Cardinality(Earlier(S, p)) < Cardinality(S)
  <2>1. Earlier(S, p) \in SUBSET S /\ p \notin Earlier(S, p)
    BY KeysOrdered DEF Earlier
  <2>2. /\ IsFiniteSet(Earlier(S, p)) /\ Earlier(S, p) # S
        /\ Cardinality(Earlier(S, p)) <= Cardinality(S)
        /\ Cardinality(Earlier(S, p)) # Cardinality(S)
    BY <2>1, FS_Subset
  <2>3. Cardinality(Earlier(S, p)) \in Nat
    BY <2>2, FS_CardinalityType
  <2>4. QED
    BY <1>1, <2>1, <2>2, <2>3
<1>3. ASSUME NEW p \in S, NEW q \in S, Before(p, q) PROVE place[p] # place[q]
  <2>1. Earlier(S, p) \in SUBSET Earlier(S, q)
    BY <1>3, KeysOrdered DEF Earlier
  <2>2. p \in Earlier(S, q) /\ p \notin Earlier(S, p)
    BY <1>2, <1>3 DEF Earlier
  <2>3. Cardinality(Earlier(S, p)) # Cardinality(Earlier(S, q))
    BY <1>2, <2>1, <2>2, FS_Subset
  <2>4. QED
    BY <1>2, <2>3
<1>4. place \in Injection(S, D)
  <2>1. place \in [S -> D]
    BY <1>1, <1>2
  <2>2. \A p, q \in S : place[p] = place[q] => p = q
    <3> HIDE DEF place
    <3>1. QED
      BY <1>3, KeysOrdered
  <2> HIDE DEF place
  <2>3. QED
    BY <2>1, <2>2, Zenon DEF Injection, IsInjective
<1>5. place \in Surjection(S, D)
  <2> HIDE DEF place, D
  <2>1. QED
    BY <1>1, <1>4, FS_Injection
<1>6. \A i \in D : \E p \in S : place[p] = i
  <2> HIDE DEF place
  <2>1. QED
    BY <1>5, Zenon DEF Surjection
<1>7. \A i \in D : at(i) \in S /\ Cardinality(Earlier(S, at(i))) = i - 1
  <2> SUFFICES ASSUME NEW i \in D PROVE \E p \in S : Cardinality(Earlier(S, p)) = i - 1
    OBVIOUS
  <2>1. PICK p \in S : place[p] = i
    BY <1>6
  <2>2. QED
    BY <1>2, <2>1
<1>8. AllPoolIDs(S) = [i \in D |-> at(i)]
  BY DEF AllPoolIDs, Earlier
<1> HIDE DEF at
<1>9. ASSUME NEW p \in S PROVE place[p] \in D /\ at(place[p]) = p
  <2>1. place[p] \in D /\ \A q \in S : place[q] = place[p] => q = p
    <3> HIDE DEF place
    <3>1. QED
      BY <1>4, Zenon DEF Injection, IsInjective
  <2>2. place[at(place[p])] = place[p]
    BY <1>2, <1>7, <2>1
  <2>3. QED
    BY <1>7, <2>1, <2>2
<1> HIDE DEF place
<1>10. QED
  BY <1>1, <1>7, <1>8, <1>9

\* A pool leads from one of its tokens to the other.
Joins(p, v, w) ==
    \/ Token0(p) = v /\ Token1(p) = w
    \/ Token1(p) = v /\ Token0(p) = w

\* The pools are keys of two tokens, and there are finitely many.
LEMMA PoolsAre ==
    /\ IsFiniteSet(AllPools)
    /\ \A p \in AllPools : /\ Token0(p) \in Tokens /\ Token1(p) \in Tokens
                           /\ p \in Nat \X Nat \X Nat /\ \A t : p # <<t>>
<1> DEFINE pairs == {p \in Tokens \X Tokens : p[1] < p[2]}
           id == [p \in pairs |-> <<p[1], p[2], 1 * TierByte>>]
<1>1. IsFiniteSet(pairs)
  <2>1. IsFiniteSet(Tokens \X Tokens)
    BY BoundsAssumption, FS_Product
  <2>2. pairs \in SUBSET (Tokens \X Tokens)
    OBVIOUS
  <2> HIDE DEF pairs
  <2>3. QED
    BY <2>1, <2>2, FS_Subset
<1>2. AllPools = UNION {PoolIDs(p[1], p[2], 1) : p \in pairs}
  BY DEF AllPools
<1>3. \A p \in pairs : /\ p[1] \in Tokens /\ p[2] \in Tokens
                       /\ PoolIDs(p[1], p[2], 1) = {<<p[1], p[2], 1 * TierByte>>}
  BY DEF PoolIDs, MaxInt8
<1> HIDE DEF pairs
<1>4. /\ \A p \in pairs : id[p] = <<p[1], p[2], 1 * TierByte>> /\ id[p] \in AllPools
      /\ \A a \in AllPools : \E p \in pairs : id[p] = a
  BY <1>2, <1>3
<1>5. id \in Surjection(pairs, AllPools)
  <2>1. id \in [pairs -> AllPools]
    BY <1>4
  <2> HIDE DEF id
  <2>2. QED
    BY <1>4, <2>1, Zenon DEF Surjection
<1>6. IsFiniteSet(AllPools)
  <2> HIDE DEF id
  <2>1. QED
    BY <1>1, <1>5, FS_Surjection
<1>7. ASSUME NEW p \in AllPools
      PROVE  /\ Token0(p) \in Tokens /\ Token1(p) \in Tokens
             /\ p \in Nat \X Nat \X Nat /\ \A t : p # <<t>>
  <2>1. PICK t \in Tokens, u \in Tokens : p = <<t, u, 1 * TierByte>>
    BY <1>3, <1>4
  <2>2. t \in Nat /\ u \in Nat /\ TierByte \in Nat
    BY BoundsAssumption, StoresAssumption
  <2>3. 1 * TierByte \in Nat
    BY <2>2
  <2>4. p \in Nat \X Nat \X Nat
    BY <2>1, <2>2, <2>3
  <2>5. Len(p) = 3
    BY <2>1
  <2>6. \A v : Len(<<v>>) = 1
    OBVIOUS
  <2>7. \A v : p # <<v>>
    BY <2>5, <2>6
  <2>8. QED
    BY <2>1, <2>4, <2>7 DEF Token0, Token1
<1>8. QED
  BY <1>6, <1>7

\* The pools of a token are all found, each with the token it leads to.
LEMMA AdjacentAre ==
    ASSUME NEW pools \in SUBSET AllPools, NEW v
    PROVE  LET adjacent == GetAdjacent(pools, v)
           IN  /\ Len(adjacent) = Cardinality(PoolsOf(pools, v)) /\ Len(adjacent) \in Nat
               /\ DOMAIN adjacent = 1..Len(adjacent)
               /\ \A i \in DOMAIN adjacent : /\ adjacent[i].edge \in pools
                                             /\ adjacent[i].vertex \in Tokens
                                             /\ Joins(adjacent[i].edge, v, adjacent[i].vertex)
               /\ \A p \in pools, w \in Tokens : Joins(p, v, w) =>
                    \E i \in DOMAIN adjacent : adjacent[i].vertex = w
<1> DEFINE S == PoolsOf(pools, v)
           edges == AllPoolIDs(S)
           end(p) == IF Token0(p) = v THEN Token1(p) ELSE Token0(p)
           adjacent == GetAdjacent(pools, v)
<1>1. /\ S \in SUBSET AllPools /\ S \subseteq pools
      /\ S \in SUBSET (Nat \X Nat \X Nat) /\ IsFiniteSet(S)
  <2>1. S \in SUBSET AllPools /\ S \subseteq pools
    BY DEF PoolsOf
  <2>2. QED
    BY <2>1, PoolsAre, FS_Subset
<1>2. /\ DOMAIN edges = 1..Cardinality(S) /\ Cardinality(S) \in Nat
      /\ \A i \in 1..Cardinality(S) : edges[i] \in S
      /\ \A p \in S : \E i \in 1..Cardinality(S) : edges[i] = p
  <2> HIDE DEF S
  <2>1. QED
    BY <1>1, PoolsListed
<1>3. \A p \in pools, w \in Tokens : Joins(p, v, w) => p \in S /\ w = end(p)
  BY DEF Joins, PoolsOf
<1>4. \A p \in S : Joins(p, v, end(p)) /\ end(p) \in Tokens
  BY <1>1, PoolsAre DEF Joins, PoolsOf
<1>5. adjacent = [i \in DOMAIN edges |-> [edge |-> edges[i], vertex |-> end(edges[i])]]
  BY DEF GetAdjacent
<1> HIDE DEF S, edges, end
<1>6. Len(adjacent) = Cardinality(S) /\ DOMAIN adjacent = 1..Cardinality(S)
  BY <1>2, <1>5
<1>7. \A i \in 1..Cardinality(S) : adjacent[i].edge = edges[i] /\ adjacent[i].vertex = end(edges[i])
  BY <1>2, <1>5
<1> HIDE DEF adjacent
<1>8. \A i \in 1..Cardinality(S) : /\ adjacent[i].edge \in pools /\ adjacent[i].vertex \in Tokens
                                   /\ Joins(adjacent[i].edge, v, adjacent[i].vertex)
  BY <1>1, <1>2, <1>4, <1>7
<1>9. \A p \in pools, w \in Tokens : Joins(p, v, w) =>
        \E i \in 1..Cardinality(S) : adjacent[i].vertex = w
  BY <1>2, <1>3, <1>7
<1>10. QED
  BY <1>2, <1>6, <1>8, <1>9 DEF adjacent, S

\* No pool is found under a token alone.
LEMMA NoRegularRoute ==
    ASSUME NEW pools \in SUBSET AllPools, NEW a, NEW b
    PROVE  ComputeRegularRoute(pools, a, b) = <<>>
<1>1. ASSUME NEW v, NEW t PROVE ~IsEdge(GetAdjacent(pools, v), <<t>>)
  <2> DEFINE adjacent == GetAdjacent(pools, v)
  <2>1. \A i \in DOMAIN adjacent : adjacent[i].edge \in pools
    BY AdjacentAre
  <2>2. \A p \in pools : p # <<t>>
    BY PoolsAre
  <2> HIDE DEF adjacent
  <2>3. ~IsEdge(adjacent, <<t>>)
    BY <2>1, <2>2 DEF IsEdge
  <2>4. QED
    BY <2>3 DEF adjacent
<1>2. QED
  BY <1>1, Zenon DEF ComputeRegularRoute

-----------------------------------------------------------------------------
(* Connected tokens *)

\* A token is connected to itself and, with a token, to what the pools of that one lead to;
\* more pools connect more.
LEMMA Connections ==
    ASSUME NEW pools \in SUBSET AllPools, NEW a \in Tokens
    PROVE  /\ Connected(pools, a, a)
           /\ \A v, w, p : Connected(pools, a, v) /\ p \in pools /\ Joins(p, v, w) =>
                Connected(pools, a, w)
           /\ \A some, v : some \subseteq pools /\ Connected(some, a, v) => Connected(pools, a, v)
<1>1. Connected(pools, a, a)
  BY DEF Connected
<1>2. ASSUME NEW v, NEW w, NEW p, Connected(pools, a, v), p \in pools, Joins(p, v, w)
      PROVE  Connected(pools, a, w)
  BY <1>2 DEF Connected, Joins
<1>3. ASSUME NEW some, NEW v, some \subseteq pools, Connected(some, a, v)
      PROVE  Connected(pools, a, v)
  BY <1>3 DEF Connected
<1>4. QED
  BY <1>1, <1>2, <1>3

-----------------------------------------------------------------------------
(* The turns of a search *)

\* The searches after 0 to MaxTurns turns.
NextSearch(pools, b, search) == IF Ended(search) THEN search ELSE Turn(pools, b, search)

IsSearchTo(f, pools, a, b, last) ==
    f = [n \in 0..last |-> IF n = 0 THEN FirstSearch(a) ELSE NextSearch(pools, b, f[n - 1])]

\* There are such searches.
LEMMA SearchesExist ==
    ASSUME NEW pools, NEW a, NEW b
    PROVE  \A last \in Nat : \E f : IsSearchTo(f, pools, a, b, last)
<1> DEFINE S == {last \in Nat : \E f : IsSearchTo(f, pools, a, b, last)}
<1>1. 0 \in S
  <2> DEFINE f == [n \in 0..0 |-> FirstSearch(a)]
  <2>1. \A n \in 0..0 : f[n] = IF n = 0 THEN FirstSearch(a) ELSE NextSearch(pools, b, f[n - 1])
    OBVIOUS
  <2>2. IsSearchTo(f, pools, a, b, 0)
    BY <2>1, Zenon DEF IsSearchTo
  <2>3. QED
    BY <2>2
<1>2. ASSUME NEW last \in S PROVE last + 1 \in S
  <2>1. PICK f : IsSearchTo(f, pools, a, b, last)
    OBVIOUS
  <2> DEFINE g == [n \in 0..(last + 1) |->
                     IF n = last + 1 THEN NextSearch(pools, b, f[last]) ELSE f[n]]
  <2>2. \A n \in 0..last : f[n] = IF n = 0 THEN FirstSearch(a) ELSE NextSearch(pools, b, f[n - 1])
    BY <2>1, Zenon DEF IsSearchTo
  <2>3. \A n \in 0..(last + 1) :
          g[n] = IF n = 0 THEN FirstSearch(a) ELSE NextSearch(pools, b, g[n - 1])
    <3>1. SUFFICES ASSUME NEW n \in 0..(last + 1)
                   PROVE  g[n] = IF n = 0 THEN FirstSearch(a) ELSE NextSearch(pools, b, g[n - 1])
      BY Zenon
    <3>2. CASE n = last + 1
      <4>1. g[n] = NextSearch(pools, b, f[last]) /\ n # 0 /\ g[n - 1] = f[last]
        BY <3>2
      <4>2. QED
        BY <4>1, Zenon
    <3>3. CASE n # last + 1
      <4>1. n \in 0..last /\ g[n] = f[n] /\ (n # 0 => g[n - 1] = f[n - 1])
        BY <3>3
      <4>2. QED
        BY <2>2, <4>1, Zenon
    <3>4. QED
      BY <3>2, <3>3
  <2>4. IsSearchTo(g, pools, a, b, last + 1)
    BY <2>3, Zenon DEF IsSearchTo
  <2>5. QED
    BY <2>4
<1>3. S = Nat
  <2> HIDE DEF S
  <2>1. S \in SUBSET Nat
    BY DEF S
  <2>2. QED
    BY <1>1, <1>2, <2>1, SetOfAllNaturals
<1>4. QED
  BY <1>3

\* The search is what MaxTurns turns end with.
LEMMA SearchIs ==
    ASSUME NEW pools, NEW a, NEW b
    PROVE  \E f : /\ f[0] = FirstSearch(a)
                  /\ \A n \in 1..MaxTurns : f[n] = NextSearch(pools, b, f[n - 1])
                  /\ ExceptionalSearch(pools, a, b) = f[MaxTurns]
<1> DEFINE F(f) == f = [n \in 0..MaxTurns |->
                          IF n = 0 THEN FirstSearch(a)
                          ELSE IF Ended(f[n - 1]) THEN f[n - 1] ELSE Turn(pools, b, f[n - 1])]
<1>1. \A f : F(f) <=> IsSearchTo(f, pools, a, b, MaxTurns)
  BY Zenon DEF IsSearchTo, NextSearch
<1>2. \E f : F(f)
  <2> HIDE DEF F
  <2>1. \E f : IsSearchTo(f, pools, a, b, MaxTurns)
    BY SearchesExist, TurnsAssumption
  <2>2. QED
    BY <1>1, <2>1
<1>3. F(CHOOSE f : F(f))
  <2> HIDE DEF F
  <2>1. QED
    BY <1>2
<1>4. ExceptionalSearch(pools, a, b) = (CHOOSE f : F(f))[MaxTurns]
  BY Zenon DEF ExceptionalSearch
<1> DEFINE f == CHOOSE f : F(f)
<1>5. IsSearchTo(f, pools, a, b, MaxTurns)
  BY <1>1, <1>3, Zenon
<1>6. f[MaxTurns] = ExceptionalSearch(pools, a, b)
  BY <1>4
<1> HIDE DEF F, f
<1>7. \A n \in 0..MaxTurns : f[n] = IF n = 0 THEN FirstSearch(a) ELSE NextSearch(pools, b, f[n - 1])
  BY <1>5, Zenon DEF IsSearchTo
<1>8. 0 \in 0..MaxTurns /\ \A n \in 1..MaxTurns : n \in 0..MaxTurns /\ n # 0
  BY TurnsAssumption
<1>9. QED
  BY <1>6, <1>7, <1>8

Searches == [endVertices : Seq(Tokens), path : Seq(AllPools \cup {<<t>> : t \in Tokens}),
             found : BOOLEAN]

\* The tokens and the pools that are visited next.
EndsFrom(pools, v) == [i \in DOMAIN GetAdjacent(pools, v) |-> GetAdjacent(pools, v)[i].vertex]
EdgesFrom(pools, v) == [i \in DOMAIN GetAdjacent(pools, v) |-> GetAdjacent(pools, v)[i].edge]

\* All tokens that the pools of a token lead to are among them.
AllVisitedNext(pools, v) ==
    \A p \in pools, w \in Tokens : Joins(p, v, w) =>
      \E i \in 1..Len(EndsFrom(pools, v)) : EndsFrom(pools, v)[i] = w

\* A token has as many as it has pools.
LEMMA NextEnds ==
    ASSUME NEW pools \in SUBSET AllPools, NEW v
    PROVE  /\ EndsFrom(pools, v) \in Seq(Tokens) /\ EdgesFrom(pools, v) \in Seq(pools)
           /\ Len(EndsFrom(pools, v)) = Cardinality(PoolsOf(pools, v))
           /\ Len(EdgesFrom(pools, v)) = Cardinality(PoolsOf(pools, v))
           /\ \A i \in 1..Len(EndsFrom(pools, v)) :
                Joins(EdgesFrom(pools, v)[i], v, EndsFrom(pools, v)[i])
           /\ AllVisitedNext(pools, v)
<1> DEFINE adjacent == GetAdjacent(pools, v)
           n == Cardinality(PoolsOf(pools, v))
           ends == EndsFrom(pools, v)
           edges == EdgesFrom(pools, v)
<1>1. /\ Len(adjacent) = n /\ n \in Nat /\ DOMAIN adjacent = 1..n
      /\ \A i \in 1..n : /\ adjacent[i].edge \in pools /\ adjacent[i].vertex \in Tokens
                         /\ Joins(adjacent[i].edge, v, adjacent[i].vertex)
      /\ \A p \in pools, w \in Tokens : Joins(p, v, w) => \E i \in 1..n : adjacent[i].vertex = w
  <2>1. Len(adjacent) = n /\ Len(adjacent) \in Nat /\ DOMAIN adjacent = 1..Len(adjacent)
    BY AdjacentAre
  <2>2. \A i \in DOMAIN adjacent : /\ adjacent[i].edge \in pools /\ adjacent[i].vertex \in Tokens
                                    /\ Joins(adjacent[i].edge, v, adjacent[i].vertex)
    BY AdjacentAre
  <2>3. \A p \in pools, w \in Tokens : Joins(p, v, w) =>
          \E i \in DOMAIN adjacent : adjacent[i].vertex = w
    BY AdjacentAre
  <2> HIDE DEF adjacent, n
  <2>4. n \in Nat /\ DOMAIN adjacent = 1..n
    BY <2>1
  <2>5. QED
    BY <2>1, <2>2, <2>3, <2>4, Zenon
<1>2. ends = [i \in 1..n |-> adjacent[i].vertex] /\ edges = [i \in 1..n |-> adjacent[i].edge]
  BY <1>1 DEF EndsFrom, EdgesFrom
<1> HIDE DEF adjacent, n, ends, edges
<1>3. ends \in Seq(Tokens) /\ edges \in Seq(pools) /\ Len(ends) = n /\ Len(edges) = n
  BY <1>1, <1>2
<1>4. \A i \in 1..n : Joins(edges[i], v, ends[i])
  BY <1>1, <1>2
<1>5. \A p \in pools, w \in Tokens : Joins(p, v, w) => \E i \in 1..n : ends[i] = w
  BY <1>1, <1>2
<1>6. QED
  BY <1>3, <1>4, <1>5 DEF n, ends, edges, AllVisitedNext

\* Each of these tokens is visited next.
LEMMA EndsFound ==
    ASSUME NEW pools \in SUBSET AllPools, NEW v, NEW p \in pools, NEW w \in Tokens, Joins(p, v, w)
    PROVE  \E i \in 1..Len(EndsFrom(pools, v)) : EndsFrom(pools, v)[i] = w
<1>1. AllVisitedNext(pools, v)
  BY NextEnds
<1>2. QED
  BY <1>1 DEF AllVisitedNext

\* A turn finds the token or visits what the first token in the queue leads to.
AfterTurn(pools, b, s) ==
    IF Head(s.endVertices) = b
    THEN [endVertices |-> s.endVertices, path |-> Append(s.path, <<b>>), found |-> TRUE]
    ELSE [endVertices |-> Tail(s.endVertices) \o EndsFrom(pools, Head(s.endVertices)),
          path |-> s.path \o EdgesFrom(pools, Head(s.endVertices)), found |-> s.found]

\* Turn is that, written as the records it yields.
LEMMA TurnIs ==
    ASSUME NEW pools \in SUBSET AllPools, NEW b, NEW s \in Searches
    PROVE  Turn(pools, b, s) = AfterTurn(pools, b, s)
<1>1. s = [endVertices |-> s.endVertices, path |-> s.path, found |-> s.found]
  BY DEF Searches
<1>2. ASSUME NEW e, NEW p
      PROVE  /\ [s EXCEPT !.found = TRUE, !.path = p] =
                  [endVertices |-> s.endVertices, path |-> p, found |-> TRUE]
             /\ [s EXCEPT !.endVertices = e, !.path = p] =
                  [endVertices |-> e, path |-> p, found |-> s.found]
  <2> DEFINE R == [endVertices : {s.endVertices, e}, path : {s.path, p}, found : {s.found, TRUE}]
             t == [s EXCEPT !.found = TRUE, !.path = p]
             u == [s EXCEPT !.endVertices = e, !.path = p]
  <2>1. s \in R
    BY <1>1
  <2>2. t \in R /\ t.endVertices = s.endVertices /\ t.path = p /\ t.found = TRUE
    BY <2>1
  <2>3. u \in R /\ u.endVertices = e /\ u.path = p /\ u.found = s.found
    BY <2>1
  <2>4. \A r \in R : r = [endVertices |-> r.endVertices, path |-> r.path, found |-> r.found]
    OBVIOUS
  <2> HIDE DEF R, t, u
  <2>5. t = [endVertices |-> s.endVertices, path |-> p, found |-> TRUE]
    BY <2>2, <2>4
  <2>6. u = [endVertices |-> e, path |-> p, found |-> s.found]
    BY <2>3, <2>4
  <2>7. QED
    BY <2>5, <2>6 DEF t, u
<1>3. CASE Head(s.endVertices) = b
  <2>1. Turn(pools, b, s) = [s EXCEPT !.found = TRUE, !.path = Append(s.path, <<b>>)]
    BY <1>3, Zenon DEF Turn
  <2>2. QED
    BY <1>2, <1>3, <2>1 DEF AfterTurn
<1>4. CASE Head(s.endVertices) # b
  <2>1. Turn(pools, b, s) =
          [s EXCEPT !.endVertices = Tail(s.endVertices) \o EndsFrom(pools, Head(s.endVertices)),
                    !.path = s.path \o EdgesFrom(pools, Head(s.endVertices))]
    BY <1>4, Zenon DEF Turn, EndsFrom, EdgesFrom
  <2>2. QED
    BY <1>2, <1>4, <2>1 DEF AfterTurn
<1>5. QED
  BY <1>3, <1>4

\* The tokens in the queue are connected by the pools of the path, and at the end so is
\* the token that was asked for.
SearchInv(pools, a, b, s) ==
    /\ s \in Searches
    /\ ~s.found => /\ s.path \in Seq(pools)
                   /\ \A i \in 1..Len(s.endVertices) : Connected(Range(s.path), a, s.endVertices[i])
    /\ s.found => /\ s.path # <<>> /\ Last(s.path) = <<b>> /\ Front(s.path) \in Seq(pools)
                  /\ Connected(Range(Front(s.path)), a, b)

\* The pools of a path are pools, and two paths have the pools of both.
LEMMA PathsJoined ==
    ASSUME NEW S, NEW p \in Seq(S), NEW q \in Seq(S)
    PROVE  /\ Range(p) \subseteq S /\ p \o q \in Seq(S)
           /\ Range(p) \subseteq Range(p \o q)
           /\ \A i \in 1..Len(q) : q[i] \in Range(p \o q)
<1>1. /\ Len(p) \in Nat /\ Len(q) \in Nat /\ DOMAIN p = 1..Len(p) /\ p \o q \in Seq(S)
      /\ DOMAIN (p \o q) = 1..(Len(p) + Len(q))
      /\ \A i \in 1..Len(p) : p[i] \in S
  OBVIOUS
<1>2. /\ \A i \in 1..Len(p) : i \in DOMAIN (p \o q) /\ (p \o q)[i] = p[i]
      /\ \A i \in 1..Len(q) : Len(p) + i \in DOMAIN (p \o q) /\ (p \o q)[Len(p) + i] = q[i]
  BY <1>1
<1>3. QED
  BY <1>1, <1>2 DEF Range

\* A turn keeps what holds of the search.
LEMMA TurnKeeps ==
    ASSUME NEW pools \in SUBSET AllPools, NEW a \in Tokens, NEW b \in Tokens, NEW s,
           SearchInv(pools, a, b, s)
    PROVE  SearchInv(pools, a, b, NextSearch(pools, b, s))
<1> DEFINE t == NextSearch(pools, b, s)
           v == Head(s.endVertices)
           ends == EndsFrom(pools, v)
           edges == EdgesFrom(pools, v)
           Paths == AllPools \cup {<<u>> : u \in Tokens}
<1>1. CASE Ended(s)
  BY <1>1, Zenon DEF NextSearch
<1>2. CASE ~Ended(s)
  <2>1. /\ s \in Searches /\ s.endVertices \in Seq(Tokens)
        /\ s.path \in Seq(pools) /\ s.path \in Seq(Paths)
        /\ s.found = FALSE /\ s.endVertices # <<>>
        /\ \A i \in 1..Len(s.endVertices) : Connected(Range(s.path), a, s.endVertices[i])
    BY <1>2 DEF SearchInv, Ended, Searches
  <2>2. t = IF v = b
            THEN [endVertices |-> s.endVertices, path |-> Append(s.path, <<b>>), found |-> TRUE]
            ELSE [endVertices |-> Tail(s.endVertices) \o ends, path |-> s.path \o edges,
                  found |-> s.found]
    <3>1. t = Turn(pools, b, s) /\ s \in Searches
      BY <1>2, <2>1, Zenon DEF NextSearch
    <3>2. t = AfterTurn(pools, b, s)
      <4> HIDE DEF t
      <4>1. QED
        BY <3>1, TurnIs
    <3>3. QED
      BY <3>2, Zenon DEF AfterTurn
  <2>3. v = s.endVertices[1] /\ 1 \in 1..Len(s.endVertices) /\ v \in Tokens
    BY <2>1
  <2>4. CASE v = b
    <3>1. /\ t.endVertices = s.endVertices /\ t.path = Append(s.path, <<b>>) /\ t.found = TRUE
          /\ t = [endVertices |-> t.endVertices, path |-> t.path, found |-> t.found]
      BY <2>2, <2>4
    <3>2. Front(t.path) = s.path /\ Last(t.path) = <<b>> /\ t.path # <<>> /\ t.path \in Seq(Paths)
      BY <2>1, <3>1 DEF Front, Last
    <3>3. t \in Searches
      BY <2>1, <3>1, <3>2 DEF Searches
    <3>4. QED
      BY <2>1, <2>3, <2>4, <3>1, <3>2, <3>3 DEF SearchInv
  <2>5. CASE v # b
    <3>1. /\ t.endVertices = Tail(s.endVertices) \o ends /\ t.path = s.path \o edges
          /\ t.found = FALSE
          /\ t = [endVertices |-> t.endVertices, path |-> t.path, found |-> t.found]
      <4> HIDE DEF t, v, ends, edges
      <4>1. QED
        BY <2>1, <2>2, <2>5
    <3>2. /\ ends \in Seq(Tokens) /\ edges \in Seq(pools) /\ Len(edges) = Len(ends)
          /\ \A i \in 1..Len(ends) : Joins(edges[i], v, ends[i])
      BY NextEnds
    <3> HIDE DEF t, v, ends, edges
    <3>3. /\ t.path \in Seq(pools) /\ Range(t.path) \subseteq pools
          /\ Range(s.path) \subseteq Range(t.path)
          /\ \A i \in 1..Len(edges) : edges[i] \in Range(t.path)
      <4> DEFINE p == s.path
      <4>1. p \in Seq(pools) /\ edges \in Seq(pools) /\ t.path = p \o edges
        BY <2>1, <3>1, <3>2
      <4> HIDE DEF p
      <4>2. /\ t.path \in Seq(pools) /\ Range(p) \subseteq Range(t.path)
            /\ \A i \in 1..Len(edges) : edges[i] \in Range(t.path)
        BY <4>1, PathsJoined
      <4>3. Range(t.path) \subseteq pools
        BY <4>2, PathsJoined
      <4>4. QED
        BY <4>2, <4>3 DEF p
    <3>4. t.endVertices \in Seq(Tokens) /\ t.path \in Seq(Paths)
      BY <2>1, <3>1, <3>2, <3>3
    <3>5. Range(t.path) \in SUBSET AllPools
      BY <3>3
    <3>6. \A i \in 1..Len(s.endVertices) : Connected(Range(t.path), a, s.endVertices[i])
      BY <2>1, <3>3, <3>5, Connections
    <3>7. \A i \in 1..Len(ends) : Connected(Range(t.path), a, ends[i])
      BY <2>3, <3>2, <3>3, <3>5, <3>6, Connections
    <3>8. \A i \in 1..Len(t.endVertices) :
            \/ \E j \in 1..Len(s.endVertices) : t.endVertices[i] = s.endVertices[j]
            \/ \E j \in 1..Len(ends) : t.endVertices[i] = ends[j]
      <4> DEFINE q == s.endVertices
      <4>1. q \in Seq(Tokens) /\ q # <<>> /\ ends \in Seq(Tokens) /\ t.endVertices = Tail(q) \o ends
        BY <2>1, <3>1, <3>2
      <4> HIDE DEF q
      <4>2. /\ Len(q) \in Nat \ {0} /\ Len(ends) \in Nat
            /\ Tail(q) \in Seq(Tokens) /\ Len(Tail(q)) = Len(q) - 1
            /\ \A i \in 1..(Len(q) - 1) : Tail(q)[i] = q[i + 1]
        BY <4>1
      <4>3. /\ Len(t.endVertices) = Len(q) - 1 + Len(ends)
            /\ \A i \in 1..Len(t.endVertices) :
                 t.endVertices[i] = IF i <= Len(q) - 1 THEN Tail(q)[i] ELSE ends[i - (Len(q) - 1)]
        BY <4>1, <4>2
      <4> SUFFICES ASSUME NEW i \in 1..Len(t.endVertices)
                   PROVE  \/ \E j \in 1..Len(q) : t.endVertices[i] = q[j]
                          \/ \E j \in 1..Len(ends) : t.endVertices[i] = ends[j]
        BY DEF q
      <4>4. CASE i <= Len(q) - 1
        <5>1. i + 1 \in 1..Len(q) /\ t.endVertices[i] = q[i + 1]
          BY <4>2, <4>3, <4>4
        <5>2. QED
          BY <5>1
      <4>5. CASE ~(i <= Len(q) - 1)
        <5>1. i - (Len(q) - 1) \in 1..Len(ends) /\ t.endVertices[i] = ends[i - (Len(q) - 1)]
          BY <4>2, <4>3, <4>5
        <5>2. QED
          BY <5>1
      <4>6. QED
        BY <4>4, <4>5
    <3>9. t \in Searches
      BY <3>1, <3>4 DEF Searches
    <3>10. SearchInv(pools, a, b, t)
      BY <3>1, <3>3, <3>6, <3>7, <3>8, <3>9 DEF SearchInv
    <3>11. QED
      BY <3>10 DEF t
  <2>6. QED
    BY <2>4, <2>5
<1>3. QED
  BY <1>1, <1>2

-----------------------------------------------------------------------------
(* The queue of a search that does not find the token *)

IsQueue(q, pools, a, b) ==
    /\ q[0] = <<a>>
    /\ \A n \in 0..MaxTurns : q[n] \in Seq(Tokens)
    /\ \A n \in 0..(MaxTurns - 1) :
         /\ q[n] = <<>> => q[n + 1] = <<>>
         /\ q[n] # <<>> => /\ Head(q[n]) # b
                           /\ q[n + 1] = Tail(q[n]) \o EndsFrom(pools, Head(q[n]))

\* Where the tokens of the queue are after a turn.
QueueTurn(q, pools, b, n) ==
    /\ Len(q[n]) - 1 \in Nat /\ q[n][1] \in Tokens /\ q[n][1] = Head(q[n]) /\ q[n][1] # b
    /\ Len(q[n + 1]) = Len(q[n]) - 1 + Len(EndsFrom(pools, q[n][1]))
    /\ \A i \in 1..(Len(q[n]) - 1) : q[n + 1][i] = q[n][i + 1]
    /\ \A i \in 1..Len(EndsFrom(pools, q[n][1])) :
         q[n + 1][Len(q[n]) - 1 + i] = EndsFrom(pools, q[n][1])[i]

\* The first token leaves the queue, and those it leads to are added at its end.
LEMMA QueueTurns ==
    ASSUME NEW pools \in SUBSET AllPools, NEW a, NEW b, NEW q, IsQueue(q, pools, a, b),
           NEW n \in 0..(MaxTurns - 1), q[n] # <<>>
    PROVE  QueueTurn(q, pools, b, n)
<1> DEFINE s == q[n]
           t == q[n + 1]
           v == s[1]
           e == EndsFrom(pools, v)
<1>1. n \in 0..MaxTurns
  BY TurnsAssumption
<1>2. s \in Seq(Tokens) /\ s # <<>> /\ v = Head(s)
  <2>1. s \in Seq(Tokens)
    BY <1>1 DEF IsQueue
  <2> HIDE DEF s
  <2>2. QED
    BY <2>1 DEF s
<1>3. v # b /\ t = Tail(s) \o e
  BY <1>2 DEF IsQueue
<1>4. e \in Seq(Tokens)
  BY NextEnds
<1> HIDE DEF s, t, e
<1>5. /\ Len(s) - 1 \in Nat /\ v \in Tokens /\ Len(t) = Len(s) - 1 + Len(e)
      /\ \A i \in 1..(Len(s) - 1) : t[i] = s[i + 1]
      /\ \A i \in 1..Len(e) : t[Len(s) - 1 + i] = e[i]
  <2>1. /\ Len(s) - 1 \in Nat /\ Len(e) \in Nat
        /\ Tail(s) \in Seq(Tokens) /\ Len(Tail(s)) = Len(s) - 1
        /\ \A i \in 1..(Len(s) - 1) : Tail(s)[i] = s[i + 1]
        /\ s[1] \in Tokens
    BY <1>2, <1>4
  <2> DEFINE r == Tail(s)
  <2> HIDE DEF r
  <2>2. /\ Len(r \o e) = Len(r) + Len(e)
        /\ \A i \in 1..Len(r) : (r \o e)[i] = r[i]
        /\ \A i \in 1..Len(e) : (r \o e)[Len(r) + i] = e[i]
    <3>1. r \in Seq(Tokens)
      BY <2>1 DEF r
    <3>2. QED
      BY <1>4, <3>1
  <2>3. QED
    BY <1>3, <2>1, <2>2 DEF r
<1>6. QED
  BY <1>2, <1>3, <1>5, Zenon DEF s, t, e, QueueTurn

\* Every token of the queue comes to its head, each turn by one.
Comes(q, k, i) == q[k + i] # <<>> /\ Head(q[k + i]) = q[k][i + 1]

\* This holds as long as turns are looked at.
LEMMA QueueAdvances ==
    ASSUME NEW pools \in SUBSET AllPools, NEW a, NEW b, NEW q, IsQueue(q, pools, a, b),
           NEW k \in 0..MaxTurns, NEW i \in Nat, i < Len(q[k]), k + i <= MaxTurns
    PROVE  Comes(q, k, i)
<1> DEFINE P(j) == \A c \in 0..MaxTurns : j < Len(q[c]) /\ c + j <= MaxTurns => Comes(q, c, j)
<1>1. \A c \in 0..MaxTurns : q[c] \in Seq(Tokens)
  BY DEF IsQueue
<1>2. P(0)
  <2> SUFFICES ASSUME NEW c \in 0..MaxTurns, 0 < Len(q[c]) PROVE Comes(q, c, 0)
    OBVIOUS
  <2> DEFINE s == q[c]
  <2>1. s \in Seq(Tokens) /\ 0 < Len(s)
    BY <1>1
  <2> HIDE DEF s
  <2>2. s # <<>> /\ Head(s) = s[0 + 1]
    BY <2>1
  <2>3. c + 0 = c
    OBVIOUS
  <2>4. QED
    BY <2>2, <2>3 DEF s, Comes
<1>3. ASSUME NEW j \in Nat, P(j) PROVE P(j + 1)
  <2> SUFFICES ASSUME NEW c \in 0..MaxTurns, j + 1 < Len(q[c]), c + (j + 1) <= MaxTurns
               PROVE  Comes(q, c, j + 1)
    OBVIOUS
  <2> DEFINE more == Len(EndsFrom(pools, q[c][1]))
             len == Len(q[c])
  <2>1. len \in Nat /\ q[c] # <<>> /\ more \in Nat
    <3>1. q[c] \in Seq(Tokens)
      BY <1>1
    <3>2. more \in Nat
      BY NextEnds
    <3> HIDE DEF more
    <3>3. QED
      BY <3>1, <3>2
  <2>2. c \in 0..(MaxTurns - 1) /\ c + 1 \in 0..MaxTurns
    BY TurnsAssumption
  <2>3. Len(q[c + 1]) = len - 1 + more /\ \A u \in 1..(len - 1) : q[c + 1][u] = q[c][u + 1]
    <3>1. QueueTurn(q, pools, b, c)
      BY <2>1, <2>2, QueueTurns
    <3>2. QED
      BY <3>1 DEF QueueTurn
  <2>4. j + 1 < len
    OBVIOUS
  <2>5. P(j)
    BY <1>3
  <2> HIDE DEF more, len
  <2>6. j + 1 \in 1..(len - 1) /\ j < Len(q[c + 1]) /\ (c + 1) + j <= MaxTurns
    BY <2>1, <2>2, <2>3, <2>4
  <2>7. Comes(q, c + 1, j)
    BY <2>2, <2>5, <2>6
  <2>8. (c + 1) + j = c + (j + 1) /\ q[c + 1][j + 1] = q[c][(j + 1) + 1]
    BY <2>3, <2>6
  <2>9. QED
    BY <2>7, <2>8 DEF Comes
<1> HIDE DEF P
<1>4. \A j \in Nat : P(j)
  <2> DEFINE S == {j \in Nat : P(j)}
  <2>1. S \in SUBSET Nat /\ 0 \in S /\ \A j \in S : j + 1 \in S
    BY <1>2, <1>3
  <2> HIDE DEF S
  <2>2. S = Nat
    BY <2>1, SetOfAllNaturals
  <2>3. QED
    BY <2>2 DEF S
<1>5. P(i)
  BY <1>4
<1>6. QED
  BY <1>5 DEF P

\* No token leads to more than the degree.
FewPools(degree) == \A t \in Tokens : Cardinality(PoolsOf(AllPools, t)) <= degree

\* With these pools a token leads to no more than the degree.
LEMMA EndsFew ==
    ASSUME NEW pools \in SUBSET AllPools, NEW degree \in Nat, FewPools(degree), NEW v \in Tokens
    PROVE  Len(EndsFrom(pools, v)) \in Nat /\ Len(EndsFrom(pools, v)) <= degree
<1> DEFINE more == Len(EndsFrom(pools, v))
<1>1. more = Cardinality(PoolsOf(pools, v)) /\ EndsFrom(pools, v) \in Seq(Tokens)
  BY NextEnds
<1>2. PoolsOf(pools, v) \in SUBSET PoolsOf(AllPools, v) /\ PoolsOf(AllPools, v) \in SUBSET AllPools
  BY DEF PoolsOf
<1>3. IsFiniteSet(PoolsOf(AllPools, v))
  BY <1>2, PoolsAre, FS_Subset
<1>4. Cardinality(PoolsOf(pools, v)) <= Cardinality(PoolsOf(AllPools, v))
  BY <1>2, <1>3, FS_Subset
<1>5. Cardinality(PoolsOf(AllPools, v)) \in Nat /\ Cardinality(PoolsOf(AllPools, v)) <= degree
  BY <1>3, FS_CardinalityType DEF FewPools
<1>6. more \in Nat
  BY <1>1
<1> HIDE DEF more
<1>7. more <= degree
  BY <1>1, <1>4, <1>5, <1>6 DEF more
<1>8. QED
  BY <1>6, <1>7 DEF more

\* The queue grows by less than the degree at each turn.
LEMMA QueueBounded ==
    ASSUME NEW pools \in SUBSET AllPools, NEW a, NEW b, NEW q, IsQueue(q, pools, a, b),
           NEW degree \in Nat, FewPools(degree)
    PROVE  \A n \in 0..MaxTurns : q[n] = <<>> \/ Len(q[n]) + n <= 1 + degree * n
<1> DEFINE P(n) == n <= MaxTurns => q[n] = <<>> \/ Len(q[n]) + n <= 1 + degree * n
<1>1. P(0)
  <2>1. q[0] = <<a>> /\ Len(<<a>>) = 1 /\ degree * 0 = 0
    BY DEF IsQueue
  <2>2. Len(q[0]) = 1
    BY <2>1
  <2>3. QED
    BY <2>1, <2>2
<1>2. ASSUME NEW n \in Nat, P(n) PROVE P(n + 1)
  <2> SUFFICES ASSUME n + 1 <= MaxTurns, q[n + 1] # <<>>
               PROVE  Len(q[n + 1]) + (n + 1) <= 1 + degree * (n + 1)
    OBVIOUS
  <2> DEFINE v == q[n][1]
             more == Len(EndsFrom(pools, v))
             len == Len(q[n])
             next == Len(q[n + 1])
             product == degree * n
  <2>1. n \in 0..(MaxTurns - 1) /\ n \in 0..MaxTurns
    BY TurnsAssumption
  <2>2. q[n] # <<>>
    BY <2>1 DEF IsQueue
  <2>3. v \in Tokens /\ next = len - 1 + more
    <3>1. QueueTurn(q, pools, b, n)
      BY <2>1, <2>2, QueueTurns
    <3>2. QED
      BY <3>1 DEF QueueTurn
  <2>4. len \in Nat
    <3>1. q[n] \in Seq(Tokens)
      BY <2>1 DEF IsQueue
    <3>2. QED
      BY <3>1
  <2>5. more \in Nat /\ more <= degree
    BY <2>3, EndsFew
  <2>6. len + n <= 1 + product
    BY <1>2, <2>1, <2>2
  <2>7. product \in Nat /\ degree * (n + 1) = product + degree
    OBVIOUS
  <2> HIDE DEF more, v, len, product, next
  <2>8. next + (n + 1) <= 1 + (product + degree)
    BY <2>3, <2>4, <2>5, <2>6, <2>7
  <2>9. QED
    BY <2>7, <2>8 DEF next
<1> HIDE DEF P
<1>3. \A n \in Nat : P(n)
  <2> DEFINE S == {n \in Nat : P(n)}
  <2>1. S \in SUBSET Nat /\ 0 \in S /\ \A n \in S : n + 1 \in S
    BY <1>1, <1>2
  <2> HIDE DEF S
  <2>2. S = Nat
    BY <2>1, SetOfAllNaturals
  <2>3. QED
    BY <2>2 DEF S
<1>4. QED
  BY <1>3 DEF P

-----------------------------------------------------------------------------
(* The turns that look at all tokens *)

\* The turns for walks of 0 to last pools.
IsTurns(f, degree, last) == f = [n \in 0..last |-> IF n = 0 THEN 1 ELSE 1 + degree * f[n - 1]]

\* There are such numbers of turns.
LEMMA TurnsExist == ASSUME NEW degree PROVE \A last \in Nat : \E f : IsTurns(f, degree, last)
<1> DEFINE S == {last \in Nat : \E f : IsTurns(f, degree, last)}
<1>1. 0 \in S
  <2>1. IsTurns([n \in 0..0 |-> 1], degree, 0)
    BY DEF IsTurns
  <2>2. QED
    BY <2>1
<1>2. ASSUME NEW last \in S PROVE last + 1 \in S
  <2>1. PICK f : IsTurns(f, degree, last)
    OBVIOUS
  <2> DEFINE g == [n \in 0..(last + 1) |-> IF n = last + 1 THEN 1 + degree * f[last] ELSE f[n]]
  <2>2. \A n \in 0..last : f[n] = IF n = 0 THEN 1 ELSE 1 + degree * f[n - 1]
    BY <2>1 DEF IsTurns
  <2>3. \A n \in 0..(last + 1) : g[n] = IF n = 0 THEN 1 ELSE 1 + degree * g[n - 1]
    BY <2>2
  <2>4. IsTurns(g, degree, last + 1)
    BY <2>3, Zenon DEF IsTurns
  <2>5. QED
    BY <2>4
<1>3. S = Nat
  <2> HIDE DEF S
  <2>1. S \in SUBSET Nat
    BY DEF S
  <2>2. QED
    BY <1>1, <1>2, <2>1, SetOfAllNaturals
<1>4. QED
  BY <1>3

\* A walk of one pool more takes more turns.
LEMMA TurnsAre ==
    ASSUME NEW degree \in Nat, NEW T, T = TurnsTo(degree)
    PROVE  /\ T[0] = 1
           /\ \A n \in 0..(Cardinality(Tokens) - 1) : T[n + 1] = 1 + degree * T[n]
           /\ \A n \in 0..Cardinality(Tokens) : T[n] \in Nat \ {0}
           /\ \A n \in 0..(Cardinality(Tokens) - 1) : T[n] <= T[n + 1]
           /\ \A m \in Nat, n \in Nat : m + n <= Cardinality(Tokens) => T[m] <= T[m + n]
<1> DEFINE C == Cardinality(Tokens)
<1>1. C \in Nat
  BY BoundsAssumption, FS_CardinalityType
<1> HIDE DEF C
<1>2. IsTurns(T, degree, C)
  <2>1. T = CHOOSE f : IsTurns(f, degree, C)
    BY Zenon DEF TurnsTo, IsTurns, C
  <2>2. QED
    BY <1>1, <2>1, TurnsExist, Zenon
<1>3. \A n \in 0..C : T[n] = IF n = 0 THEN 1 ELSE 1 + degree * T[n - 1]
  BY <1>2 DEF IsTurns
<1>4. T[0] = 1 /\ \A n \in 0..(C - 1) : T[n + 1] = 1 + degree * T[n]
  <2>1. T[0] = 1
    BY <1>1, <1>3
  <2>2. \A n \in 0..(C - 1) : n + 1 \in 0..C /\ n + 1 # 0 /\ (n + 1) - 1 = n
    BY <1>1
  <2>3. QED
    BY <1>3, <2>1, <2>2
<1>5. \A n \in Nat : n <= C => T[n] \in Nat \ {0}
  <2> DEFINE S == {n \in Nat : n <= C => T[n] \in Nat \ {0}}
  <2>1. 0 \in S
    BY <1>4
  <2>2. ASSUME NEW n \in S PROVE n + 1 \in S
    <3> SUFFICES ASSUME n + 1 <= C PROVE T[n + 1] \in Nat \ {0}
      OBVIOUS
    <3>1. n \in 0..(C - 1) /\ T[n] \in Nat
      BY <1>1
    <3> DEFINE x == T[n]
    <3>2. T[n + 1] = 1 + degree * x /\ x \in Nat
      BY <1>4, <3>1
    <3> HIDE DEF x
    <3>3. degree * x \in Nat
      BY <3>2
    <3>4. QED
      BY <3>2, <3>3
  <2> HIDE DEF S
  <2>3. S \in SUBSET Nat
    BY DEF S
  <2>4. S = Nat
    BY <2>1, <2>2, <2>3, SetOfAllNaturals
  <2>5. QED
    BY <2>4 DEF S
<1>6. ASSUME NEW n \in 0..(C - 1) PROVE T[n] <= T[n + 1]
  <2> DEFINE x == T[n]
  <2>1. T[n + 1] = 1 + degree * x /\ x \in Nat
    BY <1>1, <1>4, <1>5
  <2>2. T[n + 1] = 1 + degree * x /\ n \in Nat /\ n <= C
    BY <1>1, <2>1
  <2>3. CASE degree = 0
    <3>1. x = 1
      <4>1. CASE n = 0
        BY <1>4, <4>1
      <4>2. CASE n # 0
        <5>1. n \in 0..C /\ T[n] = 1 + degree * T[n - 1] /\ T[n - 1] \in Nat
          BY <1>1, <1>3, <1>5, <4>2
        <5>2. \A y \in Nat : 0 * y = 0
          OBVIOUS
        <5>3. QED
          BY <2>3, <5>1, <5>2
      <4>3. QED
        BY <4>1, <4>2
    <3> HIDE DEF x
    <3>2. T[n + 1] = 1
      BY <2>1, <2>3, <3>1
    <3>3. QED
      BY <3>1, <3>2 DEF x
  <2>4. CASE degree # 0
    <3> HIDE DEF x
    <3>1. PICK less \in Nat : degree = less + 1
      BY <2>4
    <3>2. degree * x = less * x + x /\ less * x \in Nat
      BY <2>1, <3>1
    <3>3. QED
      BY <2>1, <3>2 DEF x
  <2>5. QED
    BY <2>3, <2>4
<1>7. ASSUME NEW m \in Nat PROVE \A n \in Nat : m + n <= C => T[m] <= T[m + n]
  <2> DEFINE S == {n \in Nat : m + n <= C => T[m] <= T[m + n]}
  <2>1. 0 \in S
    BY <1>5
  <2>2. ASSUME NEW n \in S PROVE n + 1 \in S
    <3> SUFFICES ASSUME m + (n + 1) <= C PROVE T[m] <= T[m + (n + 1)]
      OBVIOUS
    <3>1. m + n \in 0..(C - 1) /\ m + n <= C /\ (m + n) + 1 = m + (n + 1) /\ m <= C
      BY <1>1
    <3>2. T[m] <= T[m + n] /\ T[m + n] <= T[(m + n) + 1]
      BY <1>6, <3>1
    <3>3. T[m] \in Nat /\ T[m + n] \in Nat /\ T[m + (n + 1)] \in Nat
      BY <1>5, <3>1
    <3>4. T[m + n] <= T[m + (n + 1)]
      BY <3>1, <3>2
    <3>5. QED
      BY <3>2, <3>3, <3>4
  <2> HIDE DEF S
  <2>3. S \in SUBSET Nat
    BY DEF S
  <2>4. S = Nat
    BY <2>1, <2>2, <2>3, SetOfAllNaturals
  <2>5. QED
    BY <2>4 DEF S
<1>8. QED
  BY <1>1, <1>4, <1>5, <1>6, <1>7 DEF C

\* The tokens that were at the head of the queue.
VisitedIn(q, turns) == {v \in Tokens : \E k \in Nat : k < turns /\ q[k] # <<>> /\ Head(q[k]) = v}

\* A token that is visited is followed by all its pools lead to.
LEMMA VisitedNext ==
    ASSUME NEW pools \in SUBSET AllPools, NEW a, NEW b, NEW q, IsQueue(q, pools, a, b),
           NEW degree \in Nat, FewPools(degree), NEW m \in Nat, 1 + degree * m <= MaxTurns,
           NEW v \in VisitedIn(q, m), NEW p \in pools, NEW w \in Tokens, Joins(p, v, w)
    PROVE  w \in VisitedIn(q, 1 + degree * m)
<1> DEFINE ends == EndsFrom(pools, v)
<1>1. PICK k \in Nat : k < m /\ q[k] # <<>> /\ Head(q[k]) = v
  BY DEF VisitedIn
<1>2. v \in Tokens
  BY DEF VisitedIn
<1>3. Len(ends) \in Nat /\ Len(ends) <= degree
  BY <1>2, EndsFew
<1>4. PICK i \in 1..Len(ends) : ends[i] = w
  BY EndsFound
<1>5. /\ degree * m \in Nat /\ degree * (k + 1) \in Nat
      /\ degree * (k + 1) <= degree * m /\ m <= degree * m
  <2> HIDE DEF ends
  <2>1. PICK less \in Nat : degree = less + 1
    BY <1>3, <1>4
  <2>2. PICK over \in Nat : m = (k + 1) + over
    <3>1. m - (k + 1) \in Nat
      BY <1>1
    <3>2. QED
      BY <3>1
  <2>3. degree * over \in Nat /\ less * m \in Nat /\ degree * (k + 1) \in Nat /\ degree * m \in Nat
    OBVIOUS
  <2>4. degree * m = degree * (k + 1) + degree * over
    BY <2>2
  <2>5. degree * m = less * m + m
    BY <2>1
  <2>6. QED
    BY <2>3, <2>4, <2>5
<1> DEFINE room == degree * m
           need == degree * (k + 1)
<1>6. room \in Nat /\ need \in Nat /\ need <= room /\ m <= room /\ 1 + room <= MaxTurns
  BY <1>5
<1>7. k \in 0..(MaxTurns - 1) /\ k + 1 \in 0..MaxTurns /\ k \in 0..MaxTurns
  <2> HIDE DEF room, need
  <2>1. QED
    BY <1>1, <1>6, TurnsAssumption
<1>8. QueueTurn(q, pools, b, k)
  BY <1>1, <1>7, QueueTurns
<1>9. /\ Len(q[k]) - 1 \in Nat /\ Len(q[k + 1]) = Len(q[k]) - 1 + Len(ends)
      /\ q[k + 1][Len(q[k]) - 1 + i] = w
  <2>1. q[k][1] = v
    BY <1>1, <1>8 DEF QueueTurn
  <2>2. QED
    BY <1>4, <1>8, <2>1 DEF QueueTurn
<1> DEFINE before == Len(q[k]) - 1
           j == before + i - 1
           next == Len(q[k + 1])
<1>10. before \in Nat /\ next = before + Len(ends) /\ q[k + 1][before + i] = w
  BY <1>9
<1> HIDE DEF before, ends
<1>11. j \in Nat /\ j < next /\ j + 1 = before + i /\ next \in Nat \ {0}
  BY <1>3, <1>4, <1>10
<1>12. next + (k + 1) <= 1 + need
  <2>1. q[k + 1] = <<>> \/ Len(q[k + 1]) + (k + 1) <= 1 + degree * (k + 1)
    BY <1>7, QueueBounded
  <2>2. q[k + 1] # <<>>
    <3>1. Len(q[k + 1]) # 0
      BY <1>11
    <3>2. Len(<<>>) = 0
      OBVIOUS
    <3>3. QED
      BY <3>1, <3>2
  <2>3. QED
    BY <2>1, <2>2
<1>13. q[k + 1][j + 1] = w
  BY <1>10, <1>11
<1> HIDE DEF j, room, need
<1>14. (k + 1) + j \in Nat /\ (k + 1) + j < 1 + room /\ (k + 1) + j <= MaxTurns
  <2> HIDE DEF next
  <2>1. (k + 1) + j \in Nat /\ (k + 1) + j < 1 + room
    BY <1>6, <1>11, <1>12
  <2>2. QED
    BY <1>6, <2>1, TurnsAssumption
<1>15. q[(k + 1) + j] # <<>> /\ Head(q[(k + 1) + j]) = w
  <2>1. j < Len(q[k + 1])
    BY <1>11
  <2>2. Comes(q, k + 1, j)
    BY <1>7, <1>11, <1>14, <2>1, QueueAdvances
  <2>3. QED
    BY <1>13, <2>2 DEF Comes
<1>16. QED
  BY <1>14, <1>15 DEF VisitedIn, room

\* While the token is not visited, more and more tokens are; only tokens that are
\* not connected are not visited.
LEMMA AllVisited ==
    ASSUME TurnsSuffice, NEW pools \in SUBSET AllPools, NEW a \in Tokens, NEW b \in Tokens,
           NEW q, IsQueue(q, pools, a, b)
    PROVE  ~Connected(pools, a, b)
<1> DEFINE C == Cardinality(Tokens)
<1>1. C \in Nat \ {0} /\ IsFiniteSet(Tokens)
  <2>1. IsFiniteSet(Tokens) /\ Tokens # {}
    BY BoundsAssumption
  <2>2. QED
    BY <2>1, FS_CardinalityType, FS_EmptySet
<1>2. PICK degree \in Nat : FewPools(degree) /\ TurnsTo(degree)[C - 1] <= MaxTurns
  BY TurnsAssumption DEF TurnsSuffice, FewPools
<1> DEFINE T == TurnsTo(degree)
<1>3. T = TurnsTo(degree) /\ T[C - 1] <= MaxTurns
  BY <1>2
<1> HIDE DEF T
<1> DEFINE V(d) == VisitedIn(q, T[d])
           P(d) == d <= C - 1 => b \in V(d) \/ Cardinality(V(d)) >= d + 1
<1> HIDE DEF C
<1>4. \A d \in Nat : d <= C - 1 => /\ T[d] \in Nat \ {0} /\ T[d] <= MaxTurns
                                   /\ d + 1 <= C - 1 => /\ T[d] <= T[d + 1]
                                                        /\ T[d + 1] = 1 + degree * T[d]
  <2> SUFFICES ASSUME NEW d \in Nat, d <= C - 1
               PROVE  /\ T[d] \in Nat \ {0} /\ T[d] <= MaxTurns
                      /\ d + 1 <= C - 1 => T[d] <= T[d + 1] /\ T[d + 1] = 1 + degree * T[d]
    OBVIOUS
  <2>1. /\ T[d] \in Nat \ {0} /\ T[C - 1] \in Nat
        /\ d + 1 <= C - 1 => T[d] <= T[d + 1] /\ T[d + 1] = 1 + degree * T[d]
    <3>1. d \in 0..C /\ d \in 0..(C - 1) /\ C - 1 \in 0..C
      BY <1>1
    <3>2. QED
      BY <1>2, <1>3, <3>1, TurnsAre DEF C
  <2>2. T[d] <= T[C - 1]
    <3>1. C - 1 - d \in Nat /\ d + (C - 1 - d) = C - 1 /\ d + (C - 1 - d) <= C
      BY <1>1
    <3>2. T[d] <= T[d + (C - 1 - d)]
      BY <1>2, <1>3, <3>1, TurnsAre DEF C
    <3>3. QED
      BY <3>1, <3>2
  <2>3. QED
    BY <1>2, <1>3, <2>1, <2>2, TurnsAssumption
<1>5. ASSUME NEW d \in Nat, d <= C - 1
      PROVE  V(d) \in SUBSET Tokens /\ IsFiniteSet(V(d)) /\ Cardinality(V(d)) \in Nat /\ a \in V(d)
  <2>1. V(d) \in SUBSET Tokens
    BY DEF VisitedIn
  <2>2. a \in V(d)
    <3>1. q[0] = <<a>>
      BY DEF IsQueue
    <3>2. q[0] # <<>> /\ Head(q[0]) = a
      BY <3>1
    <3>3. 0 < T[d]
      BY <1>4, <1>5
    <3>4. QED
      BY <3>2, <3>3 DEF VisitedIn
  <2> HIDE DEF V
  <2>3. IsFiniteSet(V(d))
    BY <1>1, <2>1, FS_Subset
  <2>4. QED
    BY <2>1, <2>2, <2>3, FS_CardinalityType
<1>6. b \in V(C - 1) => FALSE
  <2> SUFFICES ASSUME b \in V(C - 1) PROVE FALSE
    OBVIOUS
  <2>1. PICK k \in Nat : k < T[C - 1] /\ q[k] # <<>> /\ Head(q[k]) = b
    BY DEF VisitedIn
  <2>2. C - 1 \in Nat
    BY <1>1
  <2>3. T[C - 1] \in Nat
    BY <1>4, <2>2
  <2>4. k \in 0..(MaxTurns - 1)
    BY <1>2, <1>3, <2>1, <2>3, TurnsAssumption
  <2>5. QED
    BY <2>1, <2>4 DEF IsQueue
<1> SUFFICES ASSUME Connected(pools, a, b) PROVE FALSE
  OBVIOUS
<1>7. P(0)
  <2> HIDE DEF V
  <2>1. CASE 0 <= C - 1
    <3>1. IsFiniteSet(V(0)) /\ Cardinality(V(0)) \in Nat /\ V(0) # {}
      BY <1>5, <2>1
    <3>2. Cardinality(V(0)) # 0
      BY <3>1, FS_EmptySet
    <3>3. QED
      BY <3>1, <3>2
  <2>2. QED
    BY <2>1
<1>8. ASSUME NEW d \in Nat, P(d) PROVE P(d + 1)
  <2> SUFFICES ASSUME d + 1 <= C - 1, b \notin V(d + 1) PROVE Cardinality(V(d + 1)) >= (d + 1) + 1
    OBVIOUS
  <2>1. d <= C - 1 /\ d + 1 \in Nat
    BY <1>1
  <2>2. /\ T[d] \in Nat /\ T[d + 1] \in Nat /\ T[d] <= T[d + 1]
        /\ T[d + 1] = 1 + degree * T[d] /\ T[d + 1] <= MaxTurns
    BY <1>4, <2>1
  <2>3. V(d) \subseteq V(d + 1)
    BY <2>2 DEF VisitedIn
  <2>4. PICK v \in V(d), p \in pools, w \in Tokens : w \notin V(d) /\ Joins(p, v, w)
    <3> HIDE DEF V
    <3>1. V(d) \in SUBSET Tokens /\ a \in V(d) /\ b \notin V(d)
      BY <1>5, <2>1, <2>3
    <3>2. PICK p \in pools : ~(Token0(p) \in V(d) <=> Token1(p) \in V(d))
      BY <3>1 DEF Connected
    <3>3. QED
      BY <3>2, PoolsAre DEF Joins
  <2>5. w \in V(d + 1)
    <3>1. 1 + degree * T[d] <= MaxTurns
      BY <2>2
    <3>2. w \in VisitedIn(q, 1 + degree * T[d])
      BY <1>2, <1>3, <2>2, <2>4, <3>1, VisitedNext
    <3>3. QED
      BY <2>2, <3>2
  <2> HIDE DEF V
  <2>6. Cardinality(V(d)) >= d + 1
    BY <1>8, <2>1, <2>3
  <2>7. /\ IsFiniteSet(V(d)) /\ Cardinality(V(d)) \in Nat
        /\ IsFiniteSet(V(d + 1)) /\ Cardinality(V(d + 1)) \in Nat
    BY <1>5, <2>1
  <2>8. Cardinality(V(d) \cup {w}) = Cardinality(V(d)) + 1
    <3> DEFINE X == V(d)
    <3>1. IsFiniteSet(X) /\ w \notin X
      BY <2>4, <2>7
    <3> HIDE DEF X
    <3>2. Cardinality(X \cup {w}) = Cardinality(X) + 1
      BY <3>1, FS_AddElement
    <3>3. QED
      BY <3>2 DEF X
  <2>9. V(d) \cup {w} \in SUBSET V(d + 1)
    BY <2>3, <2>5
  <2>10. Cardinality(V(d) \cup {w}) <= Cardinality(V(d + 1))
    BY <2>7, <2>9, FS_Subset
  <2>11. QED
    BY <2>6, <2>7, <2>8, <2>10
<1> HIDE DEF P, V
<1>9. \A d \in Nat : P(d)
  <2> DEFINE S == {d \in Nat : P(d)}
  <2>1. S \in SUBSET Nat /\ 0 \in S /\ \A d \in S : d + 1 \in S
    BY <1>7, <1>8
  <2> HIDE DEF S
  <2>2. S = Nat
    BY <2>1, SetOfAllNaturals
  <2>3. QED
    BY <2>2 DEF S
<1>10. C - 1 \in Nat
  BY <1>1
<1>11. Cardinality(V(C - 1)) >= C
  <2>1. P(C - 1)
    BY <1>9, <1>10
  <2>2. Cardinality(V(C - 1)) >= (C - 1) + 1
    BY <1>6, <1>10, <2>1 DEF P
  <2>3. QED
    BY <1>1, <2>2
<1>12. V(C - 1) = Tokens
  <2>1. V(C - 1) \in SUBSET Tokens /\ Cardinality(V(C - 1)) \in Nat
    BY <1>5, <1>10
  <2>2. Cardinality(V(C - 1)) <= C
    BY <1>1, <2>1, FS_Subset DEF C
  <2>3. Cardinality(V(C - 1)) = Cardinality(Tokens)
    BY <1>1, <1>11, <2>1, <2>2 DEF C
  <2>4. QED
    BY <1>1, <2>1, <2>3, FS_Subset
<1>13. QED
  BY <1>6, <1>12

\* A queue of tokens that have pools stays one.
LEMMA QueueLives ==
    ASSUME NEW pools \in SUBSET AllPools, NEW a, NEW b, NEW q, IsQueue(q, pools, a, b),
           NEW pool \in pools, NEW u \in Tokens, Joins(pool, a, u)
    PROVE  q[MaxTurns] # <<>>
<1> DEFINE Leads(v) == \E p \in pools, w \in Tokens : Joins(p, v, w)
           P(n) == n <= MaxTurns => q[n] # <<>> /\ \A i \in 1..Len(q[n]) : Leads(q[n][i])
<1>1. P(0)
  <2>1. q[0] = <<a>> /\ Leads(a)
    BY DEF IsQueue
  <2> HIDE DEF Leads
  <2>2. q[0] # <<>> /\ \A i \in 1..Len(q[0]) : q[0][i] = a
    BY <2>1
  <2>3. QED
    BY <2>1, <2>2
<1>2. ASSUME NEW n \in Nat, P(n) PROVE P(n + 1)
  <2> SUFFICES ASSUME n + 1 <= MaxTurns
               PROVE  q[n + 1] # <<>> /\ \A i \in 1..Len(q[n + 1]) : Leads(q[n + 1][i])
    OBVIOUS
  <2> DEFINE v == q[n][1]
             ends == EndsFrom(pools, v)
             len == Len(q[n])
  <2>1. n \in 0..(MaxTurns - 1) /\ n <= MaxTurns
    BY TurnsAssumption
  <2>2. q[n] # <<>> /\ \A i \in 1..len : Leads(q[n][i])
    BY <1>2, <2>1
  <2>3. /\ len - 1 \in Nat /\ v \in Tokens /\ Len(q[n + 1]) = len - 1 + Len(ends)
        /\ \A i \in 1..(len - 1) : q[n + 1][i] = q[n][i + 1]
        /\ \A i \in 1..Len(ends) : q[n + 1][len - 1 + i] = ends[i]
    <3>1. QueueTurn(q, pools, b, n)
      BY <2>1, <2>2, QueueTurns
    <3>2. QED
      BY <3>1 DEF QueueTurn
  <2>4. Len(ends) \in Nat \ {0} /\ \A i \in 1..Len(ends) : Leads(ends[i])
    <3>1. Leads(v)
      BY <2>2, <2>3
    <3>2. PICK p \in pools, w \in Tokens : Joins(p, v, w)
      BY <3>1
    <3>3. \E i \in 1..Len(ends) : ends[i] = w
      BY <3>2, EndsFound
    <3>4. /\ EdgesFrom(pools, v) \in Seq(pools) /\ Len(EdgesFrom(pools, v)) = Len(ends)
          /\ ends \in Seq(Tokens)
      BY NextEnds
    <3>5. \A i \in 1..Len(ends) : Joins(EdgesFrom(pools, v)[i], v, ends[i])
      BY NextEnds
    <3> HIDE DEF ends
    <3>6. \A i \in 1..Len(ends) : EdgesFrom(pools, v)[i] \in pools
      BY <3>4
    <3>7. \A i \in 1..Len(ends) : Leads(ends[i])
      BY <2>3, <3>5, <3>6 DEF Joins
    <3>8. QED
      BY <3>3, <3>4, <3>7
  <2> HIDE DEF ends
  <2>5. len \in Nat
    <3>1. q[n] \in Seq(Tokens)
      BY <2>1, TurnsAssumption DEF IsQueue
    <3>2. QED
      BY <3>1
  <2> HIDE DEF Leads, len
  <2>6. Len(q[n + 1]) \in Nat \ {0}
    BY <2>3, <2>4
  <2>7. q[n + 1] # <<>>
    <3>1. Len(<<>>) = 0
      OBVIOUS
    <3>2. QED
      BY <2>6, <3>1
  <2>8. ASSUME NEW i \in 1..Len(q[n + 1]) PROVE Leads(q[n + 1][i])
    <3>1. CASE i <= len - 1
      <4>1. i \in 1..(len - 1) /\ i + 1 \in 1..len
        BY <2>3, <2>5, <2>6, <3>1
      <4>2. QED
        BY <2>2, <2>3, <4>1
    <3>2. CASE ~(i <= len - 1)
      <4>1. i - (len - 1) \in 1..Len(ends) /\ len - 1 + (i - (len - 1)) = i
        BY <2>3, <2>4, <2>5, <2>6, <3>2
      <4>2. QED
        BY <2>3, <2>4, <4>1
    <3>3. QED
      BY <3>1, <3>2
  <2>9. QED
    BY <2>7, <2>8
<1> HIDE DEF P
<1>3. \A n \in Nat : P(n)
  <2> DEFINE S == {n \in Nat : P(n)}
  <2>1. S \in SUBSET Nat /\ 0 \in S /\ \A n \in S : n + 1 \in S
    BY <1>1, <1>2
  <2> HIDE DEF S
  <2>2. S = Nat
    BY <2>1, SetOfAllNaturals
  <2>3. QED
    BY <2>2 DEF S
<1>4. QED
  BY <1>3, TurnsAssumption DEF P

\* When no pool has the first token, the queue is empty after it.
LEMMA QueueDies ==
    ASSUME NEW pools \in SUBSET AllPools, NEW a, NEW b, NEW q, IsQueue(q, pools, a, b),
           MaxTurns # 0, \A p \in pools : a \notin {Token0(p), Token1(p)}
    PROVE  q[MaxTurns] = <<>>
<1> DEFINE P(n) == n + 1 <= MaxTurns => q[n + 1] = <<>>
<1>1. P(0)
  <2>1. 0 \in 0..(MaxTurns - 1) /\ 1 \in 0..MaxTurns
    BY TurnsAssumption
  <2>2. q[0] = <<a>> /\ q[1] \in Seq(Tokens)
    BY <2>1 DEF IsQueue
  <2>3. q[0] # <<>> /\ Len(q[0]) = 1 /\ q[0][1] = a
    BY <2>2
  <2>4. QueueTurn(q, pools, b, 0)
    BY <2>1, <2>3, QueueTurns
  <2>5. Len(EndsFrom(pools, a)) = 0
    <3>1. PoolsOf(pools, a) = {}
      BY DEF PoolsOf
    <3>2. QED
      BY <3>1, NextEnds, FS_EmptySet
  <2>6. Len(q[0 + 1]) = 0
    BY <2>3, <2>4, <2>5 DEF QueueTurn
  <2>7. q[0 + 1] = <<>>
    BY <2>2, <2>6
  <2>8. QED
    BY <2>7
<1>2. ASSUME NEW n \in Nat, P(n) PROVE P(n + 1)
  <2> SUFFICES ASSUME (n + 1) + 1 <= MaxTurns PROVE q[(n + 1) + 1] = <<>>
    OBVIOUS
  <2>1. n + 1 \in 0..(MaxTurns - 1) /\ n + 1 <= MaxTurns
    BY TurnsAssumption
  <2>2. QED
    BY <1>2, <2>1 DEF IsQueue
<1> HIDE DEF P
<1>3. \A n \in Nat : P(n)
  <2> DEFINE S == {n \in Nat : P(n)}
  <2>1. S \in SUBSET Nat /\ 0 \in S /\ \A n \in S : n + 1 \in S
    BY <1>1, <1>2
  <2> HIDE DEF S
  <2>2. S = Nat
    BY <2>1, SetOfAllNaturals
  <2>3. QED
    BY <2>2 DEF S
<1>4. MaxTurns - 1 \in Nat /\ (MaxTurns - 1) + 1 = MaxTurns
  BY TurnsAssumption
<1>5. QED
  BY <1>3, <1>4 DEF P

-----------------------------------------------------------------------------
(* The search and its answer *)

\* The searches after all turns keep their invariant, and one that does not find the
\* token goes through a queue of tokens.
LEMMA SearchEnds ==
    ASSUME NEW pools \in SUBSET AllPools, NEW a \in Tokens, NEW b \in Tokens, NEW search,
           search = ExceptionalSearch(pools, a, b)
    PROVE  /\ SearchInv(pools, a, b, search)
           /\ ~search.found => \E q : IsQueue(q, pools, a, b) /\ q[MaxTurns] = search.endVertices
<1>1. PICK f : /\ f[0] = FirstSearch(a)
               /\ \A n \in 1..MaxTurns : f[n] = NextSearch(pools, b, f[n - 1])
               /\ search = f[MaxTurns]
  BY SearchIs
<1>2. \A n \in Nat : n + 1 <= MaxTurns => f[n + 1] = NextSearch(pools, b, f[n])
  <2>1. \A n \in Nat : n + 1 <= MaxTurns => n + 1 \in 1..MaxTurns /\ (n + 1) - 1 = n
    BY TurnsAssumption
  <2>2. QED
    BY <1>1, <2>1
<1> DEFINE P(n) == n <= MaxTurns => SearchInv(pools, a, b, f[n])
<1>3. P(0)
  <2> DEFINE s == f[0]
  <2>1. /\ s.endVertices = <<a>> /\ s.path = <<>> /\ s.found = FALSE
        /\ s = [endVertices |-> <<a>>, path |-> <<>>, found |-> FALSE]
    BY <1>1 DEF FirstSearch
  <2>2. s \in Searches
    BY <2>1 DEF Searches
  <2> HIDE DEF s
  <2>3. Range(s.path) \in SUBSET AllPools
    BY <2>1 DEF Range
  <2>4. Connected(Range(s.path), a, a)
    BY <2>3, Connections
  <2>5. s.path \in Seq(pools) /\ Len(s.endVertices) = 1 /\ s.endVertices[1] = a
    BY <2>1
  <2>6. SearchInv(pools, a, b, s)
    BY <2>1, <2>2, <2>4, <2>5 DEF SearchInv
  <2>7. QED
    BY <2>6 DEF s
<1>4. ASSUME NEW n \in Nat, P(n) PROVE P(n + 1)
  <2> SUFFICES ASSUME n + 1 <= MaxTurns PROVE SearchInv(pools, a, b, f[n + 1])
    OBVIOUS
  <2>1. SearchInv(pools, a, b, f[n]) /\ f[n + 1] = NextSearch(pools, b, f[n])
    BY <1>2, <1>4, TurnsAssumption
  <2>2. QED
    BY <2>1, TurnKeeps
<1> HIDE DEF P
<1>5. \A n \in Nat : P(n)
  <2> DEFINE S == {n \in Nat : P(n)}
  <2>1. S \in SUBSET Nat /\ 0 \in S /\ \A n \in S : n + 1 \in S
    BY <1>3, <1>4
  <2> HIDE DEF S
  <2>2. S = Nat
    BY <2>1, SetOfAllNaturals
  <2>3. QED
    BY <2>2 DEF S
<1>6. \A n \in 0..MaxTurns : SearchInv(pools, a, b, f[n])
  BY <1>5, TurnsAssumption DEF P
<1>7. SearchInv(pools, a, b, search)
  BY <1>1, <1>6, TurnsAssumption
<1>8. ASSUME ~search.found PROVE \A n \in 0..MaxTurns : ~f[n].found
  <2> DEFINE U(i) == i <= MaxTurns => ~f[MaxTurns - i].found
  <2>1. U(0)
    BY <1>1, <1>8, TurnsAssumption
  <2>2. ASSUME NEW i \in Nat, U(i) PROVE U(i + 1)
    <3> SUFFICES ASSUME i + 1 <= MaxTurns, f[MaxTurns - (i + 1)].found PROVE FALSE
      OBVIOUS
    <3> DEFINE n == MaxTurns - (i + 1)
    <3>1. n \in Nat /\ n + 1 <= MaxTurns /\ n + 1 = MaxTurns - i /\ i <= MaxTurns
      BY TurnsAssumption
    <3>2. ~f[n + 1].found
      BY <2>2, <3>1
    <3> HIDE DEF n
    <3>3. f[n + 1] = NextSearch(pools, b, f[n])
      BY <1>2, <3>1
    <3>4. f[n].found
      BY DEF n
    <3>5. NextSearch(pools, b, f[n]) = f[n]
      BY <3>4, Zenon DEF NextSearch, Ended
    <3>6. QED
      BY <3>2, <3>3, <3>4, <3>5
  <2> HIDE DEF U
  <2>3. \A i \in Nat : U(i)
    <3> DEFINE S == {i \in Nat : U(i)}
    <3>1. S \in SUBSET Nat /\ 0 \in S /\ \A i \in S : i + 1 \in S
      BY <2>1, <2>2
    <3> HIDE DEF S
    <3>2. S = Nat
      BY <3>1, SetOfAllNaturals
    <3>3. QED
      BY <3>2 DEF S
  <2>4. \A n \in 0..MaxTurns :
          MaxTurns - n \in Nat /\ MaxTurns - n <= MaxTurns /\ MaxTurns - (MaxTurns - n) = n
    BY TurnsAssumption
  <2>5. QED
    BY <2>3, <2>4 DEF U
<1>9. ASSUME ~search.found PROVE \E q : IsQueue(q, pools, a, b) /\ q[MaxTurns] = search.endVertices
  <2> DEFINE q == [n \in 0..MaxTurns |-> f[n].endVertices]
  <2>1. \A n \in 0..MaxTurns : f[n] \in Searches /\ f[n].endVertices \in Seq(Tokens) /\ ~f[n].found
    BY <1>6, <1>8, <1>9 DEF SearchInv, Searches
  <2>2. q[0] = <<a>> /\ q[MaxTurns] = search.endVertices
    BY <1>1, TurnsAssumption DEF FirstSearch
  <2>3. \A n \in 0..MaxTurns : q[n] \in Seq(Tokens) /\ q[n] = f[n].endVertices
    BY <2>1
  <2>4. ASSUME NEW n \in 0..(MaxTurns - 1)
        PROVE  /\ q[n] = <<>> => q[n + 1] = <<>>
               /\ q[n] # <<>> => /\ Head(q[n]) # b
                                 /\ q[n + 1] = Tail(q[n]) \o EndsFrom(pools, Head(q[n]))
    <3> DEFINE s == f[n]
               t == f[n + 1]
    <3>1. n \in 0..MaxTurns /\ n + 1 \in 0..MaxTurns /\ n \in Nat /\ n + 1 <= MaxTurns
      BY TurnsAssumption
    <3>2. s \in Searches /\ ~s.found /\ ~t.found /\ q[n] = s.endVertices /\ q[n + 1] = t.endVertices
      BY <2>1, <2>3, <3>1
    <3>3. t = NextSearch(pools, b, s)
      BY <1>2, <3>1
    <3> HIDE DEF q, s, t
    <3>4. CASE q[n] = <<>>
      <4>1. t = s
        BY <3>2, <3>3, <3>4, Zenon DEF NextSearch, Ended
      <4>2. QED
        BY <3>2, <3>4, <4>1
    <3>5. CASE q[n] # <<>>
      <4>1. t = Turn(pools, b, s)
        BY <3>2, <3>3, <3>5, Zenon DEF NextSearch, Ended
      <4> DEFINE v == Head(s.endVertices)
                 e == Tail(s.endVertices) \o EndsFrom(pools, v)
                 p == s.path \o EdgesFrom(pools, v)
                 last == Append(s.path, <<b>>)
      <4>2. t = AfterTurn(pools, b, s)
        BY <3>2, <4>1, TurnIs
      <4>3. t = IF v = b THEN [endVertices |-> s.endVertices, path |-> last, found |-> TRUE]
                ELSE [endVertices |-> e, path |-> p, found |-> s.found]
        BY <4>2, Zenon DEF AfterTurn
      <4> HIDE DEF v, e, p, last
      <4>4. v # b /\ t.endVertices = e
        BY <3>2, <4>3
      <4>5. QED
        BY <3>2, <3>5, <4>4 DEF v, e
    <3>6. QED
      BY <3>4, <3>5
  <2> HIDE DEF q
  <2>5. IsQueue(q, pools, a, b)
    BY <2>2, <2>3, <2>4 DEF IsQueue
  <2>6. QED
    BY <2>2, <2>5
<1>10. QED
  BY <1>7, <1>9

\* What a search finds.
LEMMA RouteFound ==
    ASSUME TurnsSuffice, NEW pools \in SUBSET AllPools, NEW a \in Tokens, NEW b \in Tokens,
           NEW search, search = ExceptionalSearch(pools, a, b)
    PROVE  /\ search.found <=> Connected(pools, a, b)
           /\ ~Connected(pools, a, b) =>
                (Ended(search) <=> \A p \in pools : a \notin {Token0(p), Token1(p)})
<1>1. SearchInv(pools, a, b, search) /\ (search.found => Connected(pools, a, b))
  <2>1. SearchInv(pools, a, b, search)
    BY SearchEnds
  <2>2. ASSUME search.found PROVE Connected(pools, a, b)
    <3> DEFINE some == Front(search.path)
    <3>1. some \in Seq(pools) /\ Connected(Range(some), a, b)
      BY <2>1, <2>2 DEF SearchInv
    <3> HIDE DEF some
    <3>2. Range(some) \subseteq pools
      BY <3>1, PathsJoined
    <3>3. QED
      BY <3>1, <3>2, Connections
  <2>3. QED
    BY <2>1, <2>2
<1>2. ASSUME ~search.found
      PROVE  \E q : IsQueue(q, pools, a, b) /\ q[MaxTurns] = search.endVertices
  BY <1>2, SearchEnds
<1>3. ~search.found => ~Connected(pools, a, b)
  BY <1>2, AllVisited
<1>4. ASSUME ~Connected(pools, a, b)
      PROVE  Ended(search) <=> \A p \in pools : a \notin {Token0(p), Token1(p)}
  <2>1. ~search.found
    BY <1>1, <1>4
  <2>2. PICK q : IsQueue(q, pools, a, b) /\ q[MaxTurns] = search.endVertices
    BY <1>2, <2>1
  <2>3. CASE \A p \in pools : a \notin {Token0(p), Token1(p)}
    <3>1. MaxTurns # 0
      <4>1. PICK degree \in Nat : TurnsTo(degree)[Cardinality(Tokens) - 1] <= MaxTurns
        BY TurnsAssumption DEF TurnsSuffice
      <4>2. Cardinality(Tokens) - 1 \in 0..Cardinality(Tokens)
        <5>1. IsFiniteSet(Tokens) /\ Tokens # {}
          BY BoundsAssumption
        <5>2. Cardinality(Tokens) \in Nat /\ Cardinality(Tokens) # 0
          BY <5>1, FS_CardinalityType, FS_EmptySet
        <5>3. QED
          BY <5>2
      <4>3. TurnsTo(degree)[Cardinality(Tokens) - 1] \in Nat \ {0}
        BY <4>2, TurnsAre
      <4>4. QED
        BY <4>1, <4>3
    <3>2. q[MaxTurns] = <<>>
      BY <2>2, <2>3, <3>1, QueueDies
    <3>3. Ended(search)
      BY <2>2, <3>2 DEF Ended
    <3>4. QED
      BY <2>3, <3>3
  <2>4. CASE \E p \in pools : a \in {Token0(p), Token1(p)}
    <3>1. PICK p \in pools, u \in Tokens : Joins(p, a, u)
      BY <2>4, PoolsAre DEF Joins
    <3>2. q[MaxTurns] # <<>>
      BY <2>2, <3>1, QueueLives
    <3>3. ~Ended(search)
      BY <2>1, <2>2, <3>2 DEF Ended
    <3>4. QED
      BY <2>4, <3>3
  <2>5. QED
    BY <2>3, <2>4
<1>5. QED
  BY <1>1, <1>3, <1>4

\* A route is found exactly between tokens that pools connect, its pools are among those
\* of the answer, and the search gives up only when no pool has the token given, with any
\* pools between any tokens, when as many turns are looked at as the search may need.
THEOREM SearchFindsRouteHolds == ASSUME TurnsSuffice PROVE Spec => []SearchFindsRoute
<1>1. Init => SearchFindsRoute
  <2> SUFFICES ASSUME Init, input.kind = "route"
               PROVE
        LET search == ExceptionalSearch(input.pools, input.tokenIn, input.tokenOut)
            regular == ComputeRegularRoute(input.pools, input.tokenIn, input.tokenOut)
            connected == Connected(input.pools, input.tokenIn, input.tokenOut)
        IN  /\ regular # <<>> \/ search.found <=> connected
            /\ ~connected =>
                 (Ended(search)
                    <=> \A p \in input.pools : input.tokenIn \notin {Token0(p), Token1(p)})
            /\ \A path \in ComputeExceptionalRoute(input.pools, input.tokenIn, input.tokenOut) :
                 path # <<>> => /\ Last(path) = <<input.tokenOut>>
                                /\ Connected(Range(Front(path)), input.tokenIn, input.tokenOut)
    BY DEF SearchFindsRoute
  <2> DEFINE pools == input.pools
             a == input.tokenIn
             b == input.tokenOut
             search == ExceptionalSearch(pools, a, b)
  <2>1. pools \in SUBSET AllPools /\ a \in Tokens /\ b \in Tokens
    BY DEF Init
  <2> HIDE DEF pools, a, b, search
  <2>2. ComputeRegularRoute(pools, a, b) = <<>>
    BY <2>1, NoRegularRoute
  <2>3. /\ search.found <=> Connected(pools, a, b)
        /\ ~Connected(pools, a, b) =>
             (Ended(search) <=> \A p \in pools : a \notin {Token0(p), Token1(p)})
    BY <2>1, RouteFound DEF search
  <2>4. SearchInv(pools, a, b, search)
    BY <2>1, SearchEnds DEF search
  <2>5. ComputeExceptionalRoute(pools, a, b) =
          IF ~Ended(search) THEN {} ELSE IF search.found THEN {search.path} ELSE {<<>>}
    BY Zenon DEF ComputeExceptionalRoute, search
  <2>6. \A path \in ComputeExceptionalRoute(pools, a, b) :
          path # <<>> => Last(path) = <<b>> /\ Connected(Range(Front(path)), a, b)
    BY <2>4, <2>5 DEF SearchInv
  <2>7. QED
    BY <2>2, <2>3, <2>6, Zenon DEF pools, a, b, search
<1>2. SearchFindsRoute /\ [Next]_input => SearchFindsRoute'
  <2> SUFFICES ASSUME SearchFindsRoute, [Next]_input PROVE SearchFindsRoute'
    OBVIOUS
  <2>1. input' = input
    BY Constant
  <2>2. QED
    BY <2>1 DEF SearchFindsRoute
<1>3. QED
  BY <1>1, <1>2, PTL DEF Spec
=============================================================================
