--------------------------- MODULE DexSwapsProofs ---------------------------
(***************************************************************************)
(* Invariants of the swaps, for every table of increasing prices, every    *)
(* genesis block that passes verification, any number of pools, routes of  *)
(* any length, any number of swaps and any interleaving of the calls that  *)
(* settle them.                                                            *)
(***************************************************************************)
EXTENDS DexSwaps, DexPositionsProofs

-----------------------------------------------------------------------------
(* Loops *)

\* One turn of the loop of swap.
LoopTurn(s, poolID, zeroToOne, limit, exactInput, l) ==
    IF l.over \/ l.remaining = 0 \/ l.price = limit THEN {l}
    ELSE Turn(s, poolID, zeroToOne, limit, exactInput, l)

\* The turns of the loops of this module: over the pools of a route, to compute
\* its price or to swap in each of them, and inside a swap.
Hop(kind, a, n, w) ==
    IF kind = "price" THEN CurrentPriceHop(a[1], a[2][n], w)
    ELSE IF kind = "in" THEN HopExactIn(a[1], a[2][n], w)
    ELSE IF kind = "out" THEN HopExactOut(a[1], a[2][n], w)
    ELSE LoopTurn(a[1], a[2], a[3], a[4], a[5], w)

IsLoop(f, N, start, kind, a) ==
    f = [n \in 0..N |-> IF n = 0 THEN {start} ELSE UNION {Hop(kind, a, n, w) : w \in f[n - 1]}]

\* A loop of any number of turns has its function of values.
LEMMA LoopExists ==
    ASSUME NEW start, NEW kind, NEW a
    PROVE  \A N \in Nat : \E f : IsLoop(f, N, start, kind, a)
<1> DEFINE S == {N \in Nat : \E f : IsLoop(f, N, start, kind, a)}
<1>1. 0 \in S
  <2> DEFINE f == [n \in 0..0 |-> {start}]
  <2>1. \A n \in 0..0 : f[n] = IF n = 0 THEN {start} ELSE UNION {Hop(kind, a, n, w) : w \in f[n - 1]}
    OBVIOUS
  <2>2. IsLoop(f, 0, start, kind, a)
    BY <2>1, Zenon DEF IsLoop
  <2>3. QED
    BY <2>2
<1>2. ASSUME NEW N \in S PROVE N + 1 \in S
  <2>1. PICK f : IsLoop(f, N, start, kind, a)
    OBVIOUS
  <2> DEFINE last == UNION {Hop(kind, a, N + 1, w) : w \in f[N]}
             g == [n \in 0..(N + 1) |-> IF n = N + 1 THEN last ELSE f[n]]
  <2>2. \A n \in 0..N : f[n] = IF n = 0 THEN {start} ELSE UNION {Hop(kind, a, n, w) : w \in f[n - 1]}
    BY <2>1, Zenon DEF IsLoop
  <2>3. \A n \in 0..(N + 1) :
          g[n] = IF n = 0 THEN {start} ELSE UNION {Hop(kind, a, n, w) : w \in g[n - 1]}
    <3>1. SUFFICES ASSUME NEW n \in 0..(N + 1)
                   PROVE  g[n] = IF n = 0 THEN {start} ELSE UNION {Hop(kind, a, n, w) : w \in g[n - 1]}
      BY Zenon
    <3>2. CASE n = N + 1
      <4>1. g[n] = last /\ n # 0 /\ g[n - 1] = f[N]
        BY <3>2
      <4>2. QED
        BY <4>1, <3>2, Zenon
    <3>3. CASE n # N + 1
      <4>1. n \in 0..N /\ g[n] = f[n] /\ (n # 0 => g[n - 1] = f[n - 1])
        BY <3>3
      <4>2. QED
        BY <2>2, <4>1, Zenon
    <3>4. QED
      BY <3>2, <3>3
  <2>4. IsLoop(g, N + 1, start, kind, a)
    BY <2>3, Zenon DEF IsLoop
  <2>5. QED
    BY <2>4
<1>3. S = Nat
  <2> HIDE DEF S
  <2>1. S \subseteq Nat
    BY DEF S
  <2>2. QED
    BY <1>1, <1>2, <2>1, SetOfAllNaturals
<1>4. QED
  BY <1>3

\* What every turn preserves holds after the loop: G[n] is what may be true after
\* n turns.
LEMMA LoopInduction ==
    ASSUME NEW start, NEW kind, NEW a, NEW N \in Nat, NEW f, IsLoop(f, N, start, kind, a),
           NEW G, start \in G[0],
           \A n \in 1..N : \A w \in G[n - 1] : Hop(kind, a, n, w) \subseteq G[n]
    PROVE  f[N] \subseteq G[N]
<1> DEFINE S == {n \in Nat : n <= N => f[n] \subseteq G[n]}
<1>1. \A n \in 0..N : f[n] = IF n = 0 THEN {start} ELSE UNION {Hop(kind, a, n, w) : w \in f[n - 1]}
  BY Zenon DEF IsLoop
<1>2. 0 \in S
  <2>1. 0 \in 0..N
    OBVIOUS
  <2>2. f[0] = {start}
    BY <1>1, <2>1, Zenon
  <2>3. QED
    BY <2>2
<1>3. ASSUME NEW n \in S PROVE n + 1 \in S
  <2>1. SUFFICES ASSUME n + 1 <= N PROVE f[n + 1] \subseteq G[n + 1]
    OBVIOUS
  <2>2. n + 1 \in 0..N /\ n + 1 \in 1..N /\ n + 1 # 0 /\ (n + 1) - 1 = n /\ n <= N
    BY <2>1
  <2>3. f[n + 1] = UNION {Hop(kind, a, n + 1, w) : w \in f[n]}
    BY <1>1, <2>2, Zenon
  <2>4. f[n] \subseteq G[n]
    BY <2>2
  <2>5. \A w \in G[n] : Hop(kind, a, n + 1, w) \subseteq G[n + 1]
    BY <2>2
  <2>6. QED
    BY <2>3, <2>4, <2>5, Zenon
<1>4. S = Nat
  <2> HIDE DEF S
  <2>1. S \subseteq Nat
    BY DEF S
  <2>2. QED
    BY <1>2, <1>3, <2>1, SetOfAllNaturals
<1>5. QED
  BY <1>4

\* PricesTo is what the loop over the pools of a route ends with.
LEMMA PriceLoop ==
    ASSUME NEW pools, NEW token, NEW route, Len(route) \in Nat
    PROVE  \E f : /\ IsLoop(f, Len(route), [price |-> 1, token |-> token], "price", <<pools, route>>)
                  /\ PricesTo(pools, token, route) = f[Len(route)]
<1> DEFINE a == <<pools, route>>
           start == [price |-> 1, token |-> token]
           F(f) == f = [n \in 0..Len(route) |->
                          IF n = 0 THEN {[price |-> 1, token |-> token]}
                          ELSE UNION {CurrentPriceHop(pools, route[n], w) : w \in f[n - 1]}]
<1>1. \A n, w : Hop("price", a, n, w) = CurrentPriceHop(pools, route[n], w)
  BY DEF Hop
<1>2. \A f : IsLoop(f, Len(route), start, "price", a) <=> F(f)
  <2> HIDE DEF a
  <2>1. ASSUME NEW f
        PROVE  [n \in 0..Len(route) |-> IF n = 0 THEN {start} ELSE UNION {Hop("price", a, n, w) : w \in f[n - 1]}]
             = [n \in 0..Len(route) |-> IF n = 0 THEN {start} ELSE UNION {CurrentPriceHop(pools, route[n], w) : w \in f[n - 1]}]
    <3>1. ASSUME NEW n PROVE {Hop("price", a, n, w) : w \in f[n - 1]} = {CurrentPriceHop(pools, route[n], w) : w \in f[n - 1]}
      BY <1>1, Zenon
    <3>2. QED
      BY <3>1, Zenon
  <2>2. QED
    BY <2>1, Zenon DEF IsLoop
<1>3. \E f : F(f)
  BY <1>2, LoopExists
<1>4. F(CHOOSE f : F(f))
  <2> HIDE DEF F
  <2>1. QED
    BY <1>3
<1>5. PricesTo(pools, token, route) = (CHOOSE f : F(f))[Len(route)]
  BY Zenon DEF PricesTo
<1> HIDE DEF F, a, start
<1>6. QED
  BY <1>2, <1>4, <1>5 DEF a, start

\* The walks of swapExactIn are what its loop over the route ends with.
LEMMA ExactInLoop ==
    ASSUME NEW s, NEW route, NEW token, NEW amount, Len(route) \in Nat
    PROVE  \E f : /\ IsLoop(f, Len(route), Start(token, amount), "in", <<s, route>>)
                  /\ WalksExactIn(s, route, token, amount) = f[Len(route)]
<1> DEFINE a == <<s, route>>
           F(f) == f = [n \in 0..Len(route) |->
                          IF n = 0 THEN {Start(token, amount)}
                          ELSE UNION {HopExactIn(s, route[n], w) : w \in f[n - 1]}]
<1>1. \A n, w : Hop("in", a, n, w) = HopExactIn(s, route[n], w)
  BY DEF Hop
<1>2. \A f : IsLoop(f, Len(route), Start(token, amount), "in", a) <=> F(f)
  <2> HIDE DEF a
  <2>1. ASSUME NEW f
        PROVE  [n \in 0..Len(route) |-> IF n = 0 THEN {Start(token, amount)} ELSE UNION {Hop("in", a, n, w) : w \in f[n - 1]}]
             = [n \in 0..Len(route) |-> IF n = 0 THEN {Start(token, amount)} ELSE UNION {HopExactIn(s, route[n], w) : w \in f[n - 1]}]
    <3>1. ASSUME NEW n PROVE {Hop("in", a, n, w) : w \in f[n - 1]} = {HopExactIn(s, route[n], w) : w \in f[n - 1]}
      BY <1>1, Zenon
    <3>2. QED
      BY <3>1, Zenon
  <2>2. QED
    BY <2>1, Zenon DEF IsLoop
<1>3. \E f : F(f)
  BY <1>2, LoopExists
<1>4. F(CHOOSE f : F(f))
  <2> HIDE DEF F
  <2>1. QED
    BY <1>3
<1>5. WalksExactIn(s, route, token, amount) = (CHOOSE f : F(f))[Len(route)]
  BY Zenon DEF WalksExactIn
<1> HIDE DEF F, a
<1>6. QED
  BY <1>2, <1>4, <1>5 DEF a

\* The walks of swapExactOut are what its loop over the reversed route ends
\* with.
LEMMA ExactOutLoop ==
    ASSUME NEW s, NEW route, NEW token, NEW amount, Len(route) \in Nat
    PROVE  \E f : /\ IsLoop(f, Len(route), Start(token, amount), "out", <<s, route>>)
                  /\ WalksExactOut(s, route, token, amount) = f[Len(route)]
<1> DEFINE a == <<s, route>>
           F(f) == f = [n \in 0..Len(route) |->
                          IF n = 0 THEN {Start(token, amount)}
                          ELSE UNION {HopExactOut(s, route[n], w) : w \in f[n - 1]}]
<1>1. \A n, w : Hop("out", a, n, w) = HopExactOut(s, route[n], w)
  BY DEF Hop
<1>2. \A f : IsLoop(f, Len(route), Start(token, amount), "out", a) <=> F(f)
  <2> HIDE DEF a
  <2>1. ASSUME NEW f
        PROVE  [n \in 0..Len(route) |-> IF n = 0 THEN {Start(token, amount)} ELSE UNION {Hop("out", a, n, w) : w \in f[n - 1]}]
             = [n \in 0..Len(route) |-> IF n = 0 THEN {Start(token, amount)} ELSE UNION {HopExactOut(s, route[n], w) : w \in f[n - 1]}]
    <3>1. ASSUME NEW n PROVE {Hop("out", a, n, w) : w \in f[n - 1]} = {HopExactOut(s, route[n], w) : w \in f[n - 1]}
      BY <1>1, Zenon
    <3>2. QED
      BY <3>1, Zenon
  <2>2. QED
    BY <2>1, Zenon DEF IsLoop
<1>3. \E f : F(f)
  BY <1>2, LoopExists
<1>4. F(CHOOSE f : F(f))
  <2> HIDE DEF F
  <2>1. QED
    BY <1>3
<1>5. WalksExactOut(s, route, token, amount) = (CHOOSE f : F(f))[Len(route)]
  BY Zenon DEF WalksExactOut
<1> HIDE DEF F, a
<1>6. QED
  BY <1>2, <1>4, <1>5 DEF a

\* The loop's variables before the first turn.
SwapStart(pool, amount) ==
    [price |-> pool.sqrtPrice, remaining |-> amount, over |-> FALSE,
     feeGrowth |-> pool.feeGrowthGlobal,
     in |-> 0, out |-> 0, feesIn |-> 0, feesOut |-> 0, crossed |-> 0]

\* A swap is empty, its limit being reached, or what the loop of swap ends
\* with.
LEMMA SwapLoop ==
    ASSUME NEW s, NEW poolID \in DOMAIN s.pools, NEW zeroToOne, NEW limit, NEW amount, NEW exactInput,
           NEW swap \in Swap(s, poolID, zeroToOne, limit, amount, exactInput)
    PROVE  \/ swap = Nothing
           \/ /\ ~(IF zeroToOne THEN limit >= s.pools[poolID].sqrtPrice
                                  ELSE limit <= s.pools[poolID].sqrtPrice)
              /\ \E f : /\ IsLoop(f, MaxNumberCrossedTicks + 1, SwapStart(s.pools[poolID], amount), "swap",
                               <<s, poolID, zeroToOne, limit, exactInput>>)
                        /\ \E l \in f[MaxNumberCrossedTicks + 1] :
                             swap = [key \in DOMAIN Nothing |-> l[key]]
<1> DEFINE a == <<s, poolID, zeroToOne, limit, exactInput>>
           pool == s.pools[poolID]
           start == SwapStart(pool, amount)
           M == MaxNumberCrossedTicks + 1
           stopped == IF zeroToOne THEN limit >= pool.sqrtPrice ELSE limit <= pool.sqrtPrice
           turned(l) == IF l.over \/ l.remaining = 0 \/ l.price = limit THEN {l}
                        ELSE Turn(s, poolID, zeroToOne, limit, exactInput, l)
           F(f) == f = [n \in 0..M |-> IF n = 0 THEN {start} ELSE UNION {turned(l) : l \in f[n - 1]}]
           loop == CHOOSE f : F(f)
<1>1. \A n, w : Hop("swap", a, n, w) = turned(w)
  BY DEF Hop, LoopTurn
<1>2. \A f : IsLoop(f, M, start, "swap", a) <=> F(f)
  <2> HIDE DEF a, turned, M, start
  <2>1. ASSUME NEW f
        PROVE  [n \in 0..M |-> IF n = 0 THEN {start} ELSE UNION {Hop("swap", a, n, w) : w \in f[n - 1]}]
             = [n \in 0..M |-> IF n = 0 THEN {start} ELSE UNION {turned(w) : w \in f[n - 1]}]
    <3>1. ASSUME NEW n PROVE {Hop("swap", a, n, w) : w \in f[n - 1]} = {turned(w) : w \in f[n - 1]}
      BY <1>1, Zenon
    <3>2. QED
      BY <3>1, Zenon
  <2>2. QED
    BY <2>1, Zenon DEF IsLoop
<1>3. M \in Nat
  BY SwapsAssumption
<1>4. \E f : F(f)
  <2> HIDE DEF F, M, start, a
  <2>1. QED
    BY <1>2, <1>3, LoopExists
<1>5. F(loop)
  <2> HIDE DEF F
  <2>1. QED
    BY <1>4 DEF loop
<1>6. Swap(s, poolID, zeroToOne, limit, amount, exactInput) =
        IF poolID \notin DOMAIN s.pools THEN {}
        ELSE IF stopped THEN {Nothing}
        ELSE {[key \in DOMAIN Nothing |-> l[key]] : l \in {l \in loop[M] : Serializable(l.price)}}
  BY Zenon DEF Swap, SwapStart
<1> HIDE DEF F, loop, turned, M, start, a
<1>7. IsLoop(loop, M, start, "swap", a)
  BY <1>2, <1>5
<1>8. CASE stopped
  BY <1>6, <1>8
<1>9. CASE ~stopped
  <2>1. PICK l \in loop[M] : swap = [key \in DOMAIN Nothing |-> l[key]]
    BY <1>6, <1>9
  <2>2. QED
    BY <1>7, <1>9, <2>1 DEF M, start, a
<1>10. QED
  BY <1>8, <1>9

-----------------------------------------------------------------------------
(* Fees *)

\* Division rounds down for negative numbers, too.
LEMMA IntDivBounds ==
    ASSUME NEW a \in Int, NEW b \in Nat \ {0}
    PROVE  a \div b \in Int /\ b * (a \div b) <= a /\ a < b * (a \div b) + b
OBVIOUS

\* A quotient is not below a number that fits b times below the dividend.
LEMMA IntDivGeq ==
    ASSUME NEW a \in Int, NEW b \in Nat \ {0}, NEW q \in Int, b * q <= a
    PROVE  q <= a \div b
<1> DEFINE d == a \div b
<1>1. d \in Int /\ a < b * d + b
  BY IntDivBounds
<1> HIDE DEF d
<1>2. b * q < b * (d + 1)
  BY <1>1
<1>3. q < d + 1
  BY <1>1, <1>2
<1>4. QED
  BY <1>1, <1>3 DEF d

\* Every pool has a fee tier, whether users or the genesis block created it.
LEMMA FeeTierNat == ASSUME NEW p \in Pools PROVE FeeTier(p) \in Nat
<1>1. CASE p \in UserPools
  <2>1. PICK pair \in Pairs, tier \in DOMAIN TickSpacing : p \in PoolIDs(pair[1], pair[2], tier)
    BY <1>1 DEF UserPools
  <2>2. p = <<pair[1], pair[2], tier * TierByte>>
    BY <2>1 DEF PoolIDs
  <2>3. FeeTier(p) = tier * TierByte
    BY <2>2 DEF FeeTier
  <2>4. tier \in Nat /\ TierByte \in Nat
    BY PositionsAssumption, StoresAssumption
  <2>5. QED
    BY <2>3, <2>4
<1>2. CASE p \notin UserPools
  <2>1. PICK i : p = GenesisPoolID(i)
    BY <1>2 DEF Pools
  <2>2. QED
    BY <2>1 DEF GenesisPoolID, FeeTier
<1>3. QED
  BY <1>1, <1>2

\* The fee that is taken from an amount is a part of it.
LEMMA FeeBeforePart ==
    ASSUME FeesModest, NEW p \in Pools, NEW a \in Nat
    PROVE  FeeBefore(p, a) \in Nat /\ FeeBefore(p, a) <= a
<1> DEFINE half == FeeTier(p) \div 2
           c == (half * One) \div FeeTierPartition
           m == (a * c) \div One
<1>1. half \in Nat /\ half <= One /\ One \in Nat \ {0} /\ FeeTierPartition \in Nat \ {0}
  BY FeeTierNat, OneAssumption, SwapsAssumption DEF FeesModest
<1>2. FeeBefore(p, a) = RoundUpQ96(m)
  BY DEF FeeBefore, FeeCoeffAmountBefore, MulQ96, DivQ96
<1> HIDE DEF half
<1>3. c \in Nat /\ c <= half * One
  <2>1. half * One \in Nat
    BY <1>1
  <2>2. c \in Nat /\ FeeTierPartition * c <= half * One
    BY <1>1, <2>1, DivBounds
  <2> HIDE DEF c
  <2>3. c <= FeeTierPartition * c
    BY <1>1, <2>2
  <2>4. QED
    BY <2>1, <2>2, <2>3, <1>1
<1> HIDE DEF c
<1>4. a * c \in Nat /\ a * c <= One * (a * One)
  <2>1. c <= One * One
    BY <1>1, <1>3
  <2>2. a * c <= a * (One * One)
    BY <1>1, <1>3, <2>1
  <2>3. QED
    BY <1>1, <1>3, <2>2
<1>5. m \in Nat /\ One * m <= a * c
  BY <1>1, <1>4, DivBounds
<1> HIDE DEF m
<1>6. One * m <= One * (a * One)
  BY <1>1, <1>4, <1>5
<1>7. m <= One * a
  BY <1>1, <1>5, <1>6
<1>8. QED
  BY <1>2, <1>5, <1>7, RoundUp, RoundUpLeq

\* The fee that is added to an amount is not below its negative.
LEMMA FeeAfterPart ==
    ASSUME FeesModest, NEW p \in Pools, NEW a \in Nat
    PROVE  FeeAfter(p, a) \in Int /\ FeeAfter(p, a) >= -a
<1> DEFINE half == FeeTier(p) \div 2
           c == FeeCoeffAmountAfter(p)
           m == (a * c) \div One
<1>1. half \in Nat /\ half <= One /\ One \in Nat \ {0} /\ FeeTierPartition \in Nat \ {0}
      /\ half # FeeTierPartition
  BY FeeTierNat, OneAssumption, SwapsAssumption DEF FeesModest
<1>2. FeeAfter(p, a) = RoundUpQ96(m)
  BY DEF FeeAfter, MulQ96
<1>3. c \in Int /\ c >= -(One * One)
  <2>1. half * One \in Nat
    BY <1>1
  <2>2. c = IF half < FeeTierPartition THEN (half * One) \div (FeeTierPartition - half)
            ELSE -((half * One) \div (half - FeeTierPartition))
    BY DEF FeeCoeffAmountAfter, DivQ96
  <2> HIDE DEF half, c
  <2>3. CASE half < FeeTierPartition
    <3>1. FeeTierPartition - half \in Nat \ {0}
      BY <1>1, <2>3
    <3>2. c \in Nat
      BY <2>1, <2>2, <2>3, <3>1, DivBounds
    <3>3. One * One \in Nat
      BY <1>1
    <3>4. QED
      BY <3>2, <3>3
  <2>4. CASE ~(half < FeeTierPartition)
    <3> DEFINE k == half - FeeTierPartition
               d == (half * One) \div k
    <3>1. k \in Nat \ {0}
      BY <1>1, <2>4
    <3>2. c = -d
      BY <2>2, <2>4
    <3> HIDE DEF k
    <3>3. d \in Nat /\ k * d <= half * One
      BY <2>1, <3>1, DivBounds
    <3> HIDE DEF d
    <3>4. d <= k * d
      BY <3>1, <3>3
    <3>5. half * One <= One * One
      BY <1>1
    <3>6. k * d \in Nat /\ One * One \in Nat
      BY <1>1, <3>1, <3>3
    <3>7. d <= One * One
      BY <2>1, <3>3, <3>4, <3>5, <3>6
    <3>8. QED
      BY <3>2, <3>3, <3>6, <3>7
  <2>5. QED
    BY <2>3, <2>4
<1> HIDE DEF c, half
<1>4. a * c \in Int /\ One * (-(a * One)) <= a * c
  <2>1. a * (-(One * One)) <= a * c
    BY <1>1, <1>3
  <2>2. a * (-(One * One)) = One * (-(a * One))
    BY <1>1
  <2>3. QED
    BY <1>3, <2>1, <2>2
<1>5. m \in Int /\ -(a * One) <= m
  <2>1. -(a * One) \in Int
    BY <1>1
  <2>2. QED
    BY <1>1, <1>4, <2>1, IntDivBounds, IntDivGeq
<1> HIDE DEF m
<1>6. m \div One \in Int /\ -a <= m \div One
  <2>1. One * (-a) <= m
    BY <1>1, <1>5
  <2>2. QED
    BY <1>1, <1>5, <2>1, IntDivBounds, IntDivGeq
<1>7. QED
  BY <1>2, <1>6 DEF RoundUpQ96

-----------------------------------------------------------------------------
(* A swap in one pool *)

\* crossTick never finds the record of a tick under its own key.
LEMMA NoRecord ==
    ASSUME NEW s, StoresOK(s), NEW p
    PROVE  RecordKey(p) \notin DOMAIN s.ticks
<1> SUFFICES ASSUME RecordKey(p) \in DOMAIN s.ticks PROVE FALSE
  OBVIOUS
<1>1. PICK q \in DOMAIN s.pools, tick \in Ticks :
        RecordKey(p) = TickKey(q, tick) \/ RecordKey(p) = PriceKey(q, tick)
  BY DEF StoresOK, TicksFresh
<1>2. Len(RecordKey(p)) = 2 /\ Len(TickKey(q, tick)) = 3 /\ Len(PriceKey(q, tick)) = 3
  BY DEF RecordKey, TickKey, PriceKey
<1>3. QED
  BY <1>1, <1>2

\* Ticks are stored under indexes of ticks.
LEMMA StoredTick ==
    ASSUME NEW s, StoresOK(s), NEW p, NEW tick, TickKey(p, tick) \in DOMAIN s.ticks
    PROVE  tick \in Ticks
<1>1. PICK q \in DOMAIN s.pools, t \in Ticks :
        TickKey(p, tick) = TickKey(q, t) \/ TickKey(p, tick) = PriceKey(q, t)
  BY DEF StoresOK, TicksFresh
<1>2. TickKey(p, tick) # PriceKey(q, t)
  BY Keys
<1>3. TickKey(p, tick) = TickKey(q, t) => tick = t
  BY Keys
<1>4. QED
  BY <1>1, <1>2, <1>3

\* What the loop of swap leaves alone after it has done no part of a swap.
Idle(l) == l.in = 0 /\ l.out = 0 /\ l.feesIn = 0 /\ l.feesOut = 0

\* A part of a swap that ends before the price One is reached, and what the loop
\* has added up after it.
PartOf(s, p, amount, exactInput) ==
    {part \in Within(s.pools[p], p, One, exactInput, SwapStart(s.pools[p], amount)) :
        part.price # One}

Sums(l, part) ==
    /\ l.in = 0 + part.amountIn + part.feeIn
    /\ l.out = 0 + part.amountOut - part.feeOut
    /\ l.feesIn = 0 + part.feeIn
    /\ l.feesOut = 0 + part.feeOut

\* A swap in a pool whose liquidity can be used.
Usable(s, p, amount) ==
    s.pools[p].liquidity # 0 /\ s.pools[p].sqrtPrice >= One /\ amount # 0

\* The loop's variables after such a part.
AfterPart(n, s, p, amount, exactInput) ==
    \E part \in PartOf(s, p, amount, exactInput) :
        Sums(n, part) /\ n.remaining = amount - Spent(part, exactInput)

\* The one turn that a swap towards higher prices survives.
LEMMA UpwardsOnce ==
    ASSUME NEW s, StoresOK(s), NEW p \in DOMAIN s.pools, NEW limit \in Int, NEW amount,
           NEW exactInput \in BOOLEAN, limit > One,
           NEW n \in Upwards(s, p, limit, exactInput, SwapStart(s.pools[p], amount))
    PROVE  s.pools[p].liquidity # 0 /\ AfterPart(n, s, p, amount, exactInput)
<1> DEFINE pool == s.pools[p]
           l == SwapStart(pool, amount)
           moved == IF pool.liquidity = 0 THEN {[l EXCEPT !.price = NextTickPrice]}
                    ELSE {After(pool, p, FALSE, exactInput, part, l) :
                            part \in Within(pool, p, One, exactInput, l)}
           crossed(m) == IF m.price = NextTickPrice THEN [m EXCEPT !.crossed = @ + 1] ELSE m
<1>1. One \in Int /\ NextTickPrice = One /\ ~(One > limit)
  BY OneAssumption DEF NextTickPrice
<1>2. ~CanCrossTick(s, p, RecordKey(p))
  BY NoRecord DEF CanCrossTick
<1>3. PICK m \in moved : n = crossed(m) /\ m.price # One
  BY <1>1, <1>2, Zenon DEF Upwards
<1>4. n = m
  BY <1>1, <1>3
<1>5. pool.liquidity # 0
  <2>1. SUFFICES ASSUME pool.liquidity = 0 PROVE FALSE
    OBVIOUS
  <2>2. m = [l EXCEPT !.price = NextTickPrice]
    BY <1>3, <2>1
  <2>3. m.price = One
    BY <1>1, <2>2 DEF SwapStart
  <2>4. QED
    BY <1>3, <2>3
<1>6. PICK part \in Within(pool, p, One, exactInput, l) : m = After(pool, p, FALSE, exactInput, part, l)
  BY <1>3, <1>5
<1>7. /\ m.price = part.price /\ m.over = FALSE /\ m.remaining = amount - Spent(part, exactInput)
      /\ m.in = 0 + part.amountIn + part.feeIn
      /\ m.out = 0 + part.amountOut - part.feeOut
      /\ m.feesIn = 0 + part.feeIn
      /\ m.feesOut = 0 + part.feeOut
  BY <1>6 DEF After, SwapStart
<1>8. part \in PartOf(s, p, amount, exactInput) /\ Sums(n, part)
  BY <1>3, <1>4, <1>6, <1>7 DEF PartOf, Sums
<1>9. QED
  BY <1>4, <1>5, <1>7, <1>8 DEF AfterPart

\* A part that ends before its target uses up all that remains.
LEMMA PartUsesAll ==
    ASSUME NEW s, NEW p, NEW amount \in Int, NEW exactInput \in BOOLEAN,
           NEW part \in PartOf(s, p, amount, exactInput),
           part.amountIn \in Int, part.amountOut \in Int
    PROVE  /\ exactInput => part.feeIn = amount - part.amountIn
           /\ ~exactInput => part.feeOut = part.amountOut - amount
           /\ amount - Spent(part, exactInput) = 0
<1> DEFINE pool == s.pools[p]
           l == SwapStart(pool, amount)
           offered == IF exactInput THEN l.remaining - FeeBefore(p, l.remaining)
                                    ELSE l.remaining + FeeAfter(p, l.remaining)
           step == SwapWithin(l.price, One, pool.liquidity, offered, exactInput)
           partial == step.price # One
<1>1. /\ l.remaining = amount
      /\ part = [price |-> step.price, amountIn |-> step.amountIn, amountOut |-> step.amountOut,
                 feeIn |-> IF partial /\ exactInput THEN l.remaining - step.amountIn
                                                    ELSE FeeAfter(p, step.amountIn),
                 feeOut |-> IF partial /\ ~exactInput THEN step.amountOut - l.remaining
                                                      ELSE FeeBefore(p, step.amountOut)]
  BY DEF PartOf, Within, SwapStart
<1> HIDE DEF l, step
<1>2. partial
  BY <1>1 DEF PartOf
<1>3. /\ exactInput => part.feeIn = amount - part.amountIn
      /\ ~exactInput => part.feeOut = part.amountOut - amount
  BY <1>1, <1>2
<1>4. amount - Spent(part, exactInput) = 0
  BY <1>3 DEF Spent
<1>5. QED
  BY <1>3, <1>4

\* The price and the amounts of a part of a swap with an exact input.
InSums(s, p, amount, part) ==
    LET c == s.pools[p].sqrtPrice
        L == s.pools[p].liquidity
        o == amount - FeeBefore(p, amount)
    IN  /\ o \in Nat /\ part.price \in Nat /\ One <= part.price /\ part.price <= c
        /\ part.amountIn = In0(part.price, c, L) /\ part.amountIn \in Nat
        /\ part.amountOut = Out1(part.price, c, L) /\ part.amountOut \in Nat
        /\ part.feeIn = amount - part.amountIn
        /\ part.feeOut = FeeBefore(p, part.amountOut)
        /\ L * One + o * c <= One * c => part.amountIn <= o

\* A part of an exact-input swap takes the amounts of its price range.
LEMMA PartIn ==
    ASSUME FeesModest, NEW s, NEW p \in Pools, s.pools[p] \in PoolType, NEW amount \in Nat,
           Usable(s, p, amount), NEW part \in PartOf(s, p, amount, TRUE)
    PROVE  InSums(s, p, amount, part)
<1> DEFINE pool == s.pools[p]
           c == pool.sqrtPrice
           L == pool.liquidity
           o == amount - FeeBefore(p, amount)
           step == StepIn(c, One, L, o)
           l == SwapStart(pool, amount)
<1>1. c \in Nat /\ One <= c /\ L \in Nat \ {0} /\ One \in Nat \ {0} /\ o \in Nat
  <2>1. pool.liquidity \in 0..(LiquidityLimit - 1) /\ pool.sqrtPrice \in 0..(One * One - 1)
    BY DEF PoolType
  <2>2. FeeBefore(p, amount) \in Nat /\ FeeBefore(p, amount) <= amount
    BY FeeBeforePart
  <2>3. QED
    BY <2>1, <2>2, OneAssumption DEF Usable
<1>2. l.price = c /\ l.remaining = amount
  BY DEF SwapStart
<1>3. /\ step.price # One
      /\ part = [price |-> step.price, amountIn |-> step.amountIn, amountOut |-> step.amountOut,
                 feeIn |-> amount - step.amountIn, feeOut |-> FeeBefore(p, step.amountOut)]
  <2> HIDE DEF l
  <2>1. /\ part.price # One
        /\ part \in Within(pool, p, One, TRUE, l)
    BY DEF PartOf, l
  <2>2. part \in {[price |-> step.price, amountIn |-> step.amountIn, amountOut |-> step.amountOut,
                   feeIn |-> IF step.price # One THEN amount - step.amountIn
                             ELSE FeeAfter(p, step.amountIn),
                   feeOut |-> FeeBefore(p, step.amountOut)]}
    BY <1>2, <2>1, ZenonT(40) DEF Within, StepIn
  <2> DEFINE feeIn == IF step.price # One THEN amount - step.amountIn
                      ELSE FeeAfter(p, step.amountIn)
             feeOut == FeeBefore(p, step.amountOut)
  <2>3. part = [price |-> step.price, amountIn |-> step.amountIn, amountOut |-> step.amountOut,
                feeIn |-> feeIn, feeOut |-> feeOut]
    BY <2>2
  <2> HIDE DEF step, feeIn, feeOut
  <2>4. step.price # One
    BY <2>1, <2>3
  <2>5. feeIn = amount - step.amountIn
    BY <2>4 DEF feeIn
  <2>6. QED
    BY <2>3, <2>4, <2>5 DEF feeOut
<1> HIDE DEF l, o
<1>4. /\ step.price \in Nat /\ One <= step.price /\ step.price <= c
      /\ step.amountIn = In0(step.price, c, L)
      /\ step.amountOut = Out1(step.price, c, L)
      /\ L * One + o * c <= One * c => step.amountIn <= o
  BY <1>1, StepDown
<1> HIDE DEF step, c, L
<1>5. step.price \in Nat \ {0}
  BY <1>1, <1>4
<1>6. In0(step.price, c, L) \in Nat /\ Out1(step.price, c, L) \in Nat
  BY <1>1, <1>4, <1>5, In0Nat, OutNat
<1>7. QED
  BY <1>1, <1>3, <1>4, <1>6 DEF c, L, o, InSums

\* The price after an amount of the second token has been taken out.
NextOut(current, liquidity, amount) ==
    NextPrice0(current, NumberToQ96(liquidity),
               NumberToQ96(liquidity) - MulQ96(NumberToQ96(amount), current))

\* It rises by the share of that amount among the second token of the range.
LEMMA NextPriceOut ==
    ASSUME NEW current \in Nat, NEW liquidity \in Nat \ {0}, NEW amount \in Nat,
           MulQ96(NumberToQ96(amount), current) < NumberToQ96(liquidity)
    PROVE  LET d == liquidity * One - amount * current
           IN  /\ d \in Nat \ {0}
               /\ \E x \in Nat :
                    /\ NextOut(current, liquidity, amount) = RoundUpQ96(x)
                    /\ current * One <= x
                    /\ One * (One * (liquidity * current)) < d * x + d
<1> DEFINE l == NumberToQ96(liquidity)
           a == NumberToQ96(amount)
           d == l - MulQ96(a, current)
           y == l * current * One
           x == y \div d
<1>1. l = liquidity * One /\ a = amount * One
  BY DEF NumberToQ96
<1>2. MulQ96(a, current) = amount * current
  <2>1. amount * current \in Nat
    OBVIOUS
  <2>2. a * current = One * (amount * current)
    BY <1>1, OneAssumption
  <2>3. QED
    BY <2>1, <2>2, OneAssumption, DivExact DEF MulQ96
<1>3. d = liquidity * One - amount * current /\ d \in Nat \ {0} /\ d <= liquidity * One
  <2>1. liquidity * One \in Nat /\ amount * current \in Nat /\ amount * current < liquidity * One
    BY <1>1, <1>2, OneAssumption
  <2>2. QED
    BY <1>1, <1>2, <2>1
<1>4. NextOut(current, liquidity, amount) = RoundUpQ96(x)
  BY DEF NextOut, NextPrice0, MulDivRoundUpQ96
<1>5. y = One * (One * (liquidity * current)) /\ y \in Nat /\ y = (liquidity * One) * (current * One)
  <2>1. liquidity * current \in Nat
    OBVIOUS
  <2>2. y = (liquidity * One) * current * One
    BY <1>1
  <2>3. (liquidity * One) * current * One = One * (One * (liquidity * current))
    BY OneAssumption
  <2>4. One * (liquidity * current) \in Nat
    BY <2>1, OneAssumption
  <2>5. One * (One * (liquidity * current)) \in Nat
    BY <2>4, OneAssumption
  <2>6. (liquidity * One) * current * One = (liquidity * One) * (current * One)
    BY OneAssumption
  <2>7. QED
    BY <2>2, <2>3, <2>5, <2>6
<1> HIDE DEF l, a, d, y
<1>6. x \in Nat /\ y < d * x + d
  BY <1>3, <1>5, DivBounds
<1>7. current * One <= x
  <2>1. current * One \in Nat /\ liquidity * One \in Nat
    BY OneAssumption
  <2>2. d * (current * One) <= (liquidity * One) * (current * One)
    BY <1>3, <2>1
  <2>3. QED
    BY <1>3, <1>5, <2>1, <2>2, DivGeq
<1> HIDE DEF x
<1>8. QED
  BY <1>3, <1>4, <1>5, <1>6, <1>7

\* The price and the amounts of a part of a swap with an exact output.
OutSums(s, p, amount, part) ==
    LET c == s.pools[p].sqrtPrice
        L == s.pools[p].liquidity
        o == amount + FeeAfter(p, amount)
    IN  /\ o \in Nat /\ MulQ96(NumberToQ96(o), c) < NumberToQ96(L)
        /\ part.price = NextOut(c, L, o) /\ part.price \in Nat /\ c <= part.price
        /\ part.amountIn = In0(c, part.price, L) /\ part.amountIn \in Nat
        /\ part.amountOut = Out1(c, part.price, L) /\ part.amountOut \in Nat
        /\ part.feeIn = FeeAfter(p, part.amountIn)
        /\ part.feeOut = part.amountOut - amount

\* A part of an exact-output swap gives the amounts of its price range.
LEMMA PartOut ==
    ASSUME FeesModest, NEW s, NEW p \in Pools, s.pools[p] \in PoolType, NEW amount \in Nat,
           Usable(s, p, amount), NEW part \in PartOf(s, p, amount, FALSE)
    PROVE  OutSums(s, p, amount, part)
<1> DEFINE pool == s.pools[p]
           c == pool.sqrtPrice
           L == pool.liquidity
           o == amount + FeeAfter(p, amount)
           step == SwapWithin(c, One, L, o, FALSE)
           l == SwapStart(pool, amount)
           u == NextOut(c, L, o)
<1>1. c \in Nat \ {0} /\ c \in Nat /\ One <= c /\ L \in Nat \ {0} /\ One \in Nat \ {0} /\ o \in Nat
  <2>1. pool.liquidity \in 0..(LiquidityLimit - 1) /\ pool.sqrtPrice \in 0..(One * One - 1)
    BY DEF PoolType
  <2>2. FeeAfter(p, amount) \in Int /\ FeeAfter(p, amount) >= -amount
    BY FeeAfterPart
  <2>3. QED
    BY <2>1, <2>2, OneAssumption DEF Usable
<1>2. l.price = c /\ l.remaining = amount
  BY DEF SwapStart
<1>3. /\ step.price # One /\ CanSwapWithin(c, One, L, o, FALSE)
      /\ part = [price |-> step.price, amountIn |-> step.amountIn, amountOut |-> step.amountOut,
                 feeIn |-> FeeAfter(p, step.amountIn), feeOut |-> step.amountOut - amount]
  <2> HIDE DEF l
  <2>1. /\ part.price # One
        /\ part \in Within(pool, p, One, FALSE, l)
    BY DEF PartOf, l
  <2>2. /\ CanSwapWithin(c, One, L, o, FALSE)
        /\ part \in {[price |-> step.price, amountIn |-> step.amountIn, amountOut |-> step.amountOut,
                      feeIn |-> FeeAfter(p, step.amountIn),
                      feeOut |-> IF step.price # One THEN step.amountOut - amount
                                 ELSE FeeBefore(p, step.amountOut)]}
    BY <1>2, <2>1, ZenonT(60) DEF Within
  <2> HIDE DEF step
  <2>3. part.price = step.price
    BY <2>2
  <2>4. QED
    BY <2>1, <2>2, <2>3
<1>4. c >= One
  BY <1>1
<1>5. step.price = ComputeNextPrice(c, L, o, TRUE, FALSE)
      /\ ~(o >= AmountNeeded(c, One, L, FALSE))
      /\ step.amountIn = AmountIn(c, step.price, L, TRUE)
      /\ step.amountOut = AmountOut(c, step.price, L, TRUE)
  BY <1>3, <1>4, Zenon DEF SwapWithin
<1>6. step.price = u
  BY <1>5, Zenon DEF ComputeNextPrice, NextOut
<1>7. MulQ96(NumberToQ96(o), c) < NumberToQ96(L)
  BY <1>3, <1>4, <1>5, Zenon DEF CanSwapWithin, HasNextPrice
<1> HIDE DEF l, o, step, c, L
<1>8. u \in Nat /\ c <= u
  <2>1. PICK x \in Nat : u = RoundUpQ96(x) /\ c * One <= x
    BY <1>1, <1>7, NextPriceOut
  <2>2. u \in Nat /\ x <= One * u
    BY <2>1, RoundUp
  <2> HIDE DEF u
  <2>3. One * c <= One * u
    BY <1>1, <2>1, <2>2
  <2>4. QED
    BY <1>1, <2>2, <2>3
<1> HIDE DEF u
<1>9. step.amountIn = In0(c, u, L) /\ step.amountOut = Out1(c, u, L)
  <2>1. ~(c > u)
    BY <1>1, <1>8
  <2>2. QED
    BY <1>5, <1>6, <2>1, Zenon DEF AmountIn, AmountOut, Amount0, Amount1, In0, Out1
<1>10. In0(c, u, L) \in Nat /\ Out1(c, u, L) \in Nat
  BY <1>1, <1>8, In0Nat, OutNat
<1>11. /\ part.price = u /\ part.amountIn = In0(c, u, L) /\ part.amountOut = Out1(c, u, L)
       /\ part.feeIn = FeeAfter(p, part.amountIn) /\ part.feeOut = part.amountOut - amount
  BY <1>3, <1>6, <1>9
<1>12. QED
  BY <1>1, <1>7, <1>8, <1>10, <1>11 DEF c, L, o, u, OutSums

\* What a turn that does not throw makes of the loop's variables: the loop ends.
LEMMA FirstTurn ==
    ASSUME FeesModest, NEW s, StoresOK(s), NEW p \in DOMAIN s.pools, s.pools[p] \in PoolType,
           NEW zeroToOne \in BOOLEAN, NEW limit \in Int, NEW amount \in Nat,
           NEW exactInput \in BOOLEAN, amount # 0,
           ~(IF zeroToOne THEN limit >= s.pools[p].sqrtPrice ELSE limit <= s.pools[p].sqrtPrice),
           NEW n \in Turn(s, p, zeroToOne, limit, exactInput, SwapStart(s.pools[p], amount))
    PROVE  /\ n.over \/ n.remaining = 0
           /\ \/ Idle(n)
              \/ /\ Usable(s, p, amount)
                 /\ \E part \in PartOf(s, p, amount, exactInput) : Sums(n, part)
<1> DEFINE l == SwapStart(s.pools[p], amount)
           c == s.pools[p].sqrtPrice
           tick == PriceToTick(c)
<1>1. l.price = c /\ c \in Nat /\ p \in Pools
  <2>1. s.pools[p].sqrtPrice \in 0..(One * One - 1)
    BY DEF PoolType
  <2>2. QED
    BY <2>1 DEF SwapStart, StoresOK
<1>2. /\ TickKey(p, tick) \in DOMAIN s.ticks /\ ~(tick < 0)
      /\ n \in IF zeroToOne THEN Downwards(s, tick, l) ELSE Upwards(s, p, limit, exactInput, l)
  <2>1. n \in Turn(s, p, zeroToOne, limit, exactInput, l)
    OBVIOUS
  <2> HIDE DEF l
  <2>2. Turn(s, p, zeroToOne, limit, exactInput, l) =
          IF \/ l.crossed >= MaxNumberCrossedTicks
             \/ TickKey(p, PriceToTick(l.price)) \notin DOMAIN s.ticks
             \/ PriceToTick(l.price) < 0
          THEN {}
          ELSE IF zeroToOne THEN Downwards(s, PriceToTick(l.price), l)
                            ELSE Upwards(s, p, limit, exactInput, l)
    BY Zenon DEF Turn, TurnAt
  <2>3. l.price = c
    BY <1>1
  <2>4. Turn(s, p, zeroToOne, limit, exactInput, l) =
          IF l.crossed >= MaxNumberCrossedTicks \/ TickKey(p, tick) \notin DOMAIN s.ticks \/ tick < 0
          THEN {}
          ELSE IF zeroToOne THEN Downwards(s, tick, l) ELSE Upwards(s, p, limit, exactInput, l)
    BY <2>2, <2>3, Zenon
  <2> HIDE DEF tick, c
  <2>5. QED
    BY <2>1, <2>4
<1>3. tick \in Int
  <2>1. tick \in Ticks
    BY <1>2, StoredTick
  <2>2. QED
    BY <2>1, TickAssumption DEF Ticks
<1> HIDE DEF tick
<1>4. CASE zeroToOne
  <2>1. n \in Downwards(s, tick, l)
    BY <1>2, <1>4
  <2>2. n = [l EXCEPT !.over = TRUE]
    BY <2>1, Zenon DEF Downwards
  <2>3. QED
    BY <2>2 DEF SwapStart, Idle
<1>5. CASE ~zeroToOne
  <2>1. n \in Upwards(s, p, limit, exactInput, l)
    BY <1>2, <1>5
  <2>2. c >= One
    BY <1>1, <1>2, <1>3, NotBelowOne DEF tick
  <2>3. limit > One
    BY <1>1, <1>5, <2>2, OneAssumption
  <2>4. s.pools[p].liquidity # 0 /\ AfterPart(n, s, p, amount, exactInput)
    BY <2>1, <2>3, UpwardsOnce, Zenon
  <2>5. PICK part \in PartOf(s, p, amount, exactInput) :
          Sums(n, part) /\ n.remaining = amount - Spent(part, exactInput)
    BY <2>4 DEF AfterPart
  <2>6. Usable(s, p, amount)
    BY <2>2, <2>4 DEF Usable
  <2>7. part.amountIn \in Nat /\ part.amountOut \in Nat
    <3>1. CASE exactInput
      <4>1. part \in PartOf(s, p, amount, TRUE)
        BY <3>1
      <4>2. QED
        BY <1>1, <2>6, <4>1, PartIn DEF InSums
    <3>2. CASE ~exactInput
      <4>1. part \in PartOf(s, p, amount, FALSE)
        BY <3>2
      <4>2. QED
        BY <1>1, <2>6, <4>1, PartOut DEF OutSums
    <3>3. QED
      BY <3>1, <3>2
  <2>8. amount - Spent(part, exactInput) = 0
    BY <2>7, PartUsesAll
  <2>9. QED
    BY <2>5, <2>6, <2>8
<1>6. QED
  BY <1>4, <1>5

\* A swap that does not throw takes and gives nothing or is one part that ends
\* before the price One: every tick it would have to cross is not found.
LEMMA SwapCases ==
    ASSUME FeesModest, NEW s, StoresOK(s), PoolsEncoded(s), NEW p,
           NEW zeroToOne \in BOOLEAN, NEW limit \in Int, NEW amount \in Nat,
           NEW exactInput \in BOOLEAN,
           NEW swap \in Swap(s, p, zeroToOne, limit, amount, exactInput)
    PROVE  /\ p \in DOMAIN s.pools /\ p \in Pools /\ s.pools[p] \in PoolType
           /\ \/ Idle(swap)
              \/ /\ Usable(s, p, amount)
                 /\ \E part \in PartOf(s, p, amount, exactInput) : Sums(swap, part)
<1>1. p \in DOMAIN s.pools
  <2>1. p \notin DOMAIN s.pools => Swap(s, p, zeroToOne, limit, amount, exactInput) = {}
    BY Zenon DEF Swap
  <2>2. QED
    BY <2>1
<1>2. p \in Pools /\ s.pools[p] \in PoolType
  BY <1>1 DEF StoresOK, PoolsEncoded
<1> DEFINE Ends(l) ==
             \/ Idle(l)
             \/ /\ Usable(s, p, amount)
                /\ \E part \in PartOf(s, p, amount, exactInput) : Sums(l, part)
<1>3. CASE swap = Nothing
  BY <1>1, <1>2, <1>3 DEF Nothing, Idle
<1>4. CASE swap # Nothing
  <2> DEFINE start == SwapStart(s.pools[p], amount)
             M == MaxNumberCrossedTicks + 1
             a == <<s, p, zeroToOne, limit, exactInput>>
             D == LoopTurn(s, p, zeroToOne, limit, exactInput, start)
             G == [n \in 0..M |-> IF n = 0 THEN {start} ELSE D]
  <2>1. /\ ~(IF zeroToOne THEN limit >= s.pools[p].sqrtPrice ELSE limit <= s.pools[p].sqrtPrice)
        /\ \E f : /\ IsLoop(f, M, start, "swap", a)
                  /\ \E l \in f[M] : swap = [key \in DOMAIN Nothing |-> l[key]]
    <3> HIDE DEF start, M, a
    <3>1. QED
      BY <1>1, <1>4, SwapLoop DEF start, M, a
  <2>2. PICK f : /\ IsLoop(f, M, start, "swap", a)
                 /\ \E l \in f[M] : swap = [key \in DOMAIN Nothing |-> l[key]]
    BY <2>1
  <2>a. PICK l \in f[M] : swap = [key \in DOMAIN Nothing |-> l[key]]
    BY <2>2
  <2>3. M \in Nat \ {0}
    BY SwapsAssumption
  <2>4. \A n, w : Hop("swap", a, n, w) = LoopTurn(s, p, zeroToOne, limit, exactInput, w)
    BY DEF Hop
  <2>5. start.remaining = amount /\ start.over = FALSE /\ Idle(start)
    BY DEF SwapStart, Idle
  <2> HIDE DEF start
  <2>6. ASSUME NEW w \in D
        PROVE  LoopTurn(s, p, zeroToOne, limit, exactInput, w) = {w} /\ Ends(w)
    <3>1. CASE start.over \/ start.remaining = 0 \/ start.price = limit
      <4>1. D = {start}
        BY <3>1, Zenon DEF LoopTurn
      <4>2. w = start
        BY <4>1
      <4>3. QED
        BY <2>5, <4>1, <4>2
    <3>2. CASE ~(start.over \/ start.remaining = 0 \/ start.price = limit)
      <4>1. w \in Turn(s, p, zeroToOne, limit, exactInput, start)
        BY <3>2, Zenon DEF LoopTurn
      <4>2. (w.over \/ w.remaining = 0) /\ Ends(w)
        BY <1>1, <1>2, <2>1, <2>5, <3>2, <4>1, FirstTurn DEF start
      <4>3. QED
        BY <4>2, Zenon DEF LoopTurn
    <3>3. QED
      BY <3>1, <3>2
  <2> HIDE DEF D, a, M
  <2>7. start \in G[0]
    BY <2>3
  <2>8. \A n \in 1..M : \A w \in G[n - 1] : Hop("swap", a, n, w) \subseteq G[n]
    <3>1. SUFFICES ASSUME NEW n \in 1..M, NEW w \in G[n - 1]
                   PROVE  LoopTurn(s, p, zeroToOne, limit, exactInput, w) \subseteq G[n]
      BY <2>4
    <3>2. G[n] = D /\ G[n - 1] = IF n - 1 = 0 THEN {start} ELSE D
      BY <2>3
    <3>3. CASE n - 1 = 0
      <4>1. w = start
        BY <3>2, <3>3
      <4>2. QED
        BY <3>2, <4>1 DEF D
    <3>4. CASE n - 1 # 0
      BY <2>6, <3>2, <3>4
    <3>5. QED
      BY <3>3, <3>4
  <2>9. f[M] \subseteq G[M]
    <3> HIDE DEF G
    <3>1. QED
      BY <2>2, <2>3, <2>7, <2>8, LoopInduction
  <2>10. G[M] = D
    BY <2>3
  <2>11. Ends(l)
    BY <2>a, <2>6, <2>9, <2>10
  <2>12. swap.in = l.in /\ swap.out = l.out /\ swap.feesIn = l.feesIn /\ swap.feesOut = l.feesOut
    BY <2>a DEF Nothing
  <2>13. Ends(swap)
    BY <2>11, <2>12, Zenon DEF Idle, Sums
  <2>14. QED
    BY <1>1, <1>2, <2>13
<1>5. QED
  BY <1>3, <1>4

\* The amounts of a swap.
LEMMA SwapAmountsNat ==
    ASSUME FeesModest, NEW s, StoresOK(s), PoolsEncoded(s), NEW p,
           NEW zeroToOne \in BOOLEAN, NEW limit \in Int, NEW amount \in Nat,
           NEW exactInput \in BOOLEAN,
           NEW swap \in Swap(s, p, zeroToOne, limit, amount, exactInput)
    PROVE  /\ p \in Pools
           /\ swap.in \in Nat /\ swap.out \in Nat /\ swap.feesIn \in Int /\ swap.feesOut \in Int
<1>1. /\ p \in DOMAIN s.pools /\ p \in Pools /\ s.pools[p] \in PoolType
      /\ \/ Idle(swap)
         \/ /\ Usable(s, p, amount)
            /\ \E part \in PartOf(s, p, amount, exactInput) : Sums(swap, part)
  BY SwapCases, Zenon
<1>2. CASE Idle(swap)
  BY <1>1, <1>2 DEF Idle
<1>3. CASE ~Idle(swap)
  <2>0. p \in Pools /\ s.pools[p] \in PoolType
    BY <1>1
  <2>1. Usable(s, p, amount)
    BY <1>1, <1>3
  <2>2. PICK part \in PartOf(s, p, amount, exactInput) : Sums(swap, part)
    BY <1>1, <1>3
  <2>3. CASE exactInput
    <3>1. part \in PartOf(s, p, amount, TRUE)
      BY <2>2, <2>3
    <3>2. InSums(s, p, amount, part)
      BY <2>0, <2>1, <3>1, PartIn
    <3>3. part.feeOut \in Nat /\ part.feeOut <= part.amountOut
      BY <2>0, <3>2, FeeBeforePart DEF InSums
    <3>4. QED
      BY <1>1, <2>2, <3>2, <3>3 DEF Sums, InSums
  <2>4. CASE ~exactInput
    <3>1. part \in PartOf(s, p, amount, FALSE)
      BY <2>2, <2>4
    <3>2. OutSums(s, p, amount, part)
      BY <2>0, <2>1, <3>1, PartOut
    <3>3. part.feeIn \in Int /\ part.feeIn >= -part.amountIn
      BY <2>0, <3>2, FeeAfterPart DEF OutSums
    <3>4. QED
      BY <1>1, <2>2, <3>2, <3>3 DEF Sums, OutSums
  <2>5. QED
    BY <2>3, <2>4
<1>4. QED
  BY <1>2, <1>3

-----------------------------------------------------------------------------
(* Walks *)

\* A swap without a limit of its user's has one.
LEMMA LimitInt == ASSUME NEW zeroToOne \in BOOLEAN PROVE Limit(zeroToOne) \in Int
BY SwapsAssumption DEF Limit

AmountOfToken == [id : Tokens, amount : Nat]
FeesOfSwap == [in : Int, out : Int]

\* The walks over the first n pools of a route.
Walks(n) ==
    {w \in [tokens : Seq(AmountOfToken), fees : Seq(FeesOfSwap)] :
        Len(w.tokens) = n + 1 /\ Len(w.fees) = n}

\* A walk starts with one amount and no fees.
LEMMA StartWalk ==
    ASSUME NEW token \in Tokens, NEW amount \in Nat
    PROVE  Start(token, amount) \in Walks(0)
BY DEF Start, Walks, AmountOfToken

\* A swap makes a walk one amount and one pair of fees longer.
LEMMA WalkedOn ==
    ASSUME NEW n \in Nat, NEW w \in Walks(n), NEW token \in Tokens, NEW amount \in Nat,
           NEW swap, swap.feesIn \in Int, swap.feesOut \in Int
    PROVE  Walked(w, token, amount, swap) \in Walks(n + 1)
<1>1. w.tokens \in Seq(AmountOfToken) /\ w.fees \in Seq(FeesOfSwap) /\ Len(w.tokens) = n + 1 /\ Len(w.fees) = n
  BY DEF Walks
<1>2. [id |-> token, amount |-> amount] \in AmountOfToken
  BY DEF AmountOfToken
<1>3. [in |-> swap.feesIn, out |-> swap.feesOut] \in FeesOfSwap
  BY DEF FeesOfSwap
<1> DEFINE t == [id |-> token, amount |-> amount]
           f == [in |-> swap.feesIn, out |-> swap.feesOut]
<1> HIDE DEF t, f
<1>4. t \in AmountOfToken /\ f \in FeesOfSwap
  BY <1>2, <1>3 DEF t, f
<1>5. /\ Append(w.tokens, t) \in Seq(AmountOfToken) /\ Append(w.fees, f) \in Seq(FeesOfSwap)
      /\ Len(Append(w.tokens, t)) = (n + 1) + 1 /\ Len(Append(w.fees, f)) = n + 1
  BY <1>1, <1>4
<1>6. Walked(w, token, amount, swap) = [tokens |-> Append(w.tokens, t), fees |-> Append(w.fees, f)]
  BY DEF Walked, t, f
<1>7. QED
  BY <1>5, <1>6 DEF Walks

\* The amounts and the fees of a walk, and the last ones.
LEMMA LastOfWalk ==
    ASSUME NEW n \in Nat, NEW w \in Walks(n)
    PROVE  /\ Last(w.tokens) \in AmountOfToken /\ Last(w.tokens) = w.tokens[n + 1]
           /\ \A i \in 1..(n + 1) : w.tokens[i] \in AmountOfToken
           /\ \A i \in 1..n : w.fees[i] \in FeesOfSwap
           /\ n > 0 => Last(w.fees) = w.fees[n]
<1>1. w.tokens \in Seq(AmountOfToken) /\ w.fees \in Seq(FeesOfSwap) /\ Len(w.tokens) = n + 1 /\ Len(w.fees) = n
  BY DEF Walks
<1>2. QED
  BY <1>1 DEF Last

\* A swap of swapExactIn makes a walk one longer.
LEMMA HopInWalks ==
    ASSUME FeesModest, NEW s, StoresOK(s), PoolsEncoded(s), NEW p,
           NEW n \in Nat, NEW w \in Walks(n), NEW v \in HopExactIn(s, p, w)
    PROVE  v \in Walks(n + 1)
<1> DEFINE given == Last(w.tokens)
           zeroToOne == Token0(p) = given.id
<1>1. PICK swap \in Swap(s, p, TRUE, Limit(zeroToOne), given.amount, TRUE) :
        v = Walked(w, TokenOf(p, IF zeroToOne THEN 1 ELSE 0), swap.out, swap)
  BY Zenon DEF HopExactIn
<1>2. given.amount \in Nat
  BY LastOfWalk DEF AmountOfToken
<1>3. zeroToOne \in BOOLEAN
  OBVIOUS
<1>4. Limit(zeroToOne) \in Int
  BY <1>3, LimitInt
<1> HIDE DEF zeroToOne, given
<1>5. p \in Pools /\ swap.out \in Nat /\ swap.feesIn \in Int /\ swap.feesOut \in Int
  BY <1>1, <1>2, <1>4, SwapAmountsNat
<1>6. TokenOf(p, IF zeroToOne THEN 1 ELSE 0) \in Tokens
  BY <1>5, PositionsAssumption DEF TokenOf
<1>7. QED
  BY <1>1, <1>5, <1>6, WalkedOn

\* A swap of swapExactOut makes a walk one longer.
LEMMA HopOutWalks ==
    ASSUME FeesModest, NEW s, StoresOK(s), PoolsEncoded(s), NEW p,
           NEW n \in Nat, NEW w \in Walks(n), NEW v \in HopExactOut(s, p, w)
    PROVE  v \in Walks(n + 1)
<1> DEFINE asked == Last(w.tokens)
           zeroToOne == Token1(p) = asked.id
<1>1. PICK swap \in Swap(s, p, zeroToOne, Limit(zeroToOne), asked.amount, FALSE) :
        v = Walked(w, TokenOf(p, IF zeroToOne THEN 0 ELSE 1), swap.in, swap)
  BY Zenon DEF HopExactOut
<1>2. asked.amount \in Nat
  BY LastOfWalk DEF AmountOfToken
<1>3. zeroToOne \in BOOLEAN
  OBVIOUS
<1>4. Limit(zeroToOne) \in Int
  BY <1>3, LimitInt
<1> HIDE DEF zeroToOne, asked
<1>5. p \in Pools /\ swap.in \in Nat /\ swap.feesIn \in Int /\ swap.feesOut \in Int
  BY <1>1, <1>2, <1>3, <1>4, SwapAmountsNat
<1>6. TokenOf(p, IF zeroToOne THEN 0 ELSE 1) \in Tokens
  BY <1>5, PositionsAssumption DEF TokenOf
<1>7. QED
  BY <1>1, <1>5, <1>6, WalkedOn

\* A walk along a route has an amount before and after each of its pools.
LEMMA WalksTyped ==
    ASSUME FeesModest, NEW s, StoresOK(s), PoolsEncoded(s), NEW route, Len(route) \in Nat,
           NEW token \in Tokens, NEW amount \in Nat
    PROVE  /\ WalksExactIn(s, route, token, amount) \subseteq Walks(Len(route))
           /\ WalksExactOut(s, route, token, amount) \subseteq Walks(Len(route))
<1> DEFINE N == Len(route)
           a == <<s, route>>
           start == Start(token, amount)
           G == [n \in 0..N |-> Walks(n)]
<1>1. start \in G[0]
  BY StartWalk
<1>2. \A n \in 1..N : n - 1 \in Nat /\ (n - 1) + 1 = n /\ G[n - 1] = Walks(n - 1) /\ G[n] = Walks(n)
  OBVIOUS
<1>3. /\ \A n, w : Hop("in", a, n, w) = HopExactIn(s, route[n], w)
      /\ \A n, w : Hop("out", a, n, w) = HopExactOut(s, route[n], w)
  BY DEF Hop
<1> HIDE DEF a
<1>4. \A n \in 1..N : \A w \in G[n - 1] : Hop("in", a, n, w) \subseteq G[n]
  <2>1. ASSUME NEW n \in 1..N, NEW w \in G[n - 1] PROVE Hop("in", a, n, w) \subseteq G[n]
    <3>1. w \in Walks(n - 1) /\ n - 1 \in Nat /\ (n - 1) + 1 = n
      BY <1>2, <2>1
    <3>2. ASSUME NEW v \in HopExactIn(s, route[n], w) PROVE v \in Walks(n)
      <4>1. v \in Walks((n - 1) + 1)
        BY <3>1, HopInWalks
      <4>2. QED
        BY <3>1, <4>1
    <3>3. Hop("in", a, n, w) = HopExactIn(s, route[n], w) /\ G[n] = Walks(n)
      BY <1>2, <1>3
    <3>4. QED
      BY <3>2, <3>3
  <2>2. QED
    BY <2>1
<1>5. \A n \in 1..N : \A w \in G[n - 1] : Hop("out", a, n, w) \subseteq G[n]
  <2>1. ASSUME NEW n \in 1..N, NEW w \in G[n - 1] PROVE Hop("out", a, n, w) \subseteq G[n]
    <3>1. w \in Walks(n - 1) /\ n - 1 \in Nat /\ (n - 1) + 1 = n
      BY <1>2, <2>1
    <3>2. ASSUME NEW v \in HopExactOut(s, route[n], w) PROVE v \in Walks(n)
      <4>1. v \in Walks((n - 1) + 1)
        BY <3>1, HopOutWalks
      <4>2. QED
        BY <3>1, <4>1
    <3>3. Hop("out", a, n, w) = HopExactOut(s, route[n], w) /\ G[n] = Walks(n)
      BY <1>2, <1>3
    <3>4. QED
      BY <3>2, <3>3
  <2>2. QED
    BY <2>1
<1>6. G[N] = Walks(N)
  OBVIOUS
<1>a. N \in Nat
  OBVIOUS
<1> HIDE DEF G, start, N
<1>7. WalksExactIn(s, route, token, amount) \subseteq Walks(N)
  <2>1. PICK f : IsLoop(f, N, start, "in", a) /\ WalksExactIn(s, route, token, amount) = f[N]
    BY ExactInLoop DEF start, a, N
  <2>2. f[N] \subseteq G[N]
    BY <1>a, <1>1, <1>4, <2>1, LoopInduction
  <2>3. QED
    BY <1>6, <2>1, <2>2
<1>8. WalksExactOut(s, route, token, amount) \subseteq Walks(N)
  <2>1. PICK f : IsLoop(f, N, start, "out", a) /\ WalksExactOut(s, route, token, amount) = f[N]
    BY ExactOutLoop DEF start, a, N
  <2>2. f[N] \subseteq G[N]
    BY <1>a, <1>1, <1>5, <2>1, LoopInduction
  <2>3. QED
    BY <1>6, <2>1, <2>2
<1>9. QED
  BY <1>7, <1>8 DEF N

-----------------------------------------------------------------------------
(* Calls *)

\* The loop of FlattenSeq.
LEMMA Flattened ==
    ASSUME NEW seqs, Len(seqs) \in Nat \ {0}
    PROVE  \E f : /\ f[1] = seqs[1]
                  /\ \A i \in 2..Len(seqs) : f[i] = f[i - 1] \o seqs[i]
                  /\ FlattenSeq(seqs) = f[Len(seqs)]
<1> DEFINE N == Len(seqs)
           F(f, n) == f = [i \in 1..n |-> IF i = 1 THEN seqs[i] ELSE f[i - 1] \o seqs[i]]
           S == {n \in Nat : n >= 1 => \E f : F(f, n)}
<1>1. 0 \in S
  OBVIOUS
<1>2. ASSUME NEW n \in S PROVE n + 1 \in S
  <2>1. CASE n = 0
    <3> DEFINE f == [i \in 1..1 |-> seqs[1]]
    <3>1. \A i \in 1..1 : f[i] = IF i = 1 THEN seqs[i] ELSE f[i - 1] \o seqs[i]
      OBVIOUS
    <3>2. F(f, 1)
      BY <3>1, Zenon
    <3> HIDE DEF F
    <3>3. QED
      BY <2>1, <3>2
  <2>2. CASE n # 0
    <3>0. n \in Nat /\ n >= 1 /\ \E f : F(f, n)
      <4> HIDE DEF F
      <4>1. QED
        BY <2>2
    <3>1. PICK f : F(f, n)
      <4> HIDE DEF F
      <4>1. QED
        BY <3>0
    <3> DEFINE last == f[n] \o seqs[n + 1]
               g == [i \in 1..(n + 1) |-> IF i = n + 1 THEN last ELSE f[i]]
    <3>2. \A i \in 1..n : f[i] = IF i = 1 THEN seqs[i] ELSE f[i - 1] \o seqs[i]
      BY <3>1, Zenon
    <3>3. \A i \in 1..(n + 1) : g[i] = IF i = 1 THEN seqs[i] ELSE g[i - 1] \o seqs[i]
      <4>1. SUFFICES ASSUME NEW i \in 1..(n + 1)
                     PROVE  g[i] = IF i = 1 THEN seqs[i] ELSE g[i - 1] \o seqs[i]
        BY Zenon
      <4>2. CASE i = n + 1
        <5>1. g[i] = last /\ i # 1 /\ g[i - 1] = f[n]
          <6> HIDE DEF last
          <6>1. QED
            BY <3>0, <4>2
        <5>2. QED
          BY <4>2, <5>1, Zenon
      <4>3. CASE i # n + 1
        <5>1. i \in 1..n /\ g[i] = f[i] /\ (i # 1 => g[i - 1] = f[i - 1])
          BY <4>3
        <5>2. QED
          BY <3>2, <5>1, Zenon
      <4>4. QED
        BY <4>2, <4>3
    <3>4. F(g, n + 1)
      BY <3>3, Zenon
    <3> HIDE DEF F
    <3>5. QED
      BY <3>4
  <2>3. QED
    BY <2>1, <2>2
<1>3. S = Nat
  <2> HIDE DEF S
  <2>1. S \subseteq Nat
    BY DEF S
  <2>2. QED
    BY <1>1, <1>2, <2>1, SetOfAllNaturals
<1>4. \E f : F(f, N)
  <2> HIDE DEF F
  <2>1. N \in S /\ N >= 1
    BY <1>3
  <2> HIDE DEF N
  <2>2. QED
    BY <2>1
<1> DEFINE flat == CHOOSE f : F(f, N)
<1>5. F(flat, N)
  <2> HIDE DEF F
  <2>1. QED
    BY <1>4
<1>6. FlattenSeq(seqs) = flat[N]
  <2>1. Len(seqs) # 0
    OBVIOUS
  <2>2. QED
    BY <2>1, Zenon DEF FlattenSeq
<1>7. \A i \in 1..N : flat[i] = IF i = 1 THEN seqs[i] ELSE flat[i - 1] \o seqs[i]
  <2> HIDE DEF flat
  <2>1. QED
    BY <1>5, Zenon
<1>8. flat[1] = seqs[1] /\ \A i \in 2..N : flat[i] = flat[i - 1] \o seqs[i]
  <2> HIDE DEF flat
  <2>1. N \in Nat /\ 1 \in 1..N
    OBVIOUS
  <2>2. flat[1] = seqs[1]
    BY <1>7, <2>1, Zenon
  <2>3. ASSUME NEW i \in 2..N PROVE flat[i] = flat[i - 1] \o seqs[i]
    <3>1. i \in 1..N /\ i # 1
      BY <2>1
    <3>2. QED
      BY <1>7, <3>1, Zenon
  <2>4. QED
    BY <2>2, <2>3
<1>9. QED
  BY <1>6, <1>8

\* Concatenating sequences over a set gives a sequence over it.
LEMMA FlattenType ==
    ASSUME NEW S, NEW n \in Nat, NEW seqs, seqs \in [1..n -> Seq(S)]
    PROVE  FlattenSeq(seqs) \in Seq(S)
<1>1. Len(seqs) = n
  OBVIOUS
<1>2. CASE n = 0
  <2>1. FlattenSeq(seqs) = seqs
    BY <1>1, <1>2, Zenon DEF FlattenSeq
  <2>2. QED
    BY <1>2, <2>1
<1>3. CASE n # 0
  <2>1. PICK f : /\ f[1] = seqs[1]
                 /\ \A i \in 2..n : f[i] = f[i - 1] \o seqs[i]
                 /\ FlattenSeq(seqs) = f[n]
    BY <1>1, <1>3, Flattened
  <2> DEFINE G == {k \in Nat : k \in 1..n => f[k] \in Seq(S)}
  <2>2. 0 \in G
    OBVIOUS
  <2>3. ASSUME NEW k \in G PROVE k + 1 \in G
    <3>1. SUFFICES ASSUME k + 1 \in 1..n PROVE f[k + 1] \in Seq(S)
      OBVIOUS
    <3>2. CASE k = 0
      BY <2>1, <3>1, <3>2
    <3>3. CASE k # 0
      <4>1. k \in 1..n /\ k + 1 \in 2..n /\ (k + 1) - 1 = k
        BY <3>1, <3>3
      <4>2. f[k + 1] = f[k] \o seqs[k + 1]
        BY <2>1, <4>1
      <4>3. f[k] \in Seq(S) /\ seqs[k + 1] \in Seq(S)
        BY <3>1, <4>1
      <4>4. QED
        BY <4>2, <4>3
    <3>4. QED
      BY <3>2, <3>3
  <2>4. G = Nat
    <3> HIDE DEF G
    <3>1. G \subseteq Nat
      BY DEF G
    <3>2. QED
      BY <2>2, <2>3, <3>1, SetOfAllNaturals
  <2>5. QED
    BY <1>3, <2>1, <2>4
<1>4. QED
  BY <1>2, <1>3

\* A call is a sequence of updates of records of the ledger.
CallType == Seq(StepType) \ {<<>>}

\* The updates of the token module are steps.
LEMMA StepTyped ==
    ASSUME NEW a \in Addresses, NEW token \in Tokens, NEW x \in Int
    PROVE  /\ Debit(a, token, x) \in StepType /\ Credit(a, token, x) \in StepType
           /\ Locking(a, token, x) \in StepType /\ Locking(a, token, -x) \in StepType
BY DEF Debit, Credit, Locking, StepType

\* The calls of the token module and of the DEX are sequences of steps.
LEMMA TransferTyped ==
    ASSUME NEW a \in Addresses, NEW b \in Addresses, NEW token \in Tokens, NEW x \in Int
    PROVE  /\ Transfer(a, b, token, x) \in CallType
           /\ Lock(a, token, x) \in CallType /\ Unlock(a, token, x) \in CallType
           /\ TransferToPool(a, b, token, x) \in CallType
           /\ TransferFromPool(a, b, token, x) \in CallType
           /\ TransferPoolToPool(a, b, token, x) \in CallType
<1>1. Transfer(a, b, token, x) \in CallType
  BY StepTyped DEF Transfer, CallType
<1>2. \A c \in Addresses : Lock(c, token, x) \in CallType /\ Unlock(c, token, x) \in CallType
  BY StepTyped DEF Lock, Unlock, CallType
<1>3. ASSUME NEW c \in CallType, NEW d \in CallType PROVE c \o d \in CallType
  BY DEF CallType
<1>4. QED
  BY <1>1, <1>2, <1>3 DEF TransferToPool, TransferFromPool, TransferPoolToPool

\* The fee for the validators is a number.
LEMMA ValidatorFeeInt ==
    ASSUME NEW amount \in Int, NEW token
    PROVE  ValidatorFee(amount, token) \in Int
<1> DEFINE a == NumberToQ96(amount)
           v == NumberToQ96(ValidatorFeePart(token))
           q == NumberToQ96(FeeTierPartition)
<1>1. a \in Int /\ v \in Int /\ q \in Nat \ {0} /\ One \in Nat \ {0}
  BY OneAssumption, SwapsAssumption DEF NumberToQ96, ValidatorFeePart
<1>2. ValidatorFee(amount, token) = (((a * v * One) \div q) \div One) \div One
  BY DEF ValidatorFee, RoundDownQ96, MulDivQ96
<1> HIDE DEF a, v, q
<1>3. a * v * One \in Int
  BY <1>1
<1>4. (a * v * One) \div q \in Int
  BY <1>1, <1>3, IntDivBounds
<1>5. ((a * v * One) \div q) \div One \in Int
  BY <1>1, <1>4, IntDivBounds
<1>6. QED
  BY <1>1, <1>2, <1>5, IntDivBounds

\* An integer as a number is an integer.
LEMMA AsNumberInt == ASSUME NEW n \in Int PROVE AsNumber(n) \in Int
<1>1. CASE HalfSteps(n) = {}
  BY <1>1 DEF AsNumber
<1>2. CASE HalfSteps(n) # {}
  <2> DEFINE h == CHOOSE half \in HalfSteps(n) : TRUE
             up == n % (2 * h) > h \/ (n % (2 * h) = h /\ (n \div (2 * h)) % 2 = 1)
  <2>1. h \in HalfSteps(n)
    BY <1>2
  <2>2. h \in 1..n
    BY <2>1 DEF HalfSteps
  <2>3. AsNumber(n) = 2 * h * (IF up THEN n \div (2 * h) + 1 ELSE n \div (2 * h))
    BY <1>2 DEF AsNumber
  <2> HIDE DEF h, up
  <2>4. 2 * h \in Nat \ {0}
    BY <2>2
  <2>5. n \div (2 * h) \in Int
    BY <2>4, IntDivBounds
  <2>6. QED
    BY <2>3, <2>4, <2>5
<1>3. QED
  BY <1>1, <1>2

\* Taking the fees for the validators is a sequence of calls.
LEMMA FeesTyped ==
    ASSUME NEW amount \in Int, NEW token \in Tokens, NEW pool \in Pools
    PROVE  TransferFeesFromPool(amount, token, pool) \in Seq(CallType)
<1> DEFINE fee == ValidatorFee(AsNumber(amount), token)
<1>1. pool \in Addresses /\ ValidatorIncentives \in Addresses /\ fee \in Int
  BY AsNumberInt, ValidatorFeeInt DEF Addresses
<1> HIDE DEF fee
<1>2. /\ TransferFromPool(pool, ValidatorIncentives, token, fee) \in CallType
      /\ Lock(ValidatorIncentives, token, fee) \in CallType
  BY <1>1, TransferTyped
<1>3. TransferFeesFromPool(amount, token, pool) =
        IF fee > 0 THEN <<TransferFromPool(pool, ValidatorIncentives, token, fee),
                          Lock(ValidatorIncentives, token, fee)>> ELSE <<>>
  BY DEF TransferFeesFromPool, fee
<1>4. QED
  BY <1>2, <1>3

\* The calls between two pools of a walk.
HandOver(route, walk, feeBehind, feeAhead, i) ==
    LET token == walk.tokens[i + 1]
    IN  TransferFeesFromPool(walk.fees[i][feeBehind], token.id, route[i])
        \o <<TransferPoolToPool(route[i], route[i + 1], token.id, token.amount)>>
        \o TransferFeesFromPool(walk.fees[i + 1][feeAhead], token.id, route[i + 1])

\* The calls between the pools of a route are those between each two of them.
LEMMA BetweenIsHandOver ==
    ASSUME NEW route, NEW walk, NEW feeBehind, NEW feeAhead
    PROVE  BetweenPools(route, walk, feeBehind, feeAhead) =
             FlattenSeq([i \in 1..(Len(route) - 1) |-> HandOver(route, walk, feeBehind, feeAhead, i)])
BY Zenon DEF BetweenPools, HandOver

\* Between two pools of a route tokens are moved by calls.
LEMMA HandOverTyped ==
    ASSUME NEW route \in Seq(Pools), NEW walk \in Walks(Len(route)),
           NEW feeBehind \in {"in", "out"}, NEW feeAhead \in {"in", "out"},
           NEW i \in 1..(Len(route) - 1)
    PROVE  HandOver(route, walk, feeBehind, feeAhead, i) \in Seq(CallType)
<1> DEFINE token == walk.tokens[i + 1]
<1>1. /\ i + 1 \in 1..(Len(route) + 1) /\ i \in 1..Len(route) /\ i + 1 \in 1..Len(route)
      /\ Len(route) \in Nat
  OBVIOUS
<1>2. token.id \in Tokens /\ token.amount \in Int
  <2>1. token \in AmountOfToken
    BY <1>1, LastOfWalk
  <2> HIDE DEF token
  <2>2. QED
    BY <2>1 DEF AmountOfToken
<1>3. walk.fees[i][feeBehind] \in Int /\ walk.fees[i + 1][feeAhead] \in Int
  <2>1. walk.fees[i] \in FeesOfSwap /\ walk.fees[i + 1] \in FeesOfSwap
    BY <1>1, LastOfWalk
  <2>2. QED
    BY <2>1 DEF FeesOfSwap
<1>4. route[i] \in Pools /\ route[i + 1] \in Pools /\ route[i] \in Addresses /\ route[i + 1] \in Addresses
  BY <1>1 DEF Addresses
<1> DEFINE first == TransferFeesFromPool(walk.fees[i][feeBehind], token.id, route[i])
           between == TransferPoolToPool(route[i], route[i + 1], token.id, token.amount)
           then == TransferFeesFromPool(walk.fees[i + 1][feeAhead], token.id, route[i + 1])
<1>5. first \in Seq(CallType) /\ then \in Seq(CallType)
  BY <1>2, <1>3, <1>4, FeesTyped
<1>6. between \in CallType
  BY <1>2, <1>4, TransferTyped
<1>7. HandOver(route, walk, feeBehind, feeAhead, i) = first \o <<between>> \o then
  BY DEF HandOver
<1> HIDE DEF first, between, then
<1>8. <<between>> \in Seq(CallType)
  BY <1>6
<1>9. QED
  BY <1>5, <1>7, <1>8

\* Between all pools of a route tokens are moved by calls.
LEMMA BetweenTyped ==
    ASSUME NEW route \in Seq(Pools), NEW walk \in Walks(Len(route)), Len(route) > 0,
           NEW feeBehind \in {"in", "out"}, NEW feeAhead \in {"in", "out"}
    PROVE  BetweenPools(route, walk, feeBehind, feeAhead) \in Seq(CallType)
<1> DEFINE n == Len(route) - 1
           seqs == [i \in 1..n |-> HandOver(route, walk, feeBehind, feeAhead, i)]
<1>1. n \in Nat
  OBVIOUS
<1>2. seqs \in [1..n -> Seq(CallType)]
  BY HandOverTyped
<1>3. BetweenPools(route, walk, feeBehind, feeAhead) = FlattenSeq(seqs)
  BY BetweenIsHandOver
<1> HIDE DEF n, seqs
<1>4. QED
  BY <1>1, <1>2, <1>3, FlattenType

-----------------------------------------------------------------------------
(* What calls add to balances *)

BalanceKeys == Addresses \X Tokens

\* What a step adds to an available balance, and to all balances of a token.
AvailableAt(key) == [step \in StepType |-> AvailableBy(step, key)]
TotalIn(token) == [step \in StepType |-> IF step.key[2] = token THEN step.available + step.locked ELSE 0]

\* What a call adds that is made of such steps.
CallSum(v) == [c \in CallType |-> SeqSum(v, c)]

\* What steps and calls change a balance or a total by are numbers.
LEMMA WeightTypes ==
    /\ \A key \in BalanceKeys : AvailableAt(key) \in [StepType -> Int]
    /\ \A token \in Tokens : TotalIn(token) \in [StepType -> Int]
    /\ \A v \in [StepType -> Int] : CallSum(v) \in [CallType -> Int]
<1>1. \A key \in BalanceKeys : AvailableAt(key) \in [StepType -> Int]
  BY DEF AvailableAt, AvailableBy, StepType
<1>2. \A token \in Tokens : TotalIn(token) \in [StepType -> Int]
  BY DEF TotalIn, StepType
<1>3. ASSUME NEW v \in [StepType -> Int] PROVE CallSum(v) \in [CallType -> Int]
  <2>1. \A c \in CallType : SeqSum(v, c) \in Int
    <3>1. SUFFICES ASSUME NEW c \in CallType PROVE SeqSum(v, c) \in Int
      OBVIOUS
    <3>2. c \in Seq(StepType)
      BY DEF CallType
    <3>3. QED
      BY <3>2, SeqSumInt
  <2>2. QED
    BY <2>1 DEF CallSum
<1>4. QED
  BY <1>1, <1>2, <1>3

\* A pair of calls is one call followed by another.
LEMMA PairConcat ==
    ASSUME NEW S, NEW x \in S, NEW y \in S
    PROVE  <<x, y>> = <<x>> \o <<y>>
<1> DEFINE c == <<x>> \o <<y>>
<1>1. c \in Seq(S) /\ Len(c) = 2 /\ c[1] = x /\ c[2] = y
  OBVIOUS
<1> HIDE DEF c
<1>2. c = [i \in 1..2 |-> c[i]]
  BY <1>1
<1>3. c = <<x, y>>
  BY <1>1, <1>2
<1>4. QED
  BY <1>3, Zenon DEF c

\* What a call changes is the sum of what its steps change.
LEMMA CallSums ==
    ASSUME NEW a \in Addresses, NEW b \in Addresses, NEW token \in Tokens, NEW x \in Int,
           NEW v \in [StepType -> Int]
    PROVE  /\ CallSum(v)[TransferToPool(a, b, token, x)] =
                v[Debit(a, token, x)] + v[Credit(b, token, x)] + v[Locking(b, token, x)]
           /\ CallSum(v)[TransferFromPool(a, b, token, x)] =
                v[Locking(a, token, -x)] + v[Debit(a, token, x)] + v[Credit(b, token, x)]
           /\ CallSum(v)[TransferPoolToPool(a, b, token, x)] =
                v[Locking(a, token, -x)] + v[Debit(a, token, x)] + v[Credit(b, token, x)]
                + v[Locking(b, token, x)]
           /\ CallSum(v)[Lock(a, token, x)] = v[Locking(a, token, x)]
<1> DEFINE d == Debit(a, token, x)
           c == Credit(b, token, x)
           u == Locking(a, token, -x)
           l == Locking(b, token, x)
           k == Locking(a, token, x)
<1>1. d \in StepType /\ c \in StepType /\ u \in StepType /\ l \in StepType /\ k \in StepType
  BY StepTyped
<1>2. /\ TransferToPool(a, b, token, x) = <<d, c>> \o <<l>>
      /\ TransferFromPool(a, b, token, x) = <<u>> \o <<d, c>>
      /\ TransferPoolToPool(a, b, token, x) = <<u>> \o <<d, c>> \o <<l>>
      /\ Lock(a, token, x) = <<k>>
  BY DEF TransferToPool, TransferFromPool, TransferPoolToPool, Transfer, Lock, Unlock
<1>3. /\ TransferToPool(a, b, token, x) \in CallType
      /\ TransferFromPool(a, b, token, x) \in CallType
      /\ TransferPoolToPool(a, b, token, x) \in CallType
      /\ Lock(a, token, x) \in CallType
  BY TransferTyped
<1> HIDE DEF d, c, u, l, k
<1>4. /\ <<d>> \in Seq(StepType) /\ <<c>> \in Seq(StepType) /\ <<u>> \in Seq(StepType)
      /\ <<l>> \in Seq(StepType) /\ <<k>> \in Seq(StepType) /\ <<d, c>> \in Seq(StepType)
      /\ <<u>> \o <<d, c>> \in Seq(StepType) /\ <<d, c>> = <<d>> \o <<c>>
  <2>1. \A y \in StepType : <<y>> \in Seq(StepType)
    OBVIOUS
  <2>2. <<d, c>> \in Seq(StepType)
    BY <1>1
  <2>3. \A s, t \in Seq(StepType) : s \o t \in Seq(StepType)
    OBVIOUS
  <2>4. <<d, c>> = <<d>> \o <<c>>
    BY <1>1, PairConcat
  <2>5. QED
    BY <1>1, <2>1, <2>2, <2>3, <2>4, Zenon
<1>5. /\ SeqSum(v, <<d>>) = v[d] /\ SeqSum(v, <<c>>) = v[c] /\ SeqSum(v, <<u>>) = v[u]
      /\ SeqSum(v, <<l>>) = v[l] /\ SeqSum(v, <<k>>) = v[k]
  BY <1>1, SeqSumOne
<1>6. SeqSum(v, <<d, c>>) = v[d] + v[c]
  <2>1. SeqSum(v, <<d>> \o <<c>>) = SeqSum(v, <<d>>) + SeqSum(v, <<c>>)
    BY <1>4, SeqSumConcat
  <2>2. QED
    BY <1>4, <1>5, <2>1
<1>7. SeqSum(v, <<d, c>> \o <<l>>) = v[d] + v[c] + v[l]
  <2>1. SeqSum(v, <<d, c>> \o <<l>>) = SeqSum(v, <<d, c>>) + SeqSum(v, <<l>>)
    BY <1>4, SeqSumConcat
  <2>2. QED
    BY <1>5, <1>6, <2>1
<1>8. SeqSum(v, <<u>> \o <<d, c>>) = v[u] + v[d] + v[c]
  <2>1. SeqSum(v, <<u>> \o <<d, c>>) = SeqSum(v, <<u>>) + SeqSum(v, <<d, c>>)
    BY <1>4, SeqSumConcat
  <2>2. v[u] \in Int /\ v[d] \in Int /\ v[c] \in Int
    BY <1>1
  <2>3. QED
    BY <1>5, <1>6, <2>1, <2>2
<1>9. SeqSum(v, <<u>> \o <<d, c>> \o <<l>>) = v[u] + v[d] + v[c] + v[l]
  <2>1. SeqSum(v, (<<u>> \o <<d, c>>) \o <<l>>) = SeqSum(v, <<u>> \o <<d, c>>) + SeqSum(v, <<l>>)
    BY <1>4, SeqSumConcat
  <2>2. QED
    BY <1>5, <1>8, <2>1
<1>10. \A s \in CallType : CallSum(v)[s] = SeqSum(v, s)
  BY DEF CallSum
<1>11. QED
  BY <1>2, <1>3, <1>5, <1>7, <1>8, <1>9, <1>10 DEF d, c, u, l, k

\* An amount that is added at one key.
Gain(a, token, x) == [key \in BalanceKeys |-> IF key = <<a, token>> THEN x ELSE 0]
NoGain == [key \in BalanceKeys |-> 0]

\* What the updates of an account change.
LEMMA StepGains ==
    ASSUME NEW a \in Addresses, NEW token \in Tokens, NEW x \in Int
    PROVE  /\ \A key \in BalanceKeys :
                /\ AvailableAt(key)[Debit(a, token, x)] = Gain(a, token, -x)[key]
                /\ AvailableAt(key)[Credit(a, token, x)] = Gain(a, token, x)[key]
                /\ AvailableAt(key)[Locking(a, token, x)] = Gain(a, token, -x)[key]
           /\ \A t \in Tokens :
                /\ TotalIn(t)[Debit(a, token, x)] = IF token = t THEN -x ELSE 0
                /\ TotalIn(t)[Credit(a, token, x)] = IF token = t THEN x ELSE 0
                /\ TotalIn(t)[Locking(a, token, x)] = 0
<1>1. /\ Debit(a, token, x) \in StepType /\ Credit(a, token, x) \in StepType
      /\ Locking(a, token, x) \in StepType
  BY StepTyped
<1>2. /\ \A key \in BalanceKeys :
           /\ AvailableAt(key)[Debit(a, token, x)] = AvailableBy(Debit(a, token, x), key)
           /\ AvailableAt(key)[Credit(a, token, x)] = AvailableBy(Credit(a, token, x), key)
           /\ AvailableAt(key)[Locking(a, token, x)] = AvailableBy(Locking(a, token, x), key)
  BY <1>1 DEF AvailableAt
<1>3. ASSUME NEW key \in BalanceKeys
      PROVE  /\ AvailableBy(Debit(a, token, x), key) = Gain(a, token, -x)[key]
             /\ AvailableBy(Credit(a, token, x), key) = Gain(a, token, x)[key]
             /\ AvailableBy(Locking(a, token, x), key) = Gain(a, token, -x)[key]
  BY DEF AvailableBy, Gain, Debit, Credit, Locking
<1>4. ASSUME NEW t \in Tokens
      PROVE  /\ TotalIn(t)[Debit(a, token, x)] = IF token = t THEN -x ELSE 0
             /\ TotalIn(t)[Credit(a, token, x)] = IF token = t THEN x ELSE 0
             /\ TotalIn(t)[Locking(a, token, x)] = 0
  BY <1>1 DEF TotalIn, Debit, Credit, Locking
<1>5. QED
  BY <1>2, <1>3, <1>4

\* Calls that add these amounts to the available balances, and nothing in total.
Adds(calls, f) ==
    /\ calls \in Seq(CallType)
    /\ \A key \in BalanceKeys : SeqSum(CallSum(AvailableAt(key)), calls) = f[key]
    /\ \A token \in Tokens : SeqSum(CallSum(TotalIn(token)), calls) = 0

\* A single call adds what its steps do.
LEMMA AddsOne ==
    ASSUME NEW c \in CallType, NEW f,
           \A key \in BalanceKeys : CallSum(AvailableAt(key))[c] = f[key],
           \A token \in Tokens : CallSum(TotalIn(token))[c] = 0
    PROVE  Adds(<<c>>, f)
<1>1. ASSUME NEW key \in BalanceKeys PROVE SeqSum(CallSum(AvailableAt(key)), <<c>>) = f[key]
  <2>1. CallSum(AvailableAt(key)) \in [CallType -> Int]
    BY WeightTypes
  <2>2. QED
    BY <2>1, SeqSumOne
<1>2. ASSUME NEW token \in Tokens PROVE SeqSum(CallSum(TotalIn(token)), <<c>>) = 0
  <2>1. CallSum(TotalIn(token)) \in [CallType -> Int]
    BY WeightTypes
  <2>2. QED
    BY <2>1, SeqSumOne
<1>3. QED
  BY <1>1, <1>2 DEF Adds

Together(h, f, g) == \A key \in BalanceKeys : h[key] = f[key] + g[key]

\* Calls that follow one another add both gains.
LEMMA AddsConcat ==
    ASSUME NEW c, NEW d, NEW f, NEW g, NEW h, Adds(c, f), Adds(d, g), Together(h, f, g)
    PROVE  Adds(c \o d, h)
<1>1. c \in Seq(CallType) /\ d \in Seq(CallType) /\ c \o d \in Seq(CallType)
  BY DEF Adds
<1>2. \A v \in [CallType -> Int] : SeqSum(v, c \o d) = SeqSum(v, c) + SeqSum(v, d)
  BY <1>1, SeqSumConcat
<1>3. ASSUME NEW key \in BalanceKeys PROVE SeqSum(CallSum(AvailableAt(key)), c \o d) = h[key]
  <2>1. CallSum(AvailableAt(key)) \in [CallType -> Int]
    BY WeightTypes
  <2>2. QED
    BY <1>2, <2>1 DEF Adds, Together
<1>4. ASSUME NEW token \in Tokens PROVE SeqSum(CallSum(TotalIn(token)), c \o d) = 0
  <2>1. CallSum(TotalIn(token)) \in [CallType -> Int]
    BY WeightTypes
  <2>2. QED
    BY <1>2, <2>1 DEF Adds
<1>5. QED
  BY <1>1, <1>3, <1>4 DEF Adds

\* No call adds nothing.
LEMMA AddsNone == Adds(<<>>, NoGain)
<1>1. <<>> \in Seq(CallType)
  OBVIOUS
<1>2. QED
  BY <1>1, SeqSumNone DEF Adds, NoGain

\* What a sender pays into a pool leaves its available balance, and is locked
\* in the pool.
LEMMA AddsToPool ==
    ASSUME NEW sender \in Addresses, NEW pool \in Addresses, NEW token \in Tokens, NEW x \in Int
    PROVE  Adds(<<TransferToPool(sender, pool, token, x)>>, Gain(sender, token, -x))
<1> DEFINE c == TransferToPool(sender, pool, token, x)
<1>1. c \in CallType
  BY TransferTyped
<1>2. ASSUME NEW v \in [StepType -> Int]
      PROVE  CallSum(v)[c] = v[Debit(sender, token, x)] + v[Credit(pool, token, x)]
                             + v[Locking(pool, token, x)]
  BY CallSums
<1> HIDE DEF c
<1>3. ASSUME NEW key \in BalanceKeys
      PROVE  CallSum(AvailableAt(key))[c] = Gain(sender, token, -x)[key]
  <2>1. CallSum(AvailableAt(key))[c] =
          Gain(sender, token, -x)[key] + Gain(pool, token, x)[key] + Gain(pool, token, -x)[key]
    BY <1>2, StepGains, WeightTypes
  <2>2. QED
    BY <2>1 DEF Gain
<1>4. ASSUME NEW t \in Tokens PROVE CallSum(TotalIn(t))[c] = 0
  BY <1>2, StepGains, WeightTypes, SMTT(60)
<1>5. QED
  BY <1>1, <1>3, <1>4, AddsOne DEF c

\* What a pool pays out arrives in the available balance of the recipient.
LEMMA AddsFromPool ==
    ASSUME NEW pool \in Addresses, NEW recipient \in Addresses, NEW token \in Tokens, NEW x \in Int
    PROVE  Adds(<<TransferFromPool(pool, recipient, token, x)>>, Gain(recipient, token, x))
<1> DEFINE c == TransferFromPool(pool, recipient, token, x)
           y == -x
<1>1. c \in CallType /\ y \in Int
  BY TransferTyped
<1>2. ASSUME NEW v \in [StepType -> Int]
      PROVE  CallSum(v)[c] = v[Locking(pool, token, y)] + v[Debit(pool, token, x)]
                             + v[Credit(recipient, token, x)]
  BY CallSums
<1> HIDE DEF c
<1>3. ASSUME NEW key \in BalanceKeys
      PROVE  CallSum(AvailableAt(key))[c] = Gain(recipient, token, x)[key]
  <2>1. CallSum(AvailableAt(key))[c] =
          Gain(pool, token, -y)[key] + Gain(pool, token, y)[key] + Gain(recipient, token, x)[key]
    BY <1>1, <1>2, StepGains, WeightTypes
  <2>2. QED
    BY <2>1 DEF Gain
<1>4. ASSUME NEW t \in Tokens PROVE CallSum(TotalIn(t))[c] = 0
  BY <1>1, <1>2, StepGains, WeightTypes
<1>5. QED
  BY <1>1, <1>3, <1>4, AddsOne DEF c

\* Between pools locked tokens move, and nobody's available balance changes.
LEMMA AddsPoolToPool ==
    ASSUME NEW a \in Addresses, NEW b \in Addresses, NEW token \in Tokens, NEW x \in Int
    PROVE  Adds(<<TransferPoolToPool(a, b, token, x)>>, NoGain)
<1> DEFINE c == TransferPoolToPool(a, b, token, x)
           y == -x
<1>1. c \in CallType /\ y \in Int
  BY TransferTyped
<1>2. ASSUME NEW v \in [StepType -> Int]
      PROVE  CallSum(v)[c] = v[Locking(a, token, y)] + v[Debit(a, token, x)]
                             + v[Credit(b, token, x)] + v[Locking(b, token, x)]
  BY CallSums
<1> HIDE DEF c
<1>3. ASSUME NEW key \in BalanceKeys PROVE CallSum(AvailableAt(key))[c] = NoGain[key]
  <2>1. CallSum(AvailableAt(key))[c] =
          Gain(a, token, -y)[key] + Gain(a, token, -x)[key] + Gain(b, token, x)[key]
          + Gain(b, token, -x)[key]
    BY <1>1, <1>2, StepGains, WeightTypes
  <2>2. QED
    BY <2>1 DEF Gain, NoGain
<1>4. ASSUME NEW t \in Tokens PROVE CallSum(TotalIn(t))[c] = 0
  <2>1. TotalIn(t) \in [StepType -> Int]
    BY WeightTypes
  <2>2. CallSum(TotalIn(t))[c] =
          TotalIn(t)[Locking(a, token, y)] + TotalIn(t)[Debit(a, token, x)]
          + TotalIn(t)[Credit(b, token, x)] + TotalIn(t)[Locking(b, token, x)]
    BY <1>2, <2>1
  <2>3. /\ TotalIn(t)[Locking(a, token, y)] = 0 /\ TotalIn(t)[Locking(b, token, x)] = 0
        /\ TotalIn(t)[Debit(a, token, x)] = IF token = t THEN -x ELSE 0
        /\ TotalIn(t)[Credit(b, token, x)] = IF token = t THEN x ELSE 0
    BY <1>1, StepGains
  <2>4. QED
    BY <2>2, <2>3
<1>5. QED
  BY <1>1, <1>3, <1>4, AddsOne DEF c

\* Of the two calls that pay fees, one gives the validators what the other locks.
LEMMA AddsFees ==
    ASSUME NEW amount \in Int, NEW token \in Tokens, NEW pool \in Pools
    PROVE  Adds(TransferFeesFromPool(amount, token, pool), NoGain)
<1> DEFINE fee == ValidatorFee(AsNumber(amount), token)
           V == ValidatorIncentives
           first == TransferFromPool(pool, V, token, fee)
           second == Lock(V, token, fee)
<1>1. fee \in Int /\ pool \in Addresses /\ V \in Addresses
  BY AsNumberInt, ValidatorFeeInt DEF Addresses
<1> HIDE DEF fee
<1>2. CASE fee > 0
  <2>1. Adds(<<first>>, Gain(V, token, fee))
    BY <1>1, AddsFromPool
  <2>2. Adds(<<second>>, Gain(V, token, -fee))
    <3>1. second \in CallType
      BY <1>1, TransferTyped
    <3>2. ASSUME NEW v \in [StepType -> Int] PROVE CallSum(v)[second] = v[Locking(V, token, fee)]
      BY <1>1, CallSums
    <3> HIDE DEF second
    <3>3. ASSUME NEW key \in BalanceKeys
          PROVE  CallSum(AvailableAt(key))[second] = Gain(V, token, -fee)[key]
      BY <1>1, <3>2, StepGains, WeightTypes
    <3>4. ASSUME NEW t \in Tokens PROVE CallSum(TotalIn(t))[second] = 0
      BY <1>1, <3>2, StepGains, WeightTypes
    <3>5. QED
      BY <3>1, <3>3, <3>4, AddsOne
  <2>3. Together(NoGain, Gain(V, token, fee), Gain(V, token, -fee))
    BY <1>1 DEF NoGain, Gain, Together
  <2>4. TransferFeesFromPool(amount, token, pool) = <<first>> \o <<second>>
    BY <1>2 DEF TransferFeesFromPool, fee
  <2> HIDE DEF first, second
  <2>5. Adds(<<first>> \o <<second>>, NoGain)
    BY <2>1, <2>2, <2>3, AddsConcat
  <2>6. QED
    BY <2>4, <2>5
<1>3. CASE ~(fee > 0)
  <2>1. TransferFeesFromPool(amount, token, pool) = <<>>
    BY <1>3 DEF TransferFeesFromPool, fee
  <2>2. QED
    BY <2>1, AddsNone
<1>4. QED
  BY <1>2, <1>3

\* Calls that add nothing may come before or after others.
LEMMA AddsMore ==
    ASSUME NEW c, NEW d, NEW f \in [BalanceKeys -> Int]
    PROVE  /\ Adds(c, NoGain) /\ Adds(d, f) => Adds(c \o d, f)
           /\ Adds(c, f) /\ Adds(d, NoGain) => Adds(c \o d, f)
<1>1. Together(f, NoGain, f) /\ Together(f, f, NoGain)
  BY DEF NoGain, Together
<1>2. Adds(c, NoGain) /\ Adds(d, f) => Adds(c \o d, f)
  BY <1>1, AddsConcat
<1>3. Adds(c, f) /\ Adds(d, NoGain) => Adds(c \o d, f)
  BY <1>1, AddsConcat
<1>4. QED
  BY <1>2, <1>3

\* Any number of sequences of calls that add nothing add nothing.
LEMMA AddsFlattened ==
    ASSUME NEW n \in Nat, NEW seqs, Len(seqs) = n, \A i \in 1..n : Adds(seqs[i], NoGain),
           n = 0 => seqs = <<>>
    PROVE  Adds(FlattenSeq(seqs), NoGain)
<1>1. CASE n = 0
  <2>1. FlattenSeq(seqs) = seqs
    BY <1>1, Zenon DEF FlattenSeq
  <2>2. QED
    BY <1>1, <2>1, AddsNone
<1>2. CASE n # 0
  <2>1. PICK f : /\ f[1] = seqs[1]
                 /\ \A i \in 2..n : f[i] = f[i - 1] \o seqs[i]
                 /\ FlattenSeq(seqs) = f[n]
    BY <1>2, Flattened
  <2> DEFINE G == {k \in Nat : k \in 1..n => Adds(f[k], NoGain)}
  <2>2. 0 \in G
    OBVIOUS
  <2>3. ASSUME NEW k \in G PROVE k + 1 \in G
    <3>1. SUFFICES ASSUME k + 1 \in 1..n PROVE Adds(f[k + 1], NoGain)
      OBVIOUS
    <3>2. CASE k = 0
      <4>1. 1 \in 1..n /\ k + 1 = 1
        BY <3>1, <3>2
      <4>2. QED
        BY <2>1, <4>1, Zenon
    <3>3. CASE k # 0
      <4>1. k \in 1..n /\ k + 1 \in 2..n /\ (k + 1) - 1 = k
        BY <3>1, <3>3
      <4>2. f[k + 1] = f[k] \o seqs[k + 1]
        BY <2>1, <4>1
      <4>3. Adds(f[k], NoGain) /\ Adds(seqs[k + 1], NoGain)
        BY <3>1, <4>1
      <4>4. NoGain \in [BalanceKeys -> Int]
        BY DEF NoGain
      <4>5. Adds(f[k] \o seqs[k + 1], NoGain)
        BY <4>3, <4>4, AddsMore, Zenon
      <4>6. QED
        BY <4>2, <4>5, Zenon
    <3>4. QED
      BY <3>2, <3>3
  <2>4. G = Nat
    <3> HIDE DEF G
    <3>1. G \subseteq Nat
      BY DEF G
    <3>2. QED
      BY <2>2, <2>3, <3>1, SetOfAllNaturals
  <2>5. n \in G /\ n \in 1..n
    BY <1>2, <2>4
  <2>6. QED
    BY <2>1, <2>5
<1>3. QED
  BY <1>1, <1>2

\* Between two pools of a route no available balance changes.
LEMMA HandOverAdds ==
    ASSUME NEW route \in Seq(Pools), NEW walk \in Walks(Len(route)),
           NEW feeBehind \in {"in", "out"}, NEW feeAhead \in {"in", "out"},
           NEW i \in 1..(Len(route) - 1)
    PROVE  Adds(HandOver(route, walk, feeBehind, feeAhead, i), NoGain)
<1> DEFINE token == walk.tokens[i + 1]
<1>1. /\ i + 1 \in 1..(Len(route) + 1) /\ i \in 1..Len(route) /\ i + 1 \in 1..Len(route)
      /\ Len(route) \in Nat
  OBVIOUS
<1>2. token.id \in Tokens /\ token.amount \in Int
  <2>1. token \in AmountOfToken
    BY <1>1, LastOfWalk
  <2> HIDE DEF token
  <2>2. QED
    BY <2>1 DEF AmountOfToken
<1>3. walk.fees[i][feeBehind] \in Int /\ walk.fees[i + 1][feeAhead] \in Int
  <2>1. walk.fees[i] \in FeesOfSwap /\ walk.fees[i + 1] \in FeesOfSwap
    BY <1>1, LastOfWalk
  <2>2. QED
    BY <2>1 DEF FeesOfSwap
<1>4. route[i] \in Pools /\ route[i + 1] \in Pools /\ route[i] \in Addresses /\ route[i + 1] \in Addresses
  BY <1>1 DEF Addresses
<1> DEFINE first == TransferFeesFromPool(walk.fees[i][feeBehind], token.id, route[i])
           between == TransferPoolToPool(route[i], route[i + 1], token.id, token.amount)
           then == TransferFeesFromPool(walk.fees[i + 1][feeAhead], token.id, route[i + 1])
<1>5. Adds(first, NoGain) /\ Adds(then, NoGain)
  BY <1>2, <1>3, <1>4, AddsFees
<1>6. Adds(<<between>>, NoGain)
  BY <1>2, <1>4, AddsPoolToPool
<1>7. HandOver(route, walk, feeBehind, feeAhead, i) = first \o <<between>> \o then
  BY DEF HandOver
<1> HIDE DEF first, between, then
<1>8. NoGain \in [BalanceKeys -> Int]
  BY DEF NoGain
<1>9. Adds(first \o <<between>>, NoGain)
  BY <1>5, <1>6, <1>8, AddsMore
<1>10. QED
  BY <1>5, <1>7, <1>8, <1>9, AddsMore

\* Between all pools of a route no available balance changes.
LEMMA BetweenAdds ==
    ASSUME NEW route \in Seq(Pools), NEW walk \in Walks(Len(route)), Len(route) > 0,
           NEW feeBehind \in {"in", "out"}, NEW feeAhead \in {"in", "out"}
    PROVE  Adds(BetweenPools(route, walk, feeBehind, feeAhead), NoGain)
<1> DEFINE n == Len(route) - 1
           seqs == [i \in 1..n |-> HandOver(route, walk, feeBehind, feeAhead, i)]
<1>1. n \in Nat
  OBVIOUS
<1>2. \A i \in 1..n : Adds(seqs[i], NoGain)
  BY HandOverAdds
<1>3. BetweenPools(route, walk, feeBehind, feeAhead) = FlattenSeq(seqs)
  BY BetweenIsHandOver
<1>4. Len(seqs) = n /\ (n = 0 => seqs = <<>>)
  <2>1. \A i \in 1..n : seqs[i] \in Seq(CallType)
    BY HandOverTyped
  <2>2. seqs \in Seq(Seq(CallType)) /\ Len(seqs) = n
    BY <1>1, <2>1
  <2> HIDE DEF seqs
  <2>3. n = 0 => seqs = <<>>
    BY <2>2
  <2>4. QED
    BY <2>2, <2>3
<1> HIDE DEF n, seqs
<1>5. QED
  BY <1>1, <1>2, <1>3, <1>4, AddsFlattened

-----------------------------------------------------------------------------
(* Commands *)

\* What an event says its sender pays and receives.
Pays(e) == Gain(e.sender, e.tokenIn, -e.amountIn)
Gets(e) == Gain(e.sender, e.tokenOut, e.amountOut)
Exchange(e) == [key \in BalanceKeys |-> Gets(e)[key] + Pays(e)[key]]

EventType ==
    [sender : Senders, tokenIn : Tokens, amountIn : Nat, tokenOut : Tokens, amountOut : Nat]

EventOf(sender, tokenIn, amountIn, tokenOut, amountOut) ==
    [sender |-> sender, tokenIn |-> tokenIn, amountIn |-> amountIn,
     tokenOut |-> tokenOut, amountOut |-> amountOut]

\* A command starts calls that do what its event says.
Settles ==
    \E e \in EventType, calls \in Seq(CallType) :
        /\ Adds(calls, Exchange(e))
        /\ swapped' = Append(swapped, e)
        /\ getting' = getting \cup {[id |-> <<Len(swapped), i>>, steps |-> calls[i]] : i \in DOMAIN calls}
        /\ UNCHANGED <<vars, opening, setting, clashed, refused>>

\* Starting calls that add what the event tells settles a swap.
LEMMA SettleSettles ==
    ASSUME NEW sender \in Senders, NEW tokenIn \in Tokens, NEW amountIn \in Nat,
           NEW tokenOut \in Tokens, NEW amountOut \in Nat, NEW calls,
           Settle(sender, tokenIn, amountIn, tokenOut, amountOut, calls),
           Adds(calls, Exchange(EventOf(sender, tokenIn, amountIn, tokenOut, amountOut)))
    PROVE  Settles
<1> DEFINE e == EventOf(sender, tokenIn, amountIn, tokenOut, amountOut)
<1>1. e \in EventType
  BY DEF EventOf, EventType
<1>2. calls \in Seq(CallType)
  BY DEF Adds
<1>3. /\ swapped' = Append(swapped, e)
      /\ getting' = getting \cup {[id |-> <<Len(swapped), i>>, steps |-> calls[i]] : i \in DOMAIN calls}
      /\ UNCHANGED <<vars, opening, setting, clashed, refused>>
  BY DEF Settle, EventOf
<1> HIDE DEF e
<1>4. Adds(calls, Exchange(e))
  BY DEF e
<1>5. QED
  BY <1>1, <1>2, <1>3, <1>4, Zenon DEF Settles

\* What the sender pays and gets is the exchange that the event tells.
LEMMA PaymentsAdd ==
    ASSUME NEW e \in EventType, NEW first \in Pools, NEW last \in Pools
    PROVE  /\ Adds(<<TransferToPool(e.sender, first, e.tokenIn, e.amountIn)>>, Pays(e))
           /\ Adds(<<TransferFromPool(last, e.sender, e.tokenOut, e.amountOut)>>, Gets(e))
           /\ Pays(e) \in [BalanceKeys -> Int] /\ Gets(e) \in [BalanceKeys -> Int]
           /\ Exchange(e) \in [BalanceKeys -> Int]
           /\ Together(Exchange(e), Pays(e), Gets(e)) /\ Together(Exchange(e), Gets(e), Pays(e))
<1>1. /\ e.sender \in Addresses /\ first \in Addresses /\ last \in Addresses
      /\ e.tokenIn \in Tokens /\ e.tokenOut \in Tokens /\ e.amountIn \in Int /\ e.amountOut \in Int
  BY CommandsAssumption DEF Addresses, EventType
<1>2. /\ Adds(<<TransferToPool(e.sender, first, e.tokenIn, e.amountIn)>>, Pays(e))
      /\ Adds(<<TransferFromPool(last, e.sender, e.tokenOut, e.amountOut)>>, Gets(e))
  BY <1>1, AddsToPool, AddsFromPool DEF Pays, Gets
<1>3. Pays(e) \in [BalanceKeys -> Int] /\ Gets(e) \in [BalanceKeys -> Int]
  BY <1>1 DEF Pays, Gets, Gain
<1>4. Exchange(e) \in [BalanceKeys -> Int]
  BY <1>3 DEF Exchange
<1>5. Together(Exchange(e), Pays(e), Gets(e)) /\ Together(Exchange(e), Gets(e), Pays(e))
  BY <1>3 DEF Exchange, Together
<1>6. QED
  BY <1>2, <1>3, <1>4, <1>5

\* The two ways in which the calls along a route are started.
LEMMA RouteAdds ==
    ASSUME NEW e \in EventType, NEW first \in Pools, NEW last \in Pools,
           NEW f1, NEW b, NEW f2, Adds(f1, NoGain), Adds(b, NoGain), Adds(f2, NoGain)
    PROVE  /\ Adds(<<TransferToPool(e.sender, first, e.tokenIn, e.amountIn)>> \o f1 \o b \o f2
                   \o <<TransferFromPool(last, e.sender, e.tokenOut, e.amountOut)>>, Exchange(e))
           /\ Adds(<<TransferFromPool(first, e.sender, e.tokenOut, e.amountOut)>> \o f1 \o b \o f2
                   \o <<TransferToPool(e.sender, last, e.tokenIn, e.amountIn)>>, Exchange(e))
           /\ Adds(<<TransferToPool(e.sender, first, e.tokenIn, e.amountIn)>> \o f1
                   \o <<TransferFromPool(last, e.sender, e.tokenOut, e.amountOut)>> \o f2, Exchange(e))
<1> DEFINE p == Pays(e)
           g == Gets(e)
           x == Exchange(e)
           pay(pool) == <<TransferToPool(e.sender, pool, e.tokenIn, e.amountIn)>>
           get(pool) == <<TransferFromPool(pool, e.sender, e.tokenOut, e.amountOut)>>
<1>1. /\ Adds(pay(first), p) /\ Adds(pay(last), p) /\ Adds(get(first), g) /\ Adds(get(last), g)
      /\ p \in [BalanceKeys -> Int] /\ g \in [BalanceKeys -> Int] /\ x \in [BalanceKeys -> Int]
      /\ Together(x, p, g) /\ Together(x, g, p)
  BY PaymentsAdd
<1> DEFINE payFirst == pay(first)
           payLast == pay(last)
           getFirst == get(first)
           getLast == get(last)
<1>2. /\ Adds(payFirst, p) /\ Adds(payLast, p) /\ Adds(getFirst, g) /\ Adds(getLast, g)
  BY <1>1
<1> HIDE DEF p, g, x, payFirst, payLast, getFirst, getLast
<1>3. Adds(payFirst \o f1, p) /\ Adds(getFirst \o f1, g)
  BY <1>1, <1>2, AddsMore
<1>4. Adds(payFirst \o f1 \o b, p) /\ Adds(getFirst \o f1 \o b, g)
  BY <1>1, <1>3, AddsMore
<1>5. Adds(payFirst \o f1 \o b \o f2, p) /\ Adds(getFirst \o f1 \o b \o f2, g)
  BY <1>1, <1>4, AddsMore
<1>6. Adds(payFirst \o f1 \o b \o f2 \o getLast, x) /\ Adds(getFirst \o f1 \o b \o f2 \o payLast, x)
  BY <1>1, <1>2, <1>5, AddsConcat
<1>7. Adds(payFirst \o f1 \o getLast, x)
  BY <1>1, <1>2, <1>3, AddsConcat
<1>8. Adds(payFirst \o f1 \o getLast \o f2, x)
  BY <1>1, <1>7, AddsMore
<1>9. QED
  BY <1>6, <1>8 DEF x, payFirst, payLast, getFirst, getLast

\* swapExactIn starts calls that add what its event tells.
LEMMA ExactInSettles ==
    ASSUME FeesModest, StoresOK(state), PoolsEncoded(state),
           NEW sender \in Senders, NEW tokenIn \in Tokens, NEW tokenOut \in Tokens,
           NEW route \in RoutesIn, NEW amount \in SwapAmounts,
           SwapExactIn(sender, tokenIn, tokenOut, route, amount)
    PROVE  Settles
<1>1. route \in Seq(Pools) /\ amount \in Nat
  BY CommandsAssumption
<1>2. Len(route) \in Nat /\ Len(route) > 0
  BY <1>1, HopsAssumption DEF SwapExactIn, ValidRoute
<1> DEFINE calls(walk) ==
             <<TransferToPool(sender, route[1], tokenIn, amount)>>
              \o TransferFeesFromPool(walk.fees[1].in, tokenIn, route[1])
              \o BetweenPools(route, walk, "out", "in")
              \o TransferFeesFromPool(Last(walk.fees).out, tokenOut, Last(route))
              \o <<TransferFromPool(Last(route), sender, tokenOut, Last(walk.tokens).amount)>>
<1>3. PICK walk \in WalksExactIn(state, route, tokenIn, amount) :
        Settle(sender, tokenIn, amount, tokenOut, Last(walk.tokens).amount, calls(walk))
  BY Zenon DEF SwapExactIn
<1>4. walk \in Walks(Len(route))
  BY <1>1, <1>2, WalksTyped
<1> DEFINE out == Last(walk.tokens).amount
           e == EventOf(sender, tokenIn, amount, tokenOut, out)
<1>5. out \in Nat /\ walk.fees[1].in \in Int /\ Last(walk.fees).out \in Int
  <2>1. /\ Last(walk.tokens) \in AmountOfToken /\ walk.fees[1] \in FeesOfSwap
        /\ Last(walk.fees) \in FeesOfSwap
    BY <1>2, <1>4, LastOfWalk
  <2>2. QED
    BY <2>1 DEF AmountOfToken, FeesOfSwap
<1>6. route[1] \in Pools /\ Last(route) \in Pools
  BY <1>1, <1>2 DEF Last
<1>7. /\ Adds(TransferFeesFromPool(walk.fees[1].in, tokenIn, route[1]), NoGain)
      /\ Adds(TransferFeesFromPool(Last(walk.fees).out, tokenOut, Last(route)), NoGain)
      /\ Adds(BetweenPools(route, walk, "out", "in"), NoGain)
  BY <1>1, <1>2, <1>4, <1>5, <1>6, AddsFees, BetweenAdds
<1> HIDE DEF out
<1>8. /\ e \in EventType /\ e.sender = sender /\ e.tokenIn = tokenIn /\ e.amountIn = amount
      /\ e.tokenOut = tokenOut /\ e.amountOut = out
  BY <1>1, <1>5 DEF EventOf, EventType
<1> HIDE DEF e
<1> DEFINE f1 == TransferFeesFromPool(walk.fees[1].in, tokenIn, route[1])
           f2 == TransferFeesFromPool(Last(walk.fees).out, tokenOut, Last(route))
           b == BetweenPools(route, walk, "out", "in")
<1>9. Adds(<<TransferToPool(e.sender, route[1], e.tokenIn, e.amountIn)>> \o f1 \o b \o f2
           \o <<TransferFromPool(Last(route), e.sender, e.tokenOut, e.amountOut)>>, Exchange(e))
  <2> HIDE DEF f1, f2, b
  <2>1. Adds(f1, NoGain) /\ Adds(b, NoGain) /\ Adds(f2, NoGain)
    BY <1>7 DEF f1, f2, b
  <2>2. QED
    BY <1>6, <1>8, <2>1, RouteAdds
<1>10. Adds(calls(walk), Exchange(e))
  BY <1>8, <1>9, Zenon DEF out
<1> HIDE DEF calls
<1>11. QED
  BY <1>1, <1>3, <1>5, <1>10, SettleSettles DEF e, out

\* A reversed route has the same pools, from the last to the first.
LEMMA Reversed ==
    ASSUME NEW S, NEW route \in Seq(S)
    PROVE  /\ Reverse(route) \in Seq(S) /\ Len(Reverse(route)) = Len(route)
           /\ \A i \in 1..Len(route) : Reverse(route)[i] = route[Len(route) - i + 1]
BY DEF Reverse

\* swapExactOut starts calls that add what its event tells.
LEMMA ExactOutSettles ==
    ASSUME FeesModest, StoresOK(state), PoolsEncoded(state),
           NEW sender \in Senders, NEW tokenIn \in Tokens, NEW tokenOut \in Tokens,
           NEW swapRoute \in RoutesOut, NEW amount \in SwapAmounts,
           SwapExactOut(sender, tokenIn, tokenOut, swapRoute, amount)
    PROVE  Settles
<1> DEFINE route == Reverse(swapRoute)
<1>1. /\ route \in Seq(Pools) /\ Len(route) = Len(swapRoute) /\ amount \in Nat
      /\ swapRoute \in Seq(Pools)
  BY CommandsAssumption, Reversed
<1>2. Len(route) \in Nat /\ Len(route) > 0
  <2>1. Len(swapRoute) \in 1..MaxHops
    BY Zenon DEF SwapExactOut, ValidRoute
  <2> HIDE DEF route
  <2>2. QED
    BY <1>1, <2>1, HopsAssumption
<1> DEFINE calls(walk) ==
             <<TransferFromPool(route[1], sender, tokenOut, amount)>>
              \o TransferFeesFromPool(walk.fees[1].out, tokenOut, route[1])
              \o BetweenPools(route, walk, "in", "out")
              \o TransferFeesFromPool(Last(walk.fees).in, tokenIn, Last(route))
              \o <<TransferToPool(sender, Last(route), tokenIn, Last(walk.tokens).amount)>>
<1>3. PICK walk \in WalksExactOut(state, route, tokenIn, amount) :
        Settle(sender, tokenIn, Last(walk.tokens).amount, tokenOut, amount, calls(walk))
  BY Zenon DEF SwapExactOut
<1> HIDE DEF route
<1>4. walk \in Walks(Len(route))
  BY <1>1, <1>2, <1>3, WalksTyped
<1> DEFINE in == Last(walk.tokens).amount
           e == EventOf(sender, tokenIn, in, tokenOut, amount)
<1>5. in \in Nat /\ walk.fees[1].out \in Int /\ Last(walk.fees).in \in Int
  <2>1. /\ Last(walk.tokens) \in AmountOfToken /\ walk.fees[1] \in FeesOfSwap
        /\ Last(walk.fees) \in FeesOfSwap
    BY <1>2, <1>4, LastOfWalk
  <2>2. QED
    BY <2>1 DEF AmountOfToken, FeesOfSwap
<1>6. route[1] \in Pools /\ Last(route) \in Pools
  BY <1>1, <1>2 DEF Last
<1>7. /\ Adds(TransferFeesFromPool(walk.fees[1].out, tokenOut, route[1]), NoGain)
      /\ Adds(TransferFeesFromPool(Last(walk.fees).in, tokenIn, Last(route)), NoGain)
      /\ Adds(BetweenPools(route, walk, "in", "out"), NoGain)
  BY <1>1, <1>2, <1>4, <1>5, <1>6, AddsFees, BetweenAdds
<1> HIDE DEF in
<1>8. /\ e \in EventType /\ e.sender = sender /\ e.tokenIn = tokenIn /\ e.amountIn = in
      /\ e.tokenOut = tokenOut /\ e.amountOut = amount
  BY <1>1, <1>5 DEF EventOf, EventType
<1> HIDE DEF e
<1> DEFINE f1 == TransferFeesFromPool(walk.fees[1].out, tokenOut, route[1])
           f2 == TransferFeesFromPool(Last(walk.fees).in, tokenIn, Last(route))
           b == BetweenPools(route, walk, "in", "out")
<1>9. Adds(<<TransferFromPool(route[1], e.sender, e.tokenOut, e.amountOut)>> \o f1 \o b \o f2
           \o <<TransferToPool(e.sender, Last(route), e.tokenIn, e.amountIn)>>, Exchange(e))
  <2> HIDE DEF f1, f2, b
  <2>1. Adds(f1, NoGain) /\ Adds(b, NoGain) /\ Adds(f2, NoGain)
    BY <1>7 DEF f1, f2, b
  <2>2. QED
    BY <1>6, <1>8, <2>1, RouteAdds
<1>10. Adds(calls(walk), Exchange(e))
  BY <1>8, <1>9, Zenon DEF in
<1> HIDE DEF calls
<1>11. QED
  BY <1>1, <1>3, <1>5, <1>10, SettleSettles DEF e, in

\* swapWithPriceLimit starts calls that add what its event tells.
LEMMA PriceLimitSettles ==
    ASSUME FeesModest, StoresOK(state), PoolsEncoded(state),
           NEW sender \in Senders, NEW tokenIn \in Tokens, NEW tokenOut \in Tokens,
           NEW poolID \in Pools, NEW limit \in Limits, NEW amount \in SwapAmounts,
           SwapWithPriceLimit(sender, tokenIn, tokenOut, poolID, limit, amount)
    PROVE  Settles
<1>1. limit \in Int /\ amount \in Nat
  BY CommandsAssumption
<1> DEFINE zeroToOne == Token0(poolID) = tokenIn
           calls(swap) ==
              <<TransferToPool(sender, poolID, tokenIn, swap.in)>>
              \o TransferFeesFromPool(swap.feesIn, tokenIn, poolID)
              \o <<TransferFromPool(poolID, sender, tokenOut, swap.out)>>
              \o TransferFeesFromPool(swap.feesOut, tokenOut, poolID)
<1>2. PICK swap \in Swap(state, poolID, zeroToOne, limit, amount, TRUE) :
        Settle(sender, tokenIn, swap.in, tokenOut, swap.out, calls(swap))
  BY Zenon DEF SwapWithPriceLimit
<1>3. zeroToOne \in BOOLEAN
  OBVIOUS
<1> HIDE DEF zeroToOne
<1>4. swap.in \in Nat /\ swap.out \in Nat /\ swap.feesIn \in Int /\ swap.feesOut \in Int
  BY <1>1, <1>2, <1>3, SwapAmountsNat
<1> DEFINE in == swap.in
           out == swap.out
           e == EventOf(sender, tokenIn, in, tokenOut, out)
<1>5. /\ Adds(TransferFeesFromPool(swap.feesIn, tokenIn, poolID), NoGain)
      /\ Adds(TransferFeesFromPool(swap.feesOut, tokenOut, poolID), NoGain)
  BY <1>4, AddsFees
<1>6. in \in Nat /\ out \in Nat
  BY <1>4
<1> HIDE DEF in, out
<1>7. /\ e \in EventType /\ e.sender = sender /\ e.tokenIn = tokenIn /\ e.amountIn = in
      /\ e.tokenOut = tokenOut /\ e.amountOut = out
  BY <1>6 DEF EventOf, EventType
<1> HIDE DEF e
<1> DEFINE f1 == TransferFeesFromPool(swap.feesIn, tokenIn, poolID)
           f2 == TransferFeesFromPool(swap.feesOut, tokenOut, poolID)
<1>8. Adds(<<TransferToPool(e.sender, poolID, e.tokenIn, e.amountIn)>> \o f1
           \o <<TransferFromPool(poolID, e.sender, e.tokenOut, e.amountOut)>> \o f2, Exchange(e))
  <2> HIDE DEF f1, f2
  <2>1. Adds(f1, NoGain) /\ Adds(f2, NoGain)
    BY <1>5 DEF f1, f2
  <2>2. QED
    BY <1>7, <2>1, AddsNone, RouteAdds
<1>9. Adds(calls(swap), Exchange(e))
  BY <1>7, <1>8, Zenon DEF in, out
<1> HIDE DEF calls
<1>10. QED
  BY <1>2, <1>6, <1>9, SettleSettles DEF e, in, out

-----------------------------------------------------------------------------
(* Types *)

CallRecord == [id : Nat \X Nat, steps : CallType]
AccountType == [available : Nat, locked : Nat]

SwapsInv ==
    /\ StoresOK(state) /\ PoolsEncoded(state)
    /\ swapped = <<>> => PositionsInv /\ getting = {} /\ setting = {}
    /\ swapped \in Seq(EventType)
    /\ getting \subseteq CallRecord
    /\ setting \subseteq [call : CallRecord, account : AccountType]

\* The genesis block establishes SwapsInv.
LEMMA InitSwapsInv == SwapsInit => SwapsInv
<1> SUFFICES ASSUME SwapsInit PROVE SwapsInv
  OBVIOUS
<1>1. PositionsInv
  BY InitPositionsInv DEF SwapsInit
<1>2. swapped = <<>> /\ getting = {} /\ setting = {}
  BY DEF SwapsInit
<1>3. QED
  BY <1>1, <1>2 DEF SwapsInv, PositionsInv, GrantsInv

\* What a command that starts calls does to the invariant.
LEMMA SettlesSwapsInv == SwapsInv /\ Settles => SwapsInv'
<1> SUFFICES ASSUME SwapsInv, Settles PROVE SwapsInv'
  OBVIOUS
<1>1. PICK e \in EventType, calls \in Seq(CallType) :
        /\ swapped' = Append(swapped, e)
        /\ getting' = getting \cup {[id |-> <<Len(swapped), i>>, steps |-> calls[i]] : i \in DOMAIN calls}
        /\ UNCHANGED <<vars, opening, setting, clashed, refused>>
  BY DEF Settles
<1>2. swapped' \in Seq(EventType) /\ swapped' # <<>> /\ Len(swapped) \in Nat
  BY <1>1 DEF SwapsInv
<1>3. getting' \subseteq CallRecord
  <2>1. ASSUME NEW i \in DOMAIN calls
        PROVE  [id |-> <<Len(swapped), i>>, steps |-> calls[i]] \in CallRecord
    BY <1>2 DEF CallRecord
  <2>2. QED
    BY <1>1, <2>1 DEF SwapsInv
<1>4. state' = state /\ setting' = setting
  BY <1>1 DEF vars
<1>5. StoresOK(state') /\ PoolsEncoded(state')
  BY <1>4 DEF SwapsInv
<1>6. QED
  BY <1>2, <1>3, <1>4, <1>5 DEF SwapsInv, PoolsEncoded

\* A call under way has a first step, which moves numbers on a balance of the
\* ledger.
LEMMA FirstStep ==
    ASSUME NEW c \in CallRecord
    PROVE  /\ Head(c.steps) \in StepType /\ c.steps \in Seq(StepType) /\ c.steps # <<>>
           /\ Head(c.steps).key \in BalanceKeys
           /\ Head(c.steps).available \in Int /\ Head(c.steps).locked \in Int
<1>1. c.steps \in Seq(StepType) /\ c.steps # <<>>
  BY DEF CallRecord, CallType
<1>2. Head(c.steps) \in StepType
  BY <1>1
<1>3. QED
  BY <1>1, <1>2 DEF StepType, BalanceKeys

\* What a call reads is an account, and what it writes, too, if the balance
\* covers the step.
LEMMA MovedAccount ==
    ASSUME SwapsInv, NEW c \in CallRecord
    PROVE  /\ Reads(c) \in AccountType
           /\ Covers(Reads(c), Head(c.steps)) => Moved(Reads(c), Head(c.steps)) \in AccountType
<1>1. state.ledger \in LedgerType
  BY DEF SwapsInv, StoresOK
<1>2. Reads(c) \in AccountType
  BY <1>1, FirstStep DEF Reads, LedgerType, AccountType, BalanceKeys
<1>3. QED
  BY <1>2, FirstStep DEF Covers, Moved, AccountType

\* A read of an account preserves SwapsInv.
LEMMA GetSwapsInv ==
    ASSUME SwapsInv, NEW c \in getting, TokenGet(c)
    PROVE  SwapsInv'
<1>1. c \in CallRecord /\ swapped # <<>>
  BY DEF SwapsInv
<1>2. /\ getting' = getting \ {c}
      /\ setting' = IF Covers(Reads(c), Head(c.steps))
                    THEN setting \cup {[call |-> c, account |-> Moved(Reads(c), Head(c.steps))]}
                    ELSE setting
      /\ state' = state /\ swapped' = swapped
  BY Zenon DEF TokenGet, vars
<1>3. setting' \subseteq [call : CallRecord, account : AccountType]
  <2>1. CASE Covers(Reads(c), Head(c.steps))
    <3> DEFINE a == Moved(Reads(c), Head(c.steps))
    <3>1. a \in AccountType
      BY <1>1, <2>1, MovedAccount
    <3> HIDE DEF a
    <3>2. setting' = setting \cup {[call |-> c, account |-> a]}
      BY <1>2, <2>1 DEF a
    <3>3. QED
      BY <1>1, <3>1, <3>2 DEF SwapsInv
  <2>2. CASE ~Covers(Reads(c), Head(c.steps))
    BY <1>2, <2>2 DEF SwapsInv
  <2>3. QED
    BY <2>1, <2>2
<1>4. StoresOK(state') /\ PoolsEncoded(state') /\ swapped' \in Seq(EventType) /\ getting' \subseteq CallRecord
  BY <1>2 DEF SwapsInv
<1>5. QED
  BY <1>1, <1>2, <1>3, <1>4 DEF SwapsInv, PoolsEncoded

\* The write of a balance changes nothing else.
LEMMA LedgerWritten ==
    ASSUME NEW s, StoresOK(s), NEW key \in BalanceKeys, NEW a \in AccountType
    PROVE  LET t == [s EXCEPT !.ledger[key] = a]
           IN  /\ t.pools = s.pools /\ t.ticks = s.ticks /\ t.positions = s.positions
               /\ t.ledger = [s.ledger EXCEPT ![key] = a]
               /\ StoresOK(t)
<1> DEFINE t == [s EXCEPT !.ledger[key] = a]
           l == [s.ledger EXCEPT ![key] = a]
<1>1. IsState(s) /\ s.ledger \in LedgerType
  BY DEF StoresOK
<1>2. t = [pools |-> s.pools, ticks |-> s.ticks, positions |-> s.positions,
           positionCounter |-> s.positionCounter, ledger |-> l]
  BY <1>1 DEF IsState
<1>3. l \in LedgerType
  BY <1>1 DEF LedgerType, AccountType, BalanceKeys
<1> HIDE DEF t, l
<1>4. /\ t.pools = s.pools /\ t.ticks = s.ticks /\ t.positions = s.positions
      /\ t.positionCounter = s.positionCounter /\ t.ledger = l
  BY <1>2
<1>5. IsState(t)
  BY <1>2, <1>4 DEF IsState
<1>6. TicksFresh(t)
  BY <1>4 DEF StoresOK, TicksFresh
<1>7. \A id \in DOMAIN t.positions : PositionOK(t, id)
  BY <1>4 DEF StoresOK, PositionOK
<1>8. StoresOK(t)
  BY <1>3, <1>4, <1>5, <1>6, <1>7 DEF StoresOK
<1>9. QED
  BY <1>4, <1>8 DEF t, l

\* A write of an account preserves SwapsInv.
LEMMA SetSwapsInv ==
    ASSUME SwapsInv, NEW w \in setting, TokenSet(w)
    PROVE  SwapsInv'
<1> DEFINE key == Head(w.call.steps).key
           rest == Tail(w.call.steps)
<1>1. w.call \in CallRecord /\ w.account \in AccountType /\ swapped # <<>>
  BY DEF SwapsInv
<1>2. /\ setting' = setting \ {w}
      /\ state' = [state EXCEPT !.ledger[key] = w.account]
      /\ getting' = IF rest = <<>> THEN getting ELSE getting \cup {[w.call EXCEPT !.steps = rest]}
      /\ swapped' = swapped
  BY Zenon DEF TokenSet
<1>3. key \in BalanceKeys
  BY <1>1, FirstStep
<1> HIDE DEF key
<1>4. state'.pools = state.pools /\ StoresOK(state')
  <2>1. StoresOK(state)
    BY DEF SwapsInv
  <2>2. QED
    BY <1>1, <1>2, <1>3, <2>1, LedgerWritten
<1>5. PoolsEncoded(state')
  BY <1>4 DEF SwapsInv, PoolsEncoded
<1>6. getting' \subseteq CallRecord
  <2>1. CASE rest = <<>>
    BY <1>2, <2>1 DEF SwapsInv
  <2>2. CASE rest # <<>>
    <3>1. rest \in Seq(StepType)
      BY <1>1, FirstStep
    <3>2. rest \in CallType
      BY <2>2, <3>1 DEF CallType
    <3> HIDE DEF rest
    <3>3. [w.call EXCEPT !.steps = rest] \in CallRecord
      BY <1>1, <3>2 DEF CallRecord
    <3>4. QED
      BY <1>2, <2>2, <3>3 DEF SwapsInv
  <2>3. QED
    BY <2>1, <2>2
<1>7. setting' \subseteq [call : CallRecord, account : AccountType] /\ swapped' \in Seq(EventType)
  BY <1>2 DEF SwapsInv
<1>8. QED
  BY <1>1, <1>2, <1>4, <1>5, <1>6, <1>7 DEF SwapsInv, PoolsEncoded

\* SwapsInv is inductive.
LEMMA NextSwapsInv ==
    TableAscends /\ FeesModest /\ SwapsInv /\ [SwapsNext]_swapsVars => SwapsInv'
<1> SUFFICES ASSUME TableAscends, FeesModest, SwapsInv, [SwapsNext]_swapsVars PROVE SwapsInv'
  OBVIOUS
<1>1. StoresOK(state) /\ PoolsEncoded(state)
  BY DEF SwapsInv
<1>2. CASE PositionCommand
  <2>1. PICK sender \in Accounts \ Senders : Command(sender)
    BY <1>2 DEF PositionCommand
  <2>2. [Next]_vars
    BY <2>1 DEF Next
  <2>3. swapped = <<>> /\ swapped' = <<>> /\ getting' = getting /\ setting' = setting
    BY <1>2 DEF PositionCommand, settlement
  <2>4. PositionsInv /\ getting = {} /\ setting = {}
    BY <2>3 DEF SwapsInv
  <2>5. PositionsInv'
    BY <2>2, <2>4, NextPositionsInv
  <2>6. StoresOK(state') /\ PoolsEncoded(state')
    BY <2>5 DEF PositionsInv, GrantsInv, PoolsEncoded
  <2>7. swapped' \in Seq(EventType)
    BY <2>3
  <2>8. QED
    BY <2>3, <2>4, <2>5, <2>6, <2>7 DEF SwapsInv, PoolsEncoded
<1>3. CASE Settles
  BY <1>3, SettlesSwapsInv
<1>4. ASSUME NEW c \in getting, TokenGet(c) PROVE SwapsInv'
  BY <1>4, GetSwapsInv
<1>5. ASSUME NEW w \in setting, TokenSet(w) PROVE SwapsInv'
  BY <1>5, SetSwapsInv
<1>6. CASE UNCHANGED swapsVars
  <2>1. /\ state' = state /\ swapped' = swapped /\ getting' = getting /\ setting' = setting
        /\ created' = created
    BY <1>6 DEF swapsVars, vars, settlement
  <2>2. PositionsInv => PositionsInv'
    BY <2>1 DEF PositionsInv, PoolsEncoded
  <2>3. StoresOK(state') /\ PoolsEncoded(state')
    BY <1>1, <2>1
  <2>4. QED
    BY <2>1, <2>2, <2>3 DEF SwapsInv, PoolsEncoded
<1>7. ASSUME NEW sender \in Senders, NEW tokenIn \in Tokens, NEW tokenOut \in Tokens,
             NEW route \in RoutesIn, NEW amount \in SwapAmounts,
             SwapExactIn(sender, tokenIn, tokenOut, route, amount)
      PROVE  Settles
  BY <1>1, <1>7, ExactInSettles
<1>8. ASSUME NEW sender \in Senders, NEW tokenIn \in Tokens, NEW tokenOut \in Tokens,
             NEW route \in RoutesOut, NEW amount \in SwapAmounts,
             SwapExactOut(sender, tokenIn, tokenOut, route, amount)
      PROVE  Settles
  BY <1>1, <1>8, ExactOutSettles
<1>9. ASSUME NEW sender \in Senders, NEW tokenIn \in Tokens, NEW tokenOut \in Tokens,
             NEW poolID \in Pools, NEW limit \in Limits, NEW amount \in SwapAmounts,
             SwapWithPriceLimit(sender, tokenIn, tokenOut, poolID, limit, amount)
      PROVE  Settles
  BY <1>1, <1>9, PriceLimitSettles
<1>10. QED
  BY <1>2, <1>3, <1>4, <1>5, <1>6, <1>7, <1>8, <1>9 DEF SwapsNext

\* SwapsInv holds in every reachable state.
LEMMA SwapsInvariant == ASSUME TableAscends, FeesModest PROVE SwapsSpec => []SwapsInv
<1>1. SwapsInit => SwapsInv
  BY InitSwapsInv
<1>2. SwapsInv /\ [SwapsNext]_swapsVars => SwapsInv'
  BY NextSwapsInv
<1>3. QED
  BY <1>1, <1>2, PTL DEF SwapsSpec

\* The amounts of every event are natural numbers, whatever fees were taken from
\* them, and in whatever order the reads and writes of calls that are not awaited
\* interleave, no balance is negative and no record unreadable.
THEOREM SwapsTypeInvariant ==
    ASSUME TableAscends, FeesModest
    PROVE  SwapsSpec => []SwapsTypeOK
<1>1. SwapsInv => SwapsTypeOK
  <2> SUFFICES ASSUME SwapsInv PROVE SwapsTypeOK
    OBVIOUS
  <2>1. TypeOK
    BY StoresTyped DEF SwapsInv
  <2>2. \A i \in DOMAIN swapped : swapped[i] \in EventType
    BY DEF SwapsInv
  <2>3. \A c \in getting : c.steps # <<>>
    BY FirstStep DEF SwapsInv
  <2>4. QED
    BY <2>1, <2>2, <2>3 DEF SwapsTypeOK, EventType
<1>2. QED
  BY <1>1, SwapsInvariant, PTL

-----------------------------------------------------------------------------
(* Routes *)

\* What the hops along a route rely on; IsWalk is about the pools of the state.
Priced(pools) == \A p \in DOMAIN pools : p \in Pools /\ pools[p].sqrtPrice \in Nat

NonePricedZero(pools) == \A p \in DOMAIN pools : pools[p].sqrtPrice # 0

\* Whether there is a price along a route.
HasPrice(pools, tokenIn, route, token) ==
    \E w \in PricesTo(pools, tokenIn, route) : w.token = token

PriceType == [price : Int, token : Tokens]

\* The ends of a pool.
Joins(poolID, token, other) == {token, other} = {Token0(poolID), Token1(poolID)}

\* A pool gives a price only from one of its tokens to the other.
LEMMA HopJoins ==
    ASSUME NEW pools, Priced(pools), NEW p, NEW w \in PriceType, NEW v \in CurrentPriceHop(pools, p, w)
    PROVE  p \in DOMAIN pools /\ v \in PriceType /\ Joins(p, w.token, v.token)
<1>1. p \in DOMAIN pools
  BY DEF CurrentPriceHop
<1>2. /\ pools[p].sqrtPrice \in Nat /\ Token0(p) \in Tokens /\ Token1(p) \in Tokens
      /\ w.price \in Int /\ w.token \in Tokens /\ One \in Nat \ {0}
  BY <1>1, PositionsAssumption, OneAssumption DEF Priced, PriceType
<1> DEFINE q == pools[p].sqrtPrice
<1> HIDE DEF q
<1>3. CASE Token0(p) = w.token
  <2> DEFINE x == MulQ96(w.price, q)
  <2>1. v = [price |-> x, token |-> Token1(p)]
    BY <1>1, <1>3 DEF CurrentPriceHop, q
  <2>2. x \in Int
    <3>1. w.price * q \in Int
      BY <1>2 DEF q
    <3>2. QED
      BY <1>2, <3>1, IntDivBounds DEF MulQ96
  <2> HIDE DEF x
  <2>3. QED
    BY <1>1, <1>2, <1>3, <2>1, <2>2 DEF PriceType, Joins
<1>4. CASE Token0(p) # w.token
  <2> DEFINE x == MulQ96(w.price, InvQ96(q))
  <2>1. v = [price |-> x, token |-> Token0(p)] /\ Token1(p) = w.token /\ q # 0
    BY <1>1, <1>4 DEF CurrentPriceHop, q
  <2>2. x \in Int
    <3>1. One * One \in Int /\ q \in Nat \ {0}
      BY <1>2, <2>1 DEF q
    <3>2. InvQ96(q) \in Int
      BY <3>1, IntDivBounds DEF InvQ96, DivQ96
    <3>3. w.price * InvQ96(q) \in Int
      BY <1>2, <3>2
    <3>4. QED
      BY <1>2, <3>3, IntDivBounds DEF MulQ96
  <2> HIDE DEF x
  <2>3. QED
    BY <1>1, <1>2, <2>1, <2>2 DEF PriceType, Joins
<1>5. QED
  BY <1>3, <1>4

HopTo(pools, p, w, other) == \E v \in CurrentPriceHop(pools, p, w) : v.token = other

\* A pool whose price is not 0 gives a price from each of its tokens to the
\* other.
LEMMA JoinedHop ==
    ASSUME NEW pools, NEW p \in DOMAIN pools, pools[p].sqrtPrice # 0, NEW w, NEW other,
           Joins(p, w.token, other)
    PROVE  HopTo(pools, p, w, other)
<1>1. CASE Token0(p) = w.token
  <2> DEFINE v == [price |-> MulQ96(w.price, pools[p].sqrtPrice), token |-> Token1(p)]
  <2>1. v \in CurrentPriceHop(pools, p, w)
    BY <1>1 DEF CurrentPriceHop
  <2>2. v.token = Token1(p) /\ Token1(p) = other
    BY <1>1 DEF Joins
  <2>3. QED
    BY <2>1, <2>2 DEF HopTo
<1>2. CASE Token0(p) # w.token
  <2> DEFINE v == [price |-> MulQ96(w.price, InvQ96(pools[p].sqrtPrice)), token |-> Token0(p)]
  <2>1. Token1(p) = w.token /\ Token0(p) = other
    BY <1>2 DEF Joins
  <2>2. v \in CurrentPriceHop(pools, p, w)
    BY <1>2, <2>1 DEF CurrentPriceHop
  <2>3. QED
    BY <2>1, <2>2 DEF HopTo
<1>3. QED
  BY <1>1, <1>2

\* The walks along the first n pools of a route.
LeadsTo(pools, route, tokenIn, n, token) ==
    \E tokens \in [0..n -> Tokens] :
        /\ tokens[0] = tokenIn /\ tokens[n] = token
        /\ \A i \in 1..n : route[i] \in DOMAIN pools /\ Joins(route[i], tokens[i - 1], tokens[i])

\* A route leads on through a pool that has the token reached so far.
LEMMA LeadsOn ==
    ASSUME NEW pools, NEW route, NEW tokenIn \in Tokens, NEW n \in Nat, NEW token \in Tokens,
           LeadsTo(pools, route, tokenIn, n, token),
           route[n + 1] \in DOMAIN pools, NEW other \in Tokens, Joins(route[n + 1], token, other)
    PROVE  LeadsTo(pools, route, tokenIn, n + 1, other)
<1>1. PICK tokens \in [0..n -> Tokens] :
        /\ tokens[0] = tokenIn /\ tokens[n] = token
        /\ \A i \in 1..n : route[i] \in DOMAIN pools /\ Joins(route[i], tokens[i - 1], tokens[i])
  BY DEF LeadsTo
<1> DEFINE more == [i \in 0..(n + 1) |-> IF i = n + 1 THEN other ELSE tokens[i]]
<1>2. /\ more \in [0..(n + 1) -> Tokens] /\ more[0] = tokenIn /\ more[n + 1] = other
      /\ \A i \in 0..n : more[i] = tokens[i]
  BY <1>1
<1> HIDE DEF more
<1>3. ASSUME NEW i \in 1..(n + 1)
      PROVE  route[i] \in DOMAIN pools /\ Joins(route[i], more[i - 1], more[i])
  <2>1. CASE i = n + 1
    <3>1. i - 1 = n /\ n \in 0..n
      BY <2>1
    <3>2. more[i - 1] = token /\ more[i] = other
      BY <1>1, <1>2, <2>1, <3>1
    <3>3. QED
      BY <2>1, <3>2
  <2>2. CASE i # n + 1
    <3>1. i \in 1..n /\ i \in 0..n /\ i - 1 \in 0..n
      BY <2>2
    <3>2. QED
      BY <1>1, <1>2, <3>1
  <2>3. QED
    BY <2>1, <2>2
<1>4. QED
  BY <1>2, <1>3 DEF LeadsTo

\* A route has a price only for a token it leads to.
LEMMA PriceLeads ==
    ASSUME NEW pools, Priced(pools), NEW route, Len(route) \in Nat, NEW tokenIn \in Tokens,
           NEW w \in PricesTo(pools, tokenIn, route)
    PROVE  LeadsTo(pools, route, tokenIn, Len(route), w.token)
<1> DEFINE N == Len(route)
           a == <<pools, route>>
           start == [price |-> 1, token |-> tokenIn]
           G == [n \in 0..N |-> {v \in PriceType : LeadsTo(pools, route, tokenIn, n, v.token)}]
<1>1. PICK f : IsLoop(f, N, start, "price", a) /\ PricesTo(pools, tokenIn, route) = f[N]
  BY PriceLoop
<1>2. start \in G[0]
  <2>1. start \in PriceType /\ start.token = tokenIn
    BY DEF PriceType
  <2>2. LeadsTo(pools, route, tokenIn, 0, tokenIn)
    <3> DEFINE tokens == [i \in 0..0 |-> tokenIn]
    <3>1. tokens \in [0..0 -> Tokens] /\ tokens[0] = tokenIn
      OBVIOUS
    <3> HIDE DEF tokens
    <3>2. QED
      BY <3>1 DEF LeadsTo
  <2> HIDE DEF start
  <2>3. QED
    BY <2>1, <2>2
<1>3. \A n, v : Hop("price", a, n, v) = CurrentPriceHop(pools, route[n], v)
  BY DEF Hop
<1> HIDE DEF a, start
<1>4. \A n \in 1..N : \A v \in G[n - 1] : Hop("price", a, n, v) \subseteq G[n]
  <2>1. SUFFICES ASSUME NEW n \in 1..N, NEW v \in G[n - 1], NEW u \in CurrentPriceHop(pools, route[n], v)
                 PROVE  u \in G[n]
    BY <1>3
  <2>2. n - 1 \in Nat /\ (n - 1) + 1 = n /\ n - 1 \in 0..N /\ n \in 0..N
    OBVIOUS
  <2>3. v \in PriceType /\ LeadsTo(pools, route, tokenIn, n - 1, v.token)
    BY <2>2
  <2>4. route[n] \in DOMAIN pools /\ u \in PriceType /\ Joins(route[n], v.token, u.token)
    BY <2>3, HopJoins
  <2>5. v.token \in Tokens /\ u.token \in Tokens
    BY <2>3, <2>4 DEF PriceType
  <2>6. LeadsTo(pools, route, tokenIn, (n - 1) + 1, u.token)
    BY <2>2, <2>3, <2>4, <2>5, LeadsOn
  <2>7. QED
    BY <2>2, <2>4, <2>6
<1>5. G[N] = {v \in PriceType : LeadsTo(pools, route, tokenIn, N, v.token)} /\ N \in Nat
  OBVIOUS
<1> HIDE DEF G, N
<1>6. IsLoop(f, N, start, "price", a)
  BY <1>1
<1>7. f[N] \subseteq G[N]
  BY <1>2, <1>4, <1>5, <1>6, LoopInduction
<1>8. QED
  BY <1>1, <1>5, <1>7 DEF N

\* A route has a price for every token it leads to, however small the price
\* is.
LEMMA WalkHasPrice ==
    ASSUME NEW pools, NonePricedZero(pools),
           NEW route, Len(route) \in Nat, NEW tokenIn, NEW token,
           LeadsTo(pools, route, tokenIn, Len(route), token)
    PROVE  HasPrice(pools, tokenIn, route, token)
<1> DEFINE N == Len(route)
           a == <<pools, route>>
           start == [price |-> 1, token |-> tokenIn]
<1>1. PICK f : IsLoop(f, N, start, "price", a) /\ PricesTo(pools, tokenIn, route) = f[N]
  BY PriceLoop
<1>2. PICK tokens \in [0..N -> Tokens] :
        /\ tokens[0] = tokenIn /\ tokens[N] = token
        /\ \A i \in 1..N : route[i] \in DOMAIN pools /\ Joins(route[i], tokens[i - 1], tokens[i])
  BY DEF LeadsTo
<1>3. \A n, v : Hop("price", a, n, v) = CurrentPriceHop(pools, route[n], v)
  BY DEF Hop
<1>4. start.token = tokenIn
  OBVIOUS
<1> HIDE DEF a, start
<1>5. \A n \in 0..N : f[n] = IF n = 0 THEN {start} ELSE UNION {Hop("price", a, n, v) : v \in f[n - 1]}
  BY <1>1, Zenon DEF IsLoop
<1> DEFINE S == {n \in Nat : n <= N => \E w \in f[n] : w.token = tokens[n]}
<1>6. 0 \in S
  <2>1. 0 \in 0..N
    OBVIOUS
  <2>2. f[0] = {start}
    BY <1>5, <2>1, Zenon
  <2>3. QED
    BY <1>2, <1>4, <2>2
<1>7. ASSUME NEW n \in S PROVE n + 1 \in S
  <2>1. SUFFICES ASSUME n + 1 <= N PROVE \E w \in f[n + 1] : w.token = tokens[n + 1]
    OBVIOUS
  <2>2. n + 1 \in 0..N /\ n + 1 \in 1..N /\ n + 1 # 0 /\ (n + 1) - 1 = n /\ n <= N
    BY <2>1
  <2>3. f[n + 1] = UNION {Hop("price", a, n + 1, v) : v \in f[n]}
    BY <1>5, <2>2, Zenon
  <2>4. PICK v \in f[n] : v.token = tokens[n]
    BY <2>2
  <2>5. route[n + 1] \in DOMAIN pools /\ Joins(route[n + 1], v.token, tokens[n + 1])
    BY <1>2, <2>2, <2>4
  <2>6. CurrentPriceHop(pools, route[n + 1], v) \subseteq f[n + 1]
    BY <1>3, <2>3, <2>4
  <2> DEFINE p == route[n + 1]
             other == tokens[n + 1]
  <2>7. p \in DOMAIN pools /\ pools[p].sqrtPrice # 0 /\ Joins(p, v.token, other)
    BY <2>5 DEF NonePricedZero
  <2>8. CurrentPriceHop(pools, p, v) \subseteq f[n + 1]
    BY <2>6
  <2> HIDE DEF p, other
  <2>9. HopTo(pools, p, v, other)
    BY <2>7, JoinedHop
  <2>10. \E w \in f[n + 1] : w.token = other
    BY <2>8, <2>9 DEF HopTo
  <2>11. QED
    BY <2>10 DEF other
<1>8. S = Nat
  <2> HIDE DEF S
  <2>1. S \subseteq Nat
    BY DEF S
  <2>2. QED
    BY <1>6, <1>7, <2>1, SetOfAllNaturals
<1>9. QED
  BY <1>1, <1>2, <1>8 DEF HasPrice

\* Exactly the routes that lead from one token to the other have a price.
LEMMA PricedRoutesAreWalks ==
    ASSUME Priced(state.pools), NonePricedZero(state.pools),
           NEW tokenIn \in Tokens, NEW tokenOut \in Tokens, NEW route \in Seq(Pools)
    PROVE  ComputeCurrentPrice(state.pools, tokenIn, tokenOut, route) # {}
             <=> IsWalk(tokenIn, tokenOut, route)
<1>1. Len(route) \in Nat /\ DOMAIN route = 1..Len(route)
  OBVIOUS
<1>2. IsWalk(tokenIn, tokenOut, route)
        <=> LeadsTo(state.pools, route, tokenIn, Len(route), tokenOut)
  BY <1>1 DEF IsWalk, LeadsTo, Joins
<1>3. ComputeCurrentPrice(state.pools, tokenIn, tokenOut, route) # {}
        <=> HasPrice(state.pools, tokenIn, route, tokenOut)
  BY DEF ComputeCurrentPrice, HasPrice
<1>4. ASSUME HasPrice(state.pools, tokenIn, route, tokenOut)
      PROVE  LeadsTo(state.pools, route, tokenIn, Len(route), tokenOut)
  BY <1>1, <1>4, PriceLeads DEF HasPrice
<1>5. ASSUME LeadsTo(state.pools, route, tokenIn, Len(route), tokenOut)
      PROVE  HasPrice(state.pools, tokenIn, route, tokenOut)
  BY <1>1, <1>5, WalkHasPrice
<1>6. QED
  BY <1>2, <1>3, <1>4, <1>5

\* What holds before the first swap, which no other step makes undone.
BeforeSwaps ==
    /\ \E S : swapped \in Seq(S)
    /\ swapped = <<>> => PositionsInv /\ getting = {} /\ setting = {}

\* After a swap BeforeSwaps says nothing more.
LEMMA SwappedGrows ==
    ASSUME BeforeSwaps, NEW e, swapped' = Append(swapped, e)
    PROVE  BeforeSwaps'
<1>1. PICK S : swapped \in Seq(S)
  BY DEF BeforeSwaps
<1>2. swapped' \in Seq(S \cup {e}) /\ swapped' # <<>>
  <2>1. swapped \in Seq(S \cup {e})
    BY <1>1
  <2>2. QED
    BY <2>1
<1>3. QED
  BY <1>2 DEF BeforeSwaps

\* BeforeSwaps is inductive.
LEMMA NextBeforeSwaps == TableAscends /\ BeforeSwaps /\ [SwapsNext]_swapsVars => BeforeSwaps'
<1> SUFFICES ASSUME TableAscends, BeforeSwaps, [SwapsNext]_swapsVars PROVE BeforeSwaps'
  OBVIOUS
<1>1. CASE PositionCommand
  <2>1. PICK sender \in Accounts \ Senders : Command(sender)
    BY <1>1 DEF PositionCommand
  <2>2. [Next]_vars
    BY <2>1 DEF Next
  <2>3. swapped = <<>> /\ swapped' = swapped /\ getting' = getting /\ setting' = setting
    BY <1>1 DEF PositionCommand, settlement
  <2>4. PositionsInv /\ getting = {} /\ setting = {}
    BY <2>3 DEF BeforeSwaps
  <2>5. PositionsInv'
    BY <2>2, <2>4, NextPositionsInv
  <2>6. QED
    BY <2>3, <2>4, <2>5 DEF BeforeSwaps
<1>2. ASSUME NEW e, swapped' = Append(swapped, e) PROVE BeforeSwaps'
  BY <1>2, SwappedGrows
<1>3. ASSUME NEW c \in getting, TokenGet(c) PROVE BeforeSwaps'
  BY <1>3, Zenon DEF BeforeSwaps, TokenGet
<1>4. ASSUME NEW w \in setting, TokenSet(w) PROVE BeforeSwaps'
  BY <1>4, Zenon DEF BeforeSwaps, TokenSet
<1>5. CASE UNCHANGED swapsVars
  <2>1. /\ state' = state /\ swapped' = swapped /\ getting' = getting /\ setting' = setting
        /\ created' = created
    BY <1>5 DEF swapsVars, vars, settlement
  <2>2. PositionsInv => PositionsInv'
    BY <2>1 DEF PositionsInv, PoolsEncoded
  <2>3. QED
    BY <2>1, <2>2 DEF BeforeSwaps
<1>6. ASSUME NEW sender \in Senders, NEW tokenIn \in Tokens, NEW tokenOut \in Tokens,
             NEW route \in RoutesIn, NEW amount \in SwapAmounts,
             SwapExactIn(sender, tokenIn, tokenOut, route, amount)
      PROVE  \E e : swapped' = Append(swapped, e)
  BY <1>6, Zenon DEF SwapExactIn, Settle
<1>7. ASSUME NEW sender \in Senders, NEW tokenIn \in Tokens, NEW tokenOut \in Tokens,
             NEW route \in RoutesOut, NEW amount \in SwapAmounts,
             SwapExactOut(sender, tokenIn, tokenOut, route, amount)
      PROVE  \E e : swapped' = Append(swapped, e)
  BY <1>7, Zenon DEF SwapExactOut, Settle
<1>8. ASSUME NEW sender \in Senders, NEW tokenIn \in Tokens, NEW tokenOut \in Tokens,
             NEW poolID \in Pools, NEW limit \in Limits, NEW amount \in SwapAmounts,
             SwapWithPriceLimit(sender, tokenIn, tokenOut, poolID, limit, amount)
      PROVE  \E e : swapped' = Append(swapped, e)
  BY <1>8, Zenon DEF SwapWithPriceLimit, Settle
<1>9. QED
  BY <1>1, <1>2, <1>3, <1>4, <1>5, <1>6, <1>7, <1>8 DEF SwapsNext

\* BeforeSwaps holds in every reachable state.
LEMMA BeforeSwapsInvariant == ASSUME TableAscends PROVE SwapsSpec => []BeforeSwaps
<1>1. SwapsInit => BeforeSwaps
  <2> SUFFICES ASSUME SwapsInit PROVE BeforeSwaps
    OBVIOUS
  <2>1. PositionsInv
    BY InitPositionsInv DEF SwapsInit
  <2>2. swapped = <<>> /\ getting = {} /\ setting = {}
    BY DEF SwapsInit
  <2>3. swapped \in Seq({})
    BY <2>2
  <2>4. QED
    BY <2>1, <2>2, <2>3 DEF BeforeSwaps
<1>2. BeforeSwaps /\ [SwapsNext]_swapsVars => BeforeSwaps'
  BY NextBeforeSwaps
<1>3. QED
  BY <1>1, <1>2, PTL DEF SwapsSpec

\* Whatever pools the commands leave, exactly the routes that lead from one token
\* to the other through pools that exist have a price, in spite of prices that are
\* rounded down to 0 on the way, and dry runs answer along such routes only.
THEOREM RoutesInvariant ==
    ASSUME TableAscends, GenesisPriced
    PROVE  SwapsSpec => []RoutesAreWalks
<1>1. BeforeSwaps => RoutesAreWalks
  <2> SUFFICES ASSUME BeforeSwaps, swapped = <<>>,
                      NEW tokenIn \in Tokens, NEW tokenOut \in Tokens,
                      NEW route \in RoutesIn \cup RoutesOut, NEW amount \in SwapAmounts
               PROVE  /\ ComputeCurrentPrice(state.pools, tokenIn, tokenOut, route) # {}
                           <=> IsWalk(tokenIn, tokenOut, route)
                      /\ DryRunSwapExactIn(state, tokenIn, tokenOut, route, amount, 0) # {}
                           => IsWalk(tokenIn, tokenOut, route)
                      /\ DryRunSwapExactOut(state, tokenIn, tokenOut, route, amount, Balance) # {}
                           => IsWalk(tokenIn, tokenOut, route) /\ IsWalk(tokenIn, tokenOut, Reverse(route))
    BY DEF RoutesAreWalks
  <2>1. GrantsInv(state, created)
    BY DEF BeforeSwaps, PositionsInv
  <2>2. NonePricedZero(state.pools)
    BY <2>1 DEF GrantsInv, NonePricedZero
  <2>3. Priced(state.pools)
    BY <2>1 DEF GrantsInv, StoresOK, IsState, Priced
  <2>4. route \in Seq(Pools) /\ Reverse(route) \in Seq(Pools)
    BY CommandsAssumption, Reversed
  <2>5. /\ ComputeCurrentPrice(state.pools, tokenIn, tokenOut, route) # {}
             <=> IsWalk(tokenIn, tokenOut, route)
        /\ ComputeCurrentPrice(state.pools, tokenIn, tokenOut, Reverse(route)) # {}
             <=> IsWalk(tokenIn, tokenOut, Reverse(route))
    BY <2>2, <2>3, <2>4, PricedRoutesAreWalks
  <2>6. DryRunSwapExactIn(state, tokenIn, tokenOut, route, amount, 0) # {}
          => ComputeCurrentPrice(state.pools, tokenIn, tokenOut, route) # {}
    BY Zenon DEF DryRunSwapExactIn
  <2>7. DryRunSwapExactOut(state, tokenIn, tokenOut, route, amount, Balance) # {}
          => /\ ComputeCurrentPrice(state.pools, tokenIn, tokenOut, route) # {}
             /\ ComputeCurrentPrice(state.pools, tokenIn, tokenOut, Reverse(route)) # {}
    BY Zenon DEF DryRunSwapExactOut
  <2>8. QED
    BY <2>5, <2>6, <2>7
<1>2. QED
  BY <1>1, BeforeSwapsInvariant, PTL

-----------------------------------------------------------------------------
(* What calls under way will still add *)

UnderWay == getting \cup {w.call : w \in setting}

CallValue(v) == [c \in CallRecord |-> SeqSum(v, c.steps)]
Pending(v) == SumOver(CallValue(v), UnderWay)

\* While no two calls were on a record at once and none was refused, every call
\* is under way once, and writes what is still true of the record it read.
CallsOK ==
    /\ IsFiniteSet(UnderWay)
    /\ \A c, d \in UnderWay : c.id = d.id => c = d
    /\ \A c \in UnderWay : c.id[1] < Len(swapped)
    /\ \A w \in setting : w.call \notin getting
    /\ \A w, x \in setting : Head(w.call.steps).key = Head(x.call.steps).key => w = x
    /\ \A w \in setting :
          w.account = Moved(state.ledger[Head(w.call.steps).key], Head(w.call.steps))

\* Calls under way are records of calls.
LEMMA UnderWayTyped ==
    ASSUME SwapsInv
    PROVE  UnderWay \subseteq CallRecord
BY DEF SwapsInv, UnderWay

\* What a call under way still changes is a number.
LEMMA CallValueInt ==
    ASSUME NEW v \in [StepType -> Int], NEW c \in CallRecord
    PROVE  /\ CallValue(v)[c] = SeqSum(v, c.steps) /\ CallValue(v)[c] \in Int
           /\ c.steps \in CallType => CallValue(v)[c] = CallSum(v)[c.steps]
<1>1. c.steps \in Seq(StepType)
  BY FirstStep
<1>2. SeqSum(v, c.steps) \in Int
  BY <1>1, SeqSumInt
<1>3. QED
  BY <1>2 DEF CallValue, CallSum

\* A call whose steps are done has nothing to add.
LEMMA RestValue ==
    ASSUME NEW v \in [StepType -> Int], NEW c \in CallRecord
    PROVE  SeqSum(v, c.steps) = v[Head(c.steps)] + SeqSum(v, Tail(c.steps))
BY FirstStep, SeqSumTail

\* What Settles does to the calls under way.
LEMMA SettlesCalls ==
    ASSUME SwapsInv, CallsOK, NEW e, NEW calls \in Seq(CallType),
           swapped' = Append(swapped, e),
           getting' = getting \cup {[id |-> <<Len(swapped), i>>, steps |-> calls[i]] : i \in DOMAIN calls},
           setting' = setting, state' = state
    PROVE  /\ CallsOK'
           /\ \A v \in [StepType -> Int] : Pending(v)' = Pending(v) + SeqSum(CallSum(v), calls)
<1> DEFINE n == Len(calls)
           L == Len(swapped)
           h == [i \in 1..n |-> [id |-> <<L, i>>, steps |-> calls[i]]]
           A == {h[i] : i \in 1..n}
<1>1. n \in Nat /\ DOMAIN calls = 1..n /\ L \in Nat /\ Len(swapped)' = L + 1
  BY DEF SwapsInv
<1>2. \A i \in 1..n : h[i] \in CallRecord /\ h[i].id = <<L, i>> /\ h[i].steps = calls[i]
                      /\ calls[i] \in CallType
  BY <1>1 DEF CallRecord
<1>3. getting' = getting \cup A
  BY <1>1
<1> HIDE DEF h
<1>4. UnderWay' = UnderWay \cup A
  BY <1>3 DEF UnderWay
<1>5. \A c \in UnderWay : c.id[1] < L
  BY DEF CallsOK
<1>6. \A i \in 1..n : h[i].id[1] = L
  BY <1>2
<1>7. \A i \in 1..n : h[i] \notin UnderWay
  BY <1>1, <1>5, <1>6
<1>8. \A i, j \in 1..n : h[i].id = h[j].id => i = j
  BY <1>2
<1>9. ASSUME NEW v \in [StepType -> Int]
      PROVE  /\ IsFiniteSet(UnderWay \cup A)
             /\ Pending(v)' = Pending(v) + SeqSum(CallSum(v), calls)
  <2> DEFINE g == CallValue(v)
             B == UnderWay
  <2>1. \A c \in B : g[c] \in Int
    BY UnderWayTyped, CallValueInt
  <2>2. \A i \in 1..n : g[h[i]] = CallSum(v)[calls[i]] /\ g[h[i]] \in Int
    BY <1>2, CallValueInt
  <2>3. IsFiniteSet(B)
    BY DEF CallsOK
  <2>4. n \in Nat
    BY <1>1
  <2> HIDE DEF g, B, n, A
  <2>5. AllNew(B, h, n, g)
    BY <1>7, <1>8, <2>1, <2>2 DEF AllNew, B
  <2>6. /\ IsFiniteSet(Grown(B, h, n))
        /\ SumOver(g, Grown(B, h, n)) = SumOver(g, B) + SumOver(ValuesOf(g, h, n), 1..n)
    BY <2>3, <2>4, <2>5, SumOfAdded, ZenonT(60)
  <2>7. ValuesOf(g, h, n) = [i \in 1..n |-> CallSum(v)[calls[i]]]
    BY <2>2 DEF ValuesOf
  <2>8. SumOver(ValuesOf(g, h, n), 1..n) = SeqSum(CallSum(v), calls)
    BY <2>7 DEF SeqSum, n
  <2>9. Pending(v)' = SumOver(g, Grown(B, h, n)) /\ Pending(v) = SumOver(g, B)
    BY <1>4 DEF Pending, Grown, g, B, A
  <2>10. QED
    BY <2>6, <2>8, <2>9 DEF Grown, B, A
<1>10. IsFiniteSet(UnderWay')
  <2>1. [s \in StepType |-> 0] \in [StepType -> Int]
    OBVIOUS
  <2>2. QED
    BY <1>4, <1>9, <2>1
<1>11. \A c, d \in UnderWay' : c.id = d.id => c = d
  <2>1. \A c, d \in UnderWay : c.id = d.id => c = d
    BY DEF CallsOK
  <2>2. \A i \in 1..n : \A c \in UnderWay : c.id # h[i].id
    BY <1>1, <1>5, <1>6
  <2>3. QED
    BY <1>4, <1>8, <2>1, <2>2
<1>12. \A c \in UnderWay' : c.id[1] < L + 1
  <2>1. \A c \in UnderWay : c.id[1] \in Nat
    BY UnderWayTyped DEF CallRecord
  <2>2. QED
    BY <1>1, <1>4, <1>5, <1>6, <2>1
<1>13. \A w \in setting' : w.call \notin getting'
  <2>1. \A w \in setting : w.call \in UnderWay
    BY DEF UnderWay
  <2>2. QED
    BY <1>3, <1>7, <2>1 DEF CallsOK
<1>14. CallsOK'
  BY <1>1, <1>10, <1>11, <1>12, <1>13 DEF CallsOK
<1>15. QED
  BY <1>9, <1>14

\* A call that has taken a step is another call.
LEMMA TailDiffers ==
    ASSUME NEW S, NEW seq \in Seq(S), seq # <<>>
    PROVE  Tail(seq) \in Seq(S) /\ Tail(seq) # seq
<1> DEFINE t == Tail(seq)
<1>1. t \in Seq(S) /\ Len(seq) \in Nat /\ Len(t) = Len(seq) - 1
  OBVIOUS
<1> HIDE DEF t
<1>2. ASSUME t = seq PROVE FALSE
  <2>1. Len(t) = Len(seq)
    BY <1>2
  <2>2. QED
    BY <1>1, <2>1
<1>3. QED
  BY <1>1, <1>2 DEF t

\* A read moves a call from one set to the other.
LEMMA GetCalls ==
    ASSUME SwapsInv, CallsOK, NEW c \in getting, TokenGet(c), clashed' = {}, refused' = {}
    PROVE  CallsOK' /\ UnderWay' = UnderWay
<1> DEFINE key == Head(c.steps).key
           a == Moved(Reads(c), Head(c.steps))
           n == [call |-> c, account |-> a]
<1>1. /\ getting' = getting \ {c}
      /\ setting' = setting \cup {n}
      /\ state' = state /\ swapped' = swapped
      /\ Clashes(key) = {}
  <2>1. Covers(Reads(c), Head(c.steps))
    BY Zenon DEF TokenGet
  <2>2. clashed' = clashed \cup Clashes(key)
    BY Zenon DEF TokenGet
  <2>3. Clashes(key) = {}
    BY <2>2
  <2>4. QED
    BY <2>1, <2>3, Zenon DEF TokenGet, vars
<1>2. n.call = c /\ n.account = Moved(state.ledger[key], Head(c.steps))
  BY DEF Reads
<1>3. \A w \in setting : Head(w.call.steps).key # key
  BY <1>1 DEF Clashes
<1> HIDE DEF key, n
<1>4. UnderWay' = UnderWay
  <2>1. UnderWay' = (getting \ {c}) \cup {w.call : w \in setting} \cup {n.call}
    BY <1>1 DEF UnderWay
  <2>2. QED
    BY <1>2, <2>1 DEF UnderWay
<1>5. \A w \in setting' : w.call \notin getting'
  BY <1>1, <1>2 DEF CallsOK
<1>6. \A w, x \in setting' : Head(w.call.steps).key = Head(x.call.steps).key => w = x
  BY <1>1, <1>2, <1>3 DEF CallsOK, key
<1>7. \A w \in setting' :
        w.account = Moved(state'.ledger[Head(w.call.steps).key], Head(w.call.steps))
  BY <1>1, <1>2 DEF CallsOK, key
<1>8. QED
  BY <1>1, <1>4, <1>5, <1>6, <1>7 DEF CallsOK

\* A write ends a step of its call, and no other call was about to write there.
LEMMA SetCalls ==
    ASSUME SwapsInv, CallsOK, NEW w \in setting, TokenSet(w)
    PROVE  /\ CallsOK'
           /\ \A v \in [StepType -> Int] : Pending(v)' = Pending(v) - v[Head(w.call.steps)]
<1> DEFINE c == w.call
           key == Head(c.steps).key
           rest == Tail(c.steps)
           n == [c EXCEPT !.steps = rest]
           R == IF rest = <<>> THEN {} ELSE {n}
<1>1. c \in CallRecord /\ w.account \in AccountType /\ c \in UnderWay
  BY DEF SwapsInv, UnderWay
<1>2. /\ setting' = setting \ {w}
      /\ state' = [state EXCEPT !.ledger[key] = w.account]
      /\ getting' = getting \cup R
      /\ swapped' = swapped
  BY DEF TokenSet
<1>3. n.id = c.id /\ n.steps = rest
  BY <1>1 DEF CallRecord
<1>4. key \in BalanceKeys /\ c.steps \in Seq(StepType) /\ c.steps # <<>>
  BY <1>1, FirstStep
<1>5. rest # c.steps /\ rest \in Seq(StepType)
  BY <1>4, TailDiffers
<1>6. rest # <<>> => n \in CallRecord /\ n \notin UnderWay
  <2>1. SUFFICES ASSUME rest # <<>> PROVE n \in CallRecord /\ n \notin UnderWay
    OBVIOUS
  <2>2. rest \in CallType
    BY <1>5, <2>1 DEF CallType
  <2>3. n \in CallRecord
    BY <1>1, <2>2 DEF CallRecord
  <2>4. n # c
    BY <1>3, <1>5
  <2>5. QED
    BY <1>1, <1>3, <2>3, <2>4 DEF CallsOK
<1>7. state'.ledger = [state.ledger EXCEPT ![key] = w.account]
  <2>1. StoresOK(state)
    BY DEF SwapsInv
  <2>2. QED
    BY <1>1, <1>2, <1>4, <2>1, LedgerWritten
<1>8. state.ledger \in LedgerType
  BY DEF SwapsInv, StoresOK
<1> HIDE DEF n, key, rest
<1>9. \A x \in setting : x # w => x.call # c /\ Head(x.call.steps).key # key
  BY DEF CallsOK, key
<1>10. UnderWay' = (UnderWay \ {c}) \cup R
  <2>1. c \notin getting
    BY DEF CallsOK
  <2>2. {x.call : x \in setting \ {w}} = {x.call : x \in setting} \ {c}
    BY <1>9
  <2>3. UnderWay' = getting \cup R \cup {x.call : x \in setting \ {w}}
    BY <1>2 DEF UnderWay
  <2>4. QED
    BY <2>1, <2>2, <2>3 DEF UnderWay
<1>11. IsFiniteSet(UnderWay \ {c}) /\ IsFiniteSet(UnderWay')
  <2>1. IsFiniteSet(UnderWay \ {c})
    BY FS_Subset DEF CallsOK
  <2>2. rest = <<>> => UnderWay' = UnderWay \ {c}
    BY <1>10
  <2>3. rest # <<>> => UnderWay' = (UnderWay \ {c}) \cup {n}
    BY <1>10
  <2> DEFINE C == UnderWay \ {c}
  <2> HIDE DEF C
  <2>4. IsFiniteSet(C \cup {n})
    BY <2>1, FS_AddElement DEF C
  <2>5. QED
    BY <2>1, <2>2, <2>3, <2>4 DEF C
<1>12. ASSUME NEW v \in [StepType -> Int] PROVE Pending(v)' = Pending(v) - v[Head(w.call.steps)]
  <2> DEFINE g == CallValue(v)
             B == UnderWay
             C == UnderWay \ {c}
  <2>1. \A d \in B : g[d] \in Int
    BY UnderWayTyped, CallValueInt
  <2>2. g[c] = v[Head(c.steps)] + SeqSum(v, rest)
    BY <1>1, CallValueInt, RestValue DEF rest
  <2>3. IsFiniteSet(B) /\ IsFiniteSet(C) /\ IsFiniteSet(UnderWay')
    BY <1>11 DEF CallsOK
  <2>4. Pending(v) = SumOver(g, B) /\ Pending(v)' = SumOver(g, UnderWay')
    BY DEF Pending
  <2>5. v[Head(c.steps)] \in Int
    BY <1>1, FirstStep
  <2>6. C = B \ {c} /\ c \in B
    BY <1>1
  <2> HIDE DEF g, B, C
  <2>7. SumOver(g, B) = g[c] + SumOver(g, C)
    BY <2>1, <2>3, <2>6, SumRemove
  <2>8. SumOver(g, C) \in Int
    BY <2>1, <2>3, <2>6, SumInt
  <2>9. SumOver(g, UnderWay') = SeqSum(v, rest) + SumOver(g, C)
    <3>1. CASE rest = <<>>
      <4>1. UnderWay' = C
        BY <1>10, <3>1 DEF C
      <4>2. SeqSum(v, rest) = 0
        BY <3>1, SeqSumNone
      <4>3. QED
        BY <2>8, <4>1, <4>2
    <3>2. CASE rest # <<>>
      <4>1. UnderWay' = C \cup {n} /\ n \notin C /\ n \in UnderWay' /\ UnderWay' \ {n} = C
        BY <1>6, <1>10, <3>2 DEF C
      <4>2. g[n] = SeqSum(v, rest) /\ g[n] \in Int
        BY <1>3, <1>6, <3>2, CallValueInt DEF g
      <4>3. \A d \in UnderWay' : g[d] \in Int
        BY <2>1, <2>6, <4>1, <4>2
      <4>4. SumOver(g, UnderWay') = g[n] + SumOver(g, UnderWay' \ {n})
        BY <2>3, <4>1, <4>3, SumRemove
      <4>5. QED
        BY <4>1, <4>2, <4>4
    <3>3. QED
      BY <3>1, <3>2
  <2>10. SeqSum(v, rest) \in Int
    BY <1>5, SeqSumInt
  <2>11. QED
    BY <2>2, <2>4, <2>5, <2>7, <2>8, <2>9, <2>10
<1>13. \A d, e \in UnderWay' : d.id = e.id => d = e
  <2>1. \A d \in UnderWay \ {c} : d.id # c.id
    BY <1>1 DEF CallsOK
  <2>2. QED
    BY <1>3, <1>10, <2>1 DEF CallsOK
<1>14. \A d \in UnderWay' : d.id[1] < Len(swapped')
  <2>1. \A d \in UnderWay : d.id[1] < Len(swapped')
    BY <1>2 DEF CallsOK
  <2>2. QED
    BY <1>1, <1>3, <1>10, <2>1
<1>15. \A x \in setting' : x.call \notin getting'
  <2>1. SUFFICES ASSUME NEW x \in setting, x # w PROVE x.call \notin getting \cup R
    BY <1>2
  <2>2. x.call \in UnderWay
    BY DEF UnderWay
  <2>3. QED
    BY <1>6, <2>2 DEF CallsOK
<1>16. \A x, y \in setting' : Head(x.call.steps).key = Head(y.call.steps).key => x = y
  BY <1>2 DEF CallsOK
<1>17. \A x \in setting' :
          x.account = Moved(state'.ledger[Head(x.call.steps).key], Head(x.call.steps))
  <2>1. SUFFICES ASSUME NEW x \in setting, x # w
                 PROVE  x.account = Moved(state'.ledger[Head(x.call.steps).key], Head(x.call.steps))
    BY <1>2
  <2>2. Head(x.call.steps).key \in BalanceKeys /\ Head(x.call.steps).key # key
    <3>1. x.call \in CallRecord
      BY DEF SwapsInv
    <3>2. QED
      BY <1>9, <2>1, <3>1, FirstStep
  <2>3. state'.ledger[Head(x.call.steps).key] = state.ledger[Head(x.call.steps).key]
    BY <1>7, <1>8, <2>2 DEF LedgerType, BalanceKeys
  <2>4. QED
    BY <2>3 DEF CallsOK
<1>18. CallsOK'
  BY <1>11, <1>13, <1>14, <1>15, <1>16, <1>17 DEF CallsOK
<1>19. QED
  BY <1>12, <1>18

-----------------------------------------------------------------------------
(* Settlement *)

Held(ledger, token) ==
    [a \in Addresses |-> ledger[<<a, token>>].available + ledger[<<a, token>>].locked]

\* The total of a token is the sum of what is held over all addresses.
LEMMA TotalIsSum ==
    ASSUME NEW ledger \in LedgerType, NEW token \in Tokens
    PROVE  /\ TotalOf(ledger, Addresses, token) = SumOver(Held(ledger, token), Addresses)
           /\ TotalOf(ledger, Addresses, token) \in Int
<1>1. IsFiniteSet(Addresses)
  BY CommandsAssumption
<1>2. \A a \in Addresses : Held(ledger, token)[a] \in Int
  BY DEF Held, LedgerType
<1>3. SumOver(Held(ledger, token), Addresses) \in Int
  BY <1>1, <1>2, SumInt
<1>4. TotalOf(ledger, Addresses, token) = FoldFunction(+, 0, Held(ledger, token))
  BY DEF TotalOf, Held
<1>5. DOMAIN Held(ledger, token) = Addresses
  BY DEF Held
<1>6. QED
  BY <1>3, <1>4, <1>5, FoldIsSum

\* The write of a balance after the update that a step is.
MovedBy(ledger, new, step) ==
    /\ \A key \in BalanceKeys :
          new[key].available = ledger[key].available + AvailableAt(key)[step]
    /\ \A token \in Tokens :
          TotalOf(new, Addresses, token) = TotalOf(ledger, Addresses, token) + TotalIn(token)[step]

\* Updating one account changes each balance and each total by what the step
\* does.
LEMMA LedgerMoved ==
    ASSUME NEW ledger \in LedgerType, NEW step \in StepType, NEW new,
           new = [ledger EXCEPT ![step.key] = Moved(ledger[step.key], step)], new \in LedgerType
    PROVE  MovedBy(ledger, new, step)
<1>1. /\ step.key \in BalanceKeys /\ step.available \in Int /\ step.locked \in Int
  BY DEF StepType, BalanceKeys
<1>2. \A key \in BalanceKeys :
        new[key] = IF key = step.key THEN Moved(ledger[key], step) ELSE ledger[key]
  BY <1>1 DEF LedgerType, BalanceKeys
<1>3. \A key \in BalanceKeys :
        /\ ledger[key].available \in Int /\ ledger[key].locked \in Int
        /\ new[key].available \in Int /\ new[key].locked \in Int
  BY DEF LedgerType, BalanceKeys
<1>4. ASSUME NEW key \in BalanceKeys
      PROVE  new[key].available = ledger[key].available + AvailableAt(key)[step]
  <2>1. CASE key = step.key
    BY <1>1, <1>2, <1>3, <2>1 DEF AvailableAt, AvailableBy, Moved
  <2>2. CASE key # step.key
    BY <1>1, <1>2, <1>3, <2>2 DEF AvailableAt, AvailableBy
  <2>3. QED
    BY <2>1, <2>2
<1>5. ASSUME NEW token \in Tokens
      PROVE  TotalOf(new, Addresses, token) = TotalOf(ledger, Addresses, token) + TotalIn(token)[step]
  <2> DEFINE f == Held(ledger, token)
             g == Held(new, token)
             b == step.key[1]
  <2>1. \A a \in Addresses : <<a, token>> \in BalanceKeys
    BY DEF BalanceKeys
  <2>2. \A a \in Addresses :
          /\ f[a] = ledger[<<a, token>>].available + ledger[<<a, token>>].locked
          /\ g[a] = new[<<a, token>>].available + new[<<a, token>>].locked
    BY DEF Held
  <2>3. ASSUME NEW a \in Addresses PROVE f[a] \in Int /\ g[a] \in Int
    <3> DEFINE k == <<a, token>>
    <3>1. k \in BalanceKeys
      BY <2>1
    <3>2. f[a] = ledger[k].available + ledger[k].locked /\ g[a] = new[k].available + new[k].locked
      BY <2>2
    <3> HIDE DEF k, f, g
    <3>3. QED
      BY <1>3, <3>1, <3>2
  <2>4. /\ TotalOf(ledger, Addresses, token) = SumOver(f, Addresses)
        /\ TotalOf(new, Addresses, token) = SumOver(g, Addresses)
        /\ SumOver(f, Addresses) \in Int
    BY TotalIsSum
  <2>5. b \in Addresses /\ step.key = <<b, step.key[2]>>
    BY <1>1 DEF BalanceKeys
  <2>6. IsFiniteSet(Addresses)
    BY CommandsAssumption
  <2>7. TotalIn(token)[step] = IF step.key[2] = token THEN step.available + step.locked ELSE 0
    BY DEF TotalIn
  <2> HIDE DEF f, g, b
  <2>8. ASSUME NEW a \in Addresses, <<a, token>> # step.key PROVE f[a] = g[a]
    <3> DEFINE k == <<a, token>>
    <3>1. k \in BalanceKeys /\ k # step.key
      BY <2>1, <2>8
    <3>2. f[a] = ledger[k].available + ledger[k].locked /\ g[a] = new[k].available + new[k].locked
      BY <2>2
    <3> HIDE DEF k
    <3>3. new[k] = ledger[k]
      BY <1>2, <3>1
    <3>4. QED
      BY <3>2, <3>3
  <2>9. CASE step.key[2] = token
    <3>1. \A a \in Addresses : a # b => <<a, token>> # step.key
      BY <2>5
    <3>2. \A a \in Addresses : a # b => f[a] = g[a]
      BY <2>8, <3>1
    <3>3. SumOver(g, Addresses) = SumOver(f, Addresses) - f[b] + g[b]
      BY <2>3, <2>5, <2>6, <3>2, SumChange
    <3>4. <<b, token>> = step.key
      BY <2>5, <2>9
    <3> DEFINE k == step.key
    <3>5. /\ k \in BalanceKeys /\ new[k] = Moved(ledger[k], step)
      BY <1>1, <1>2
    <3>6. f[b] = ledger[k].available + ledger[k].locked /\ g[b] = new[k].available + new[k].locked
      BY <2>2, <2>5, <3>4
    <3> HIDE DEF k
    <3>7. g[b] = f[b] + step.available + step.locked
      BY <1>1, <1>3, <3>5, <3>6 DEF Moved
    <3>8. QED
      BY <1>1, <2>3, <2>4, <2>5, <2>7, <2>9, <3>3, <3>7
  <2>10. CASE step.key[2] # token
    <3>1. \A a \in Addresses : <<a, token>> # step.key
      BY <2>5, <2>10
    <3>2. \A a \in Addresses : f[a] = g[a]
      BY <2>8, <3>1
    <3>3. SumOver(f, Addresses) = SumOver(g, Addresses)
      BY <2>6, <3>2, SumSame
    <3>4. QED
      BY <2>4, <2>7, <2>10, <3>3
  <2>11. QED
    BY <2>9, <2>10
<1>6. QED
  BY <1>4, <1>5 DEF MovedBy

Exchanged(key) == [e \in EventType |-> Exchange(e)[key]]

\* What an event exchanges is a number.
LEMMA ExchangedInt ==
    ASSUME NEW key \in BalanceKeys
    PROVE  Exchanged(key) \in [EventType -> Int]
<1>1. \A e \in EventType : Exchange(e)[key] \in Int
  BY DEF Exchange, Pays, Gets, Gain, EventType
<1>2. QED
  BY <1>1 DEF Exchanged

\* What has been written and what is still to be written, together, is what the
\* events say, for every balance, and nothing in total.
BooksInv ==
    /\ CallsOK
    /\ \A key \in BalanceKeys :
          state.ledger[key].available + Pending(AvailableAt(key)) =
             opening[key].available + SeqSum(Exchanged(key), swapped)
    /\ \A token \in Tokens :
          TotalOf(state.ledger, Addresses, token) + Pending(TotalIn(token)) =
             TotalOf(opening, Addresses, token)

OpeningOK ==
    /\ opening \in LedgerType
    /\ \A a \in Pools \cup {ValidatorIncentives}, token \in Tokens :
          opening[<<a, token>>].available = 0

SettlementInv ==
    /\ SwapsInv
    /\ OpeningOK
    /\ swapped = <<>> => opening = state.ledger
    /\ clashed = {} /\ refused = {} => BooksInv

\* Before the first swap there is nothing to settle.
NothingSwapped ==
    /\ swapped = <<>> /\ getting = {} /\ setting = {}
    /\ opening = state.ledger /\ PositionsInv

\* Before the first swap the books are balanced.
LEMMA BooksOpen == NothingSwapped => BooksInv /\ OpeningOK
<1> SUFFICES ASSUME NothingSwapped PROVE BooksInv /\ OpeningOK
  OBVIOUS
<1> USE DEF NothingSwapped
<1>1. UnderWay = {}
  BY DEF UnderWay
<1>2. state.ledger \in LedgerType /\ NothingAvailable(state)
  BY DEF PositionsInv, GrantsInv, StoresOK
<1>3. CallsOK
  BY <1>1, FS_EmptySet DEF CallsOK
<1>4. \A v : Pending(v) = 0
  BY <1>1, SumEmpty DEF Pending
<1>5. \A v : SeqSum(v, swapped) = 0
  BY SeqSumNone
<1>6. \A key \in BalanceKeys : opening[key].available \in Int
  BY <1>2 DEF LedgerType, BalanceKeys
<1>7. \A token \in Tokens : TotalOf(opening, Addresses, token) \in Int
  BY <1>2, TotalIsSum
<1>8. \A key \in BalanceKeys :
        state.ledger[key].available + Pending(AvailableAt(key)) =
           opening[key].available + SeqSum(Exchanged(key), swapped)
  BY <1>4, <1>5, <1>6
<1>9. \A token \in Tokens :
        TotalOf(state.ledger, Addresses, token) + Pending(TotalIn(token)) =
           TotalOf(opening, Addresses, token)
  BY <1>4, <1>7
<1>10. QED
  BY <1>2, <1>3, <1>8, <1>9 DEF BooksInv, OpeningOK, NothingAvailable

\* What is added to both sides of an account leaves it balanced.
LEMMA BooksBalance ==
    \A stored, pending, opened, sum, more \in Int :
        stored + pending = opened + sum => stored + (pending + more) = opened + (sum + more)
OBVIOUS

\* A swap adds to its event what it adds to the calls under way.
LEMMA SettlesBooks ==
    ASSUME SwapsInv, BooksInv, OpeningOK, Settles
    PROVE  BooksInv'
<1>1. PICK e \in EventType, calls \in Seq(CallType) :
        /\ Adds(calls, Exchange(e))
        /\ swapped' = Append(swapped, e)
        /\ getting' = getting \cup {[id |-> <<Len(swapped), i>>, steps |-> calls[i]] : i \in DOMAIN calls}
        /\ UNCHANGED <<vars, opening, setting, clashed, refused>>
  BY DEF Settles
<1>2. state' = state /\ setting' = setting /\ opening' = opening
  BY <1>1 DEF vars
<1>3. /\ CallsOK'
      /\ \A v \in [StepType -> Int] : Pending(v)' = Pending(v) + SeqSum(CallSum(v), calls)
  BY <1>1, <1>2, SettlesCalls DEF BooksInv
<1>4. ASSUME NEW v \in [StepType -> Int] PROVE Pending(v) \in Int
  <2>1. \A c \in UnderWay : CallValue(v)[c] \in Int
    BY UnderWayTyped, CallValueInt
  <2>2. IsFiniteSet(UnderWay)
    BY DEF BooksInv, CallsOK
  <2>3. QED
    BY <2>1, <2>2, SumInt DEF Pending
<1>5. ASSUME NEW key \in BalanceKeys
      PROVE  state'.ledger[key].available + Pending(AvailableAt(key))' =
                opening'[key].available + SeqSum(Exchanged(key), swapped')
  <2> DEFINE v == AvailableAt(key)
             x == Exchanged(key)
  <2>1. v \in [StepType -> Int] /\ x \in [EventType -> Int] /\ x[e] = Exchange(e)[key]
    BY WeightTypes, ExchangedInt DEF Exchanged
  <2>2. SeqSum(CallSum(v), calls) = x[e]
    BY <1>1, <2>1 DEF Adds
  <2>3. swapped' = swapped \o <<e>> /\ swapped \in Seq(EventType) /\ <<e>> \in Seq(EventType)
    BY <1>1 DEF SwapsInv
  <2>4. opening[key].available \in Int
    BY DEF OpeningOK, LedgerType, BalanceKeys
  <2>5. state.ledger[key].available \in Int
    BY DEF SwapsInv, StoresOK, LedgerType, BalanceKeys
  <2>6. state.ledger[key].available + Pending(v) = opening[key].available + SeqSum(x, swapped)
    BY DEF BooksInv
  <2> HIDE DEF v, x
  <2>7. SeqSum(x, swapped \o <<e>>) = SeqSum(x, swapped) + SeqSum(x, <<e>>)
    BY <2>1, <2>3, SeqSumConcat
  <2>8. SeqSum(x, <<e>>) = x[e] /\ x[e] \in Int
    BY <2>1, SeqSumOne
  <2>9. Pending(v)' = Pending(v) + x[e] /\ Pending(v) \in Int
    BY <1>3, <1>4, <2>1, <2>2
  <2>10. SeqSum(x, swapped) \in Int
    BY <2>1, <2>3, SeqSumInt
  <2>11. SeqSum(x, swapped') = SeqSum(x, swapped) + x[e]
    BY <2>3, <2>7, <2>8, Zenon
  <2> DEFINE before == Pending(v)
             after == Pending(v)'
             sum == SeqSum(x, swapped)
             sums == SeqSum(x, swapped')
             l == state.ledger[key].available
             o == opening[key].available
  <2>12. /\ l + before = o + sum /\ sums = sum + x[e] /\ after = before + x[e]
         /\ l \in Int /\ before \in Int /\ o \in Int /\ sum \in Int /\ x[e] \in Int
    BY <2>4, <2>5, <2>6, <2>8, <2>9, <2>10, <2>11
  <2> HIDE DEF before, after, sum, sums, l, o
  <2>13. l + (before + x[e]) = o + (sum + x[e])
    <3>1. /\ l + before = o + sum
          /\ l \in Int /\ before \in Int /\ o \in Int /\ sum \in Int /\ x[e] \in Int
      BY <2>12, Zenon
    <3>2. QED
      BY <3>1, BooksBalance
  <2>14. l + after = o + sums
    BY <2>12, <2>13, Zenon
  <2>15. QED
    BY <1>2, <2>14 DEF v, x, after, sums, l, o
<1>6. ASSUME NEW token \in Tokens
      PROVE  TotalOf(state'.ledger, Addresses, token) + Pending(TotalIn(token))' =
                TotalOf(opening', Addresses, token)
  <2>1. TotalIn(token) \in [StepType -> Int]
    BY WeightTypes
  <2>2. SeqSum(CallSum(TotalIn(token)), calls) = 0
    BY <1>1 DEF Adds
  <2>3. Pending(TotalIn(token))' = Pending(TotalIn(token))
    BY <1>3, <1>4, <2>1, <2>2
  <2>4. QED
    BY <1>2, <2>3 DEF BooksInv
<1>7. QED
  BY <1>3, <1>5, <1>6 DEF BooksInv

\* What the calls under way still add is a number.
LEMMA PendingInt ==
    ASSUME SwapsInv, CallsOK, NEW v \in [StepType -> Int]
    PROVE  Pending(v) \in Int
<1>1. \A c \in UnderWay : CallValue(v)[c] \in Int
  BY UnderWayTyped, CallValueInt
<1>2. IsFiniteSet(UnderWay)
  BY DEF CallsOK
<1>3. QED
  BY <1>1, <1>2, SumInt DEF Pending

\* A read of an account moves no token.
LEMMA GetBooks ==
    ASSUME SwapsInv, BooksInv, NEW c \in getting, TokenGet(c), clashed' = {}, refused' = {}
    PROVE  BooksInv'
<1>1. CallsOK' /\ UnderWay' = UnderWay
  BY GetCalls DEF BooksInv
<1>2. state' = state /\ swapped' = swapped /\ opening' = opening
  BY Zenon DEF TokenGet, vars
<1>3. \A v : Pending(v)' = Pending(v)
  BY <1>1 DEF Pending
<1>4. QED
  BY <1>1, <1>2, <1>3 DEF BooksInv

\* A write of an account moves what the call no longer has to move.
LEMMA SetBooks ==
    ASSUME SwapsInv, BooksInv, OpeningOK, NEW w \in setting, TokenSet(w)
    PROVE  BooksInv'
<1> DEFINE step == Head(w.call.steps)
           old == state.ledger
           new == state'.ledger
<1>1. w.call \in CallRecord /\ w.account \in AccountType /\ StoresOK(state)
  BY DEF SwapsInv
<1>2. step \in StepType /\ step.key \in BalanceKeys
  BY <1>1, FirstStep
<1>3. /\ state' = [state EXCEPT !.ledger[step.key] = w.account]
      /\ swapped' = swapped /\ opening' = opening
  BY Zenon DEF TokenSet
<1>4. w.account = Moved(old[step.key], step)
  BY DEF BooksInv, CallsOK
<1>5. /\ CallsOK'
      /\ \A v \in [StepType -> Int] : Pending(v)' = Pending(v) - v[step]
  BY SetCalls DEF BooksInv
<1>6. \A v \in [StepType -> Int] : Pending(v) \in Int
  BY PendingInt DEF BooksInv
<1> HIDE DEF step
<1>7. new = [old EXCEPT ![step.key] = w.account] /\ StoresOK(state')
  BY <1>1, <1>2, <1>3, LedgerWritten
<1>8. old \in LedgerType /\ new \in LedgerType
  BY <1>1, <1>7 DEF StoresOK
<1> HIDE DEF old, new
<1>9. new = [old EXCEPT ![step.key] = Moved(old[step.key], step)]
  BY <1>4, <1>7
<1>10. MovedBy(old, new, step)
  BY <1>2, <1>8, <1>9, LedgerMoved, Zenon
<1>11. ASSUME NEW key \in BalanceKeys
       PROVE  new[key].available + Pending(AvailableAt(key))' =
                opening[key].available + SeqSum(Exchanged(key), swapped)
  <2> DEFINE v == AvailableAt(key)
             before == Pending(v)
             after == Pending(v)'
             l == old[key].available
             x == v[step]
  <2>1. v \in [StepType -> Int]
    BY WeightTypes
  <2>2. after = before - x /\ before \in Int
    BY <1>5, <1>6, <2>1
  <2>3. l \in Int
    BY <1>8 DEF LedgerType, BalanceKeys
  <2>4. x \in Int
    BY <1>2, <2>1
  <2>5. new[key].available = l + x
    BY <1>10 DEF MovedBy
  <2>6. l + before = opening[key].available + SeqSum(Exchanged(key), swapped)
    BY DEF BooksInv, old
  <2> HIDE DEF v, before, after, l, x
  <2>7. new[key].available + after = l + before
    BY <2>2, <2>3, <2>4, <2>5
  <2>8. QED
    BY <2>6, <2>7 DEF after, v
<1>12. ASSUME NEW token \in Tokens
       PROVE  TotalOf(new, Addresses, token) + Pending(TotalIn(token))' =
                TotalOf(opening, Addresses, token)
  <2> DEFINE v == TotalIn(token)
             before == Pending(v)
             after == Pending(v)'
             l == TotalOf(old, Addresses, token)
             x == v[step]
  <2>1. v \in [StepType -> Int]
    BY WeightTypes
  <2>2. after = before - x /\ before \in Int
    BY <1>5, <1>6, <2>1
  <2>3. l \in Int
    BY <1>8, TotalIsSum
  <2>4. x \in Int
    BY <1>2, <2>1
  <2>5. TotalOf(new, Addresses, token) = l + x
    BY <1>10 DEF MovedBy
  <2>6. l + before = TotalOf(opening, Addresses, token)
    BY DEF BooksInv, old
  <2> HIDE DEF v, before, after, l, x
  <2>7. TotalOf(new, Addresses, token) + after = l + before
    BY <2>2, <2>3, <2>4, <2>5
  <2>8. QED
    BY <2>6, <2>7 DEF after, v
<1>13. QED
  BY <1>3, <1>5, <1>11, <1>12 DEF BooksInv, new

\* The genesis block establishes SettlementInv.
LEMMA InitSettlementInv == SwapsInit => SettlementInv
<1> SUFFICES ASSUME SwapsInit PROVE SettlementInv
  OBVIOUS
<1>1. PositionsInv
  BY InitPositionsInv DEF SwapsInit
<1>2. swapped = <<>> /\ getting = {} /\ setting = {} /\ opening = state.ledger
  BY DEF SwapsInit
<1>3. QED
  BY <1>1, <1>2, InitSwapsInv, BooksOpen DEF SettlementInv, NothingSwapped

\* SettlementInv is inductive.
LEMMA NextSettlementInv ==
    TableAscends /\ FeesModest /\ SettlementInv /\ [SwapsNext]_swapsVars => SettlementInv'
<1> SUFFICES ASSUME TableAscends, FeesModest, SettlementInv, [SwapsNext]_swapsVars
             PROVE  SettlementInv'
  OBVIOUS
<1>1. SwapsInv'
  BY NextSwapsInv DEF SettlementInv
<1>2. SwapsInv /\ StoresOK(state) /\ PoolsEncoded(state) /\ OpeningOK
  BY DEF SettlementInv, SwapsInv
<1>3. CASE PositionCommand
  <2>1. /\ swapped' = <<>> /\ getting' = getting /\ setting' = setting
        /\ opening' = state'.ledger /\ swapped = <<>>
    BY <1>3 DEF PositionCommand, settlement
  <2>2. getting' = {} /\ setting' = {} /\ PositionsInv'
    BY <1>1, <2>1 DEF SwapsInv
  <2>3. NothingSwapped'
    BY <2>1, <2>2 DEF NothingSwapped
  <2>4. BooksInv' /\ OpeningOK'
    BY <2>3, BooksOpen, PTL
  <2>5. QED
    BY <1>1, <2>1, <2>4 DEF SettlementInv
<1>4. CASE Settles
  <2>1. PICK e \in EventType, calls \in Seq(CallType) :
          /\ swapped' = Append(swapped, e)
          /\ UNCHANGED <<vars, opening, setting, clashed, refused>>
    BY <1>4 DEF Settles
  <2>2. opening' = opening /\ clashed' = clashed /\ refused' = refused
    BY <2>1
  <2>3. swapped' # <<>>
    BY <1>2, <2>1 DEF SwapsInv
  <2>4. OpeningOK'
    BY <1>2, <2>2 DEF OpeningOK
  <2>5. clashed' = {} /\ refused' = {} => BooksInv'
    BY <1>2, <1>4, <2>2, SettlesBooks DEF SettlementInv
  <2>6. QED
    BY <1>1, <2>3, <2>4, <2>5 DEF SettlementInv
<1>5. ASSUME NEW c \in getting, TokenGet(c) PROVE SettlementInv'
  <2>1. /\ opening' = opening /\ swapped' = swapped /\ state' = state
        /\ clashed' = clashed \cup Clashes(Head(c.steps).key)
        /\ refused \subseteq refused'
    BY <1>5 DEF TokenGet, vars
  <2>2. clashed' = {} /\ refused' = {} => clashed = {} /\ refused = {}
    BY <2>1
  <2>3. clashed' = {} /\ refused' = {} => BooksInv'
    BY <1>2, <1>5, <2>2, GetBooks DEF SettlementInv
  <2>4. OpeningOK' /\ (swapped' = <<>> => opening' = state'.ledger)
    BY <1>2, <2>1 DEF OpeningOK, SettlementInv
  <2>5. QED
    BY <1>1, <2>3, <2>4 DEF SettlementInv
<1>6. ASSUME NEW w \in setting, TokenSet(w) PROVE SettlementInv'
  <2>1. /\ opening' = opening /\ swapped' = swapped
        /\ clashed' = clashed /\ refused' = refused
    BY <1>6, Zenon DEF TokenSet
  <2>2. swapped # <<>>
    BY <1>2 DEF SwapsInv
  <2>3. clashed' = {} /\ refused' = {} => BooksInv'
    BY <1>2, <1>6, <2>1, SetBooks DEF SettlementInv
  <2>4. OpeningOK'
    BY <1>2, <2>1 DEF OpeningOK
  <2>5. QED
    BY <1>1, <2>1, <2>2, <2>3, <2>4 DEF SettlementInv
<1>7. CASE UNCHANGED swapsVars
  <2>1. /\ state' = state /\ swapped' = swapped /\ getting' = getting /\ setting' = setting
        /\ opening' = opening /\ clashed' = clashed /\ refused' = refused
    BY <1>7 DEF swapsVars, vars, settlement
  <2>2. UnderWay' = UnderWay
    BY <2>1 DEF UnderWay
  <2>3. CallsOK => CallsOK'
    BY <2>1, <2>2 DEF CallsOK
  <2>4. \A v : Pending(v)' = Pending(v)
    BY <2>2 DEF Pending
  <2>5. BooksInv => BooksInv'
    BY <2>1, <2>3, <2>4 DEF BooksInv
  <2>6. OpeningOK'
    BY <1>2, <2>1 DEF OpeningOK
  <2>7. QED
    BY <1>1, <2>1, <2>5, <2>6 DEF SettlementInv
<1>8. ASSUME NEW sender \in Senders, NEW tokenIn \in Tokens, NEW tokenOut \in Tokens,
             NEW route \in RoutesIn, NEW amount \in SwapAmounts,
             SwapExactIn(sender, tokenIn, tokenOut, route, amount)
      PROVE  Settles
  BY <1>2, <1>8, ExactInSettles
<1>9. ASSUME NEW sender \in Senders, NEW tokenIn \in Tokens, NEW tokenOut \in Tokens,
             NEW route \in RoutesOut, NEW amount \in SwapAmounts,
             SwapExactOut(sender, tokenIn, tokenOut, route, amount)
      PROVE  Settles
  BY <1>2, <1>9, ExactOutSettles
<1>10. ASSUME NEW sender \in Senders, NEW tokenIn \in Tokens, NEW tokenOut \in Tokens,
              NEW poolID \in Pools, NEW limit \in Limits, NEW amount \in SwapAmounts,
              SwapWithPriceLimit(sender, tokenIn, tokenOut, poolID, limit, amount)
       PROVE  Settles
  BY <1>2, <1>10, PriceLimitSettles
<1>11. QED
  BY <1>3, <1>4, <1>5, <1>6, <1>7, <1>8, <1>9, <1>10 DEF SwapsNext

\* SettlementInv holds in every reachable state.
LEMMA SettlementInvariant ==
    ASSUME TableAscends, FeesModest
    PROVE  SwapsSpec => []SettlementInv
<1>1. SwapsInit => SettlementInv
  BY InitSettlementInv
<1>2. SettlementInv /\ [SwapsNext]_swapsVars => SettlementInv'
  BY NextSettlementInv
<1>3. QED
  BY <1>1, <1>2, PTL DEF SwapsSpec

\* The part of a sequence of amounts that an event chooses.
Chosen(C, v) == [i \in C |-> v[i]]

Folded(f) == FoldFunction(+, 0, f)

ZeroElsewhere(g, C, v, S) == \A i \in S : v[i] \in Int /\ g[i] = IF i \in C THEN v[i] ELSE 0

\* A sum over a part of a set is one over the set with zeros elsewhere.
LEMMA SumOfPart ==
    ASSUME NEW S, IsFiniteSet(S), NEW C \in SUBSET S, NEW v, NEW g, ZeroElsewhere(g, C, v, S)
    PROVE  Folded(Chosen(C, v)) = SumOver(g, S)
<1>1. IsFiniteSet(C)
  BY FS_Subset
<1>2. Folded(Chosen(C, v)) = SumOver(Chosen(C, v), C)
  <2>1. DOMAIN Chosen(C, v) = C
    BY DEF Chosen
  <2>2. FoldFunction(+, 0, Chosen(C, v)) = SumOver(Chosen(C, v), DOMAIN Chosen(C, v))
    BY FoldIsSum
  <2>3. QED
    BY <2>1, <2>2 DEF Folded
<1>3. SumOver(Chosen(C, v), C) = SumOver(v, C)
  <2>1. \A i \in C : Chosen(C, v)[i] = v[i]
    BY DEF Chosen
  <2>2. QED
    BY <1>1, <2>1, SumSame
<1>4. SumOver(v, C) = SumOver(g, S)
  BY SumChosen DEF ZeroElsewhere
<1>5. QED
  BY <1>2, <1>3, <1>4

\* What the events exchange for a sender is what it got less what it paid.
LEMMA ExchangesAreSums ==
    ASSUME swapped \in Seq(EventType), NEW a \in Senders, NEW token \in Tokens
    PROVE  /\ SeqSum(Exchanged(<<a, token>>), swapped) =
                - EventSum(LAMBDA e : e.sender = a /\ e.tokenIn = token, LAMBDA e : e.amountIn)
                + EventSum(LAMBDA e : e.sender = a /\ e.tokenOut = token, LAMBDA e : e.amountOut)
           /\ EventSum(LAMBDA e : e.sender = a /\ e.tokenIn = token, LAMBDA e : e.amountIn) \in Int
           /\ EventSum(LAMBDA e : e.sender = a /\ e.tokenOut = token, LAMBDA e : e.amountOut) \in Int
<1> DEFINE n == Len(swapped)
           key == <<a, token>>
           P == {i \in 1..n : swapped[i].sender = a /\ swapped[i].tokenIn = token}
           Q == {i \in 1..n : swapped[i].sender = a /\ swapped[i].tokenOut = token}
           p == [i \in 1..n |-> swapped[i].amountIn]
           q == [i \in 1..n |-> swapped[i].amountOut]
           paid == [i \in 1..n |-> IF i \in P THEN p[i] ELSE 0]
           got == [i \in 1..n |-> IF i \in Q THEN q[i] ELSE 0]
           x == [i \in 1..n |-> Exchanged(key)[swapped[i]]]
<1>1. n \in Nat /\ DOMAIN swapped = 1..n /\ \A i \in 1..n : swapped[i] \in EventType
  OBVIOUS
<1>2. \A i \in 1..n : p[i] \in Int /\ q[i] \in Int
  BY <1>1 DEF EventType
<1>3. key \in BalanceKeys
  BY CommandsAssumption DEF BalanceKeys, Addresses
<1>4. ASSUME NEW i \in 1..n PROVE x[i] \in Int /\ got[i] = x[i] + paid[i]
  <2> DEFINE e == swapped[i]
  <2>1. e \in EventType
    BY <1>1
  <2>2. x[i] = Gets(e)[key] + Pays(e)[key]
    BY <1>3, <2>1 DEF Exchanged, Exchange
  <2>3. Gets(e)[key] = IF key = <<e.sender, e.tokenOut>> THEN e.amountOut ELSE 0
    BY <1>3 DEF Gets, Gain
  <2>4. Pays(e)[key] = IF key = <<e.sender, e.tokenIn>> THEN -e.amountIn ELSE 0
    BY <1>3 DEF Pays, Gain
  <2>5. got[i] = IF key = <<e.sender, e.tokenOut>> THEN e.amountOut ELSE 0
    OBVIOUS
  <2>6. paid[i] = IF key = <<e.sender, e.tokenIn>> THEN e.amountIn ELSE 0
    OBVIOUS
  <2>7. e.amountOut \in Int /\ e.amountIn \in Int
    BY <2>1 DEF EventType
  <2> HIDE DEF e, key, got, paid, x
  <2>8. QED
    BY <2>2, <2>3, <2>4, <2>5, <2>6, <2>7
<1>5. \A i \in 1..n : got[i] \in Int /\ paid[i] \in Int
  BY <1>2
<1>6. /\ EventSum(LAMBDA e : e.sender = a /\ e.tokenIn = token, LAMBDA e : e.amountIn)
           = Folded(Chosen(P, p))
      /\ EventSum(LAMBDA e : e.sender = a /\ e.tokenOut = token, LAMBDA e : e.amountOut)
           = Folded(Chosen(Q, q))
  <2>1. [i \in P |-> swapped[i].amountIn] = Chosen(P, p)
    BY DEF Chosen
  <2>2. [i \in Q |-> swapped[i].amountOut] = Chosen(Q, q)
    BY DEF Chosen
  <2>3. QED
    BY <1>1, <2>1, <2>2 DEF EventSum, Folded
<1>7. P \in SUBSET (1..n) /\ Q \in SUBSET (1..n)
  OBVIOUS
<1>8. ZeroElsewhere(paid, P, p, 1..n) /\ ZeroElsewhere(got, Q, q, 1..n)
  BY <1>2 DEF ZeroElsewhere
<1>9. SeqSum(Exchanged(key), swapped) = SumOver(x, 1..n)
  BY DEF SeqSum
<1> HIDE DEF n, key, P, Q, p, q, paid, got, x
<1>10. IsFiniteSet(1..n)
  BY <1>1, FS_Interval
<1>11. Folded(Chosen(P, p)) = SumOver(paid, 1..n) /\ Folded(Chosen(Q, q)) = SumOver(got, 1..n)
  BY <1>7, <1>8, <1>10, SumOfPart
<1>12. SumOver(got, 1..n) = SumOver(x, 1..n) + SumOver(paid, 1..n)
  BY <1>4, <1>5, <1>10, SumPlus
<1>13. SumOver(got, 1..n) \in Int /\ SumOver(x, 1..n) \in Int /\ SumOver(paid, 1..n) \in Int
  BY <1>4, <1>5, <1>10, SumInt
<1>14. SumOver(x, 1..n) = -SumOver(paid, 1..n) + SumOver(got, 1..n)
  BY <1>12, <1>13
<1>15. QED
  BY <1>6, <1>9, <1>11, <1>13, <1>14 DEF key

\* Events exchange nothing for pools and validators.
LEMMA NothingExchanged ==
    ASSUME swapped \in Seq(EventType), NEW a \in Pools \cup {ValidatorIncentives}, NEW token \in Tokens
    PROVE  SeqSum(Exchanged(<<a, token>>), swapped) = 0
<1> DEFINE n == Len(swapped)
           key == <<a, token>>
           x == [i \in 1..n |-> Exchanged(key)[swapped[i]]]
<1>1. n \in Nat /\ \A i \in 1..n : swapped[i] \in EventType
  OBVIOUS
<1>2. key \in BalanceKeys
  BY DEF BalanceKeys, Addresses
<1>3. ASSUME NEW i \in 1..n PROVE x[i] = 0
  <2> DEFINE e == swapped[i]
  <2>1. e \in EventType /\ e.sender # a
    BY <1>1, CommandsAssumption, PositionsAssumption DEF EventType
  <2>2. x[i] = Gets(e)[key] + Pays(e)[key]
    BY <1>2, <2>1 DEF Exchanged, Exchange
  <2>3. Gets(e)[key] = 0 /\ Pays(e)[key] = 0
    BY <1>2, <2>1 DEF Gets, Pays, Gain
  <2>4. QED
    BY <2>2, <2>3
<1>4. SeqSum(Exchanged(key), swapped) = SumOver(x, 1..n)
  BY DEF SeqSum
<1> HIDE DEF n, key, x
<1>5. IsFiniteSet(1..n)
  BY <1>1, FS_Interval
<1>6. \A i \in 1..n : x[i] = IF i \in {} THEN 0 ELSE 0
  BY <1>3
<1>7. SumOver(x, 1..n) = 0 * Cardinality({})
  <2>1. {} \in SUBSET (1..n) /\ 0 \in Int
    OBVIOUS
  <2>2. QED
    BY <1>5, <1>6, <2>1, SumConstant
<1>8. QED
  BY <1>4, <1>7, FS_EmptySet DEF key

\* Although no call waits for another, and calls of many swaps read and write the
\* same records in between, once all of them are done, and none was refused or
\* read a record another was about to write, everyone who swapped has paid and
\* received what the events say, what the pools and the validators got is locked
\* to the last token, and no token was made or lost.
THEOREM SettlementTheorem ==
    ASSUME TableAscends, FeesModest
    PROVE  SwapsSpec => []SettledAsSwapped
<1>1. SettlementInv => SettledAsSwapped
  <2> SUFFICES ASSUME SettlementInv, AllSettled, NEW token \in Tokens
               PROVE
        /\ \A a \in Senders :
              state.ledger[<<a, token>>].available =
                opening[<<a, token>>].available
                - EventSum(LAMBDA e : e.sender = a /\ e.tokenIn = token, LAMBDA e : e.amountIn)
                + EventSum(LAMBDA e : e.sender = a /\ e.tokenOut = token, LAMBDA e : e.amountOut)
        /\ \A a \in Pools \cup {ValidatorIncentives} : state.ledger[<<a, token>>].available = 0
        /\ TotalOf(state.ledger, Addresses, token) = TotalOf(opening, Addresses, token)
    BY Zenon DEF SettledAsSwapped
  <2>1. BooksInv /\ OpeningOK /\ swapped \in Seq(EventType) /\ state.ledger \in LedgerType
    BY DEF SettlementInv, AllSettled, SwapsInv, StoresOK
  <2>2. UnderWay = {}
    BY DEF AllSettled, UnderWay
  <2>3. \A v : Pending(v) = 0
    BY <2>2, SumEmpty DEF Pending
  <2>4. ASSUME NEW a \in Addresses
        PROVE  /\ state.ledger[<<a, token>>].available =
                    opening[<<a, token>>].available + SeqSum(Exchanged(<<a, token>>), swapped)
               /\ opening[<<a, token>>].available \in Int
    <3> DEFINE key == <<a, token>>
               l == state.ledger[key].available
               o == opening[key].available
               s == SeqSum(Exchanged(key), swapped)
    <3>1. key \in BalanceKeys
      BY DEF BalanceKeys
    <3>2. l \in Int /\ o \in Int
      BY <2>1, <3>1 DEF OpeningOK, LedgerType, BalanceKeys
    <3>3. l + Pending(AvailableAt(key)) = o + s
      BY <2>1, <3>1 DEF BooksInv
    <3>4. Pending(AvailableAt(key)) = 0
      BY <2>3
    <3> HIDE DEF l, o, s, key
    <3>5. l = o + s
      BY <3>2, <3>3, <3>4
    <3>6. QED
      BY <3>2, <3>5 DEF l, o, s, key
  <2>5. ASSUME NEW a \in Senders
        PROVE  state.ledger[<<a, token>>].available =
                opening[<<a, token>>].available
                - EventSum(LAMBDA e : e.sender = a /\ e.tokenIn = token, LAMBDA e : e.amountIn)
                + EventSum(LAMBDA e : e.sender = a /\ e.tokenOut = token, LAMBDA e : e.amountOut)
    <3> DEFINE paid == EventSum(LAMBDA e : e.sender = a /\ e.tokenIn = token, LAMBDA e : e.amountIn)
               got == EventSum(LAMBDA e : e.sender = a /\ e.tokenOut = token, LAMBDA e : e.amountOut)
               l == state.ledger[<<a, token>>].available
               o == opening[<<a, token>>].available
               s == SeqSum(Exchanged(<<a, token>>), swapped)
    <3>1. a \in Addresses
      BY CommandsAssumption DEF Addresses
    <3>2. l = o + s /\ o \in Int
      BY <2>4, <3>1
    <3>3. s = -paid + got /\ paid \in Int /\ got \in Int
      BY <2>1, ExchangesAreSums
    <3> HIDE DEF paid, got, l, o, s
    <3>4. l = o - paid + got
      BY <3>2, <3>3
    <3>5. QED
      BY <3>4 DEF paid, got, l, o
  <2>6. ASSUME NEW a \in Pools \cup {ValidatorIncentives}
        PROVE  state.ledger[<<a, token>>].available = 0
    <3>1. a \in Addresses
      BY DEF Addresses
    <3>2. opening[<<a, token>>].available = 0
      BY <2>1 DEF OpeningOK
    <3>3. SeqSum(Exchanged(<<a, token>>), swapped) = 0
      BY <2>1, NothingExchanged
    <3>4. QED
      BY <2>4, <3>1, <3>2, <3>3
  <2>7. TotalOf(state.ledger, Addresses, token) = TotalOf(opening, Addresses, token)
    <3>1. TotalOf(state.ledger, Addresses, token) \in Int
      BY <2>1, TotalIsSum
    <3>2. Pending(TotalIn(token)) = 0
      BY <2>3
    <3>3. TotalOf(state.ledger, Addresses, token) + Pending(TotalIn(token))
            = TotalOf(opening, Addresses, token)
      BY <2>1 DEF BooksInv
    <3>4. QED
      BY <3>1, <3>2, <3>3
  <2>8. QED
    BY <2>5, <2>6, <2>7
<1>2. QED
  BY <1>1, SettlementInvariant, PTL

-----------------------------------------------------------------------------
(* Nothing for free *)

\* The fee that is added to a small amount is never negative.
LEMMA FeeAfterNat ==
    ASSUME FeesModest, NEW p \in Pools, NEW a \in Nat, a * (FeeTier(p) \div 2) < One
    PROVE  FeeAfter(p, a) \in Nat
<1> DEFINE half == FeeTier(p) \div 2
           c == FeeCoeffAmountAfter(p)
           x == a * c
           m == x \div One
<1>1. half \in Nat /\ One \in Nat \ {0} /\ FeeTierPartition \in Nat \ {0}
      /\ half # FeeTierPartition /\ a * half < One /\ a * half \in Nat
  BY FeeTierNat, OneAssumption, SwapsAssumption DEF FeesModest
<1>2. FeeAfter(p, a) = RoundUpQ96(m)
  BY DEF FeeAfter, MulQ96
<1>3. half * One \in Nat
  BY <1>1
<1>4. c = IF half < FeeTierPartition THEN (half * One) \div (FeeTierPartition - half)
          ELSE -((half * One) \div (half - FeeTierPartition))
  BY DEF FeeCoeffAmountAfter, DivQ96
<1> HIDE DEF half, c
<1>5. x \in Int /\ -(One * (a * half)) <= x
  <2>1. CASE half < FeeTierPartition
    <3>1. FeeTierPartition - half \in Nat \ {0}
      BY <1>1, <2>1
    <3>2. c \in Nat
      BY <1>3, <1>4, <2>1, <3>1, DivBounds
    <3>3. x \in Nat
      BY <3>2
    <3>4. One * (a * half) \in Nat
      BY <1>1
    <3>5. QED
      BY <3>3, <3>4
  <2>2. CASE ~(half < FeeTierPartition)
    <3> DEFINE k == half - FeeTierPartition
               d == (half * One) \div k
    <3>1. k \in Nat \ {0}
      BY <1>1, <2>2
    <3>2. c = -d
      BY <1>4, <2>2
    <3> HIDE DEF k
    <3>3. d \in Nat /\ k * d <= half * One
      BY <1>3, <3>1, DivBounds
    <3> HIDE DEF d
    <3>4. d <= k * d
      BY <3>1, <3>3
    <3>5. d <= half * One
      BY <1>3, <3>1, <3>3, <3>4
    <3>6. a * d <= a * (half * One)
      BY <1>3, <3>3, <3>5
    <3>7. a * (half * One) = One * (a * half) /\ x = -(a * d) /\ a * d \in Nat
      BY <1>1, <3>2, <3>3
    <3>8. QED
      BY <1>1, <3>6, <3>7
  <2>3. QED
    BY <2>1, <2>2
<1> HIDE DEF x
<1>6. m \in Int /\ -(a * half) <= m
  <2>1. -(a * half) \in Int /\ One * (-(a * half)) = -(One * (a * half))
    BY <1>1
  <2>2. QED
    BY <1>1, <1>5, <2>1, IntDivBounds, IntDivGeq
<1> HIDE DEF m
<1>7. -One < m
  BY <1>1, <1>6
<1> DEFINE q == m \div One
<1>8. q \in Int /\ One * q <= m /\ -1 <= q /\ m = One * q + (m % One)
  <2>1. One * (-1) <= m
    BY <1>1, <1>6, <1>7
  <2>2. QED
    BY <1>1, <1>6, <2>1, IntDivBounds, IntDivGeq
<1>9. RoundUpQ96(m) = IF m % One = 0 THEN q ELSE q + 1
  BY DEF RoundUpQ96
<1> HIDE DEF q
<1>10. m % One = 0 => q # -1
  BY <1>1, <1>6, <1>7, <1>8
<1>11. QED
  BY <1>2, <1>8, <1>9, <1>10

\* The price does not rise by more than what is given for it.
LEMMA OutGap ==
    ASSUME NEW c \in Nat, NEW L \in Nat \ {0}, NEW o \in Nat,
           MulQ96(NumberToQ96(o), c) < NumberToQ96(L)
    PROVE  /\ NextOut(c, L, o) \in Nat /\ c <= NextOut(c, L, o)
           /\ o * (c * NextOut(c, L, o)) < One * (L * (NextOut(c, L, o) - c)) + L
<1> DEFINE d == L * One - o * c
           u == NextOut(c, L, o)
<1>1. d \in Nat \ {0} /\ d <= L * One /\ One \in Nat \ {0}
  <2>1. d \in Nat \ {0}
    BY NextPriceOut
  <2>2. o * c \in Nat
    OBVIOUS
  <2>3. QED
    BY <2>1, <2>2, OneAssumption
<1>2. PICK x \in Nat : u = RoundUpQ96(x) /\ c * One <= x /\ One * (One * (L * c)) < d * x + d
  BY NextPriceOut
<1>3. u \in Nat /\ x <= One * u
  BY <1>2, RoundUp
<1> HIDE DEF u
<1>4. c <= u
  <2>1. One * c <= One * u
    BY <1>1, <1>2, <1>3
  <2>2. QED
    BY <1>1, <1>3, <2>1
<1>5. d * x <= d * (One * u)
  BY <1>1, <1>3
<1>6. d * (One * u) = One * (One * (L * u)) - One * (o * (c * u))
  BY <1>1, <1>3
<1> DEFINE A == One * (L * c)
           B == One * (L * u)
           C == o * (c * u)
<1>7. A \in Nat /\ B \in Nat /\ C \in Nat /\ One * L \in Nat
  BY <1>1, <1>3
<1>8. One * (L * (u - c)) = B - A
  BY <1>1, <1>3
<1>9. One * A < One * B - One * C + One * L
  <2>1. One * A < d * x + d /\ d * x <= One * B - One * C
    BY <1>2, <1>5, <1>6
  <2>2. d * x \in Int /\ One * A \in Int /\ One * B \in Int /\ One * C \in Int
    BY <1>1, <1>7
  <2>3. d <= One * L
    BY <1>1
  <2> HIDE DEF A, B, C, d
  <2>4. QED
    BY <1>1, <1>7, <2>1, <2>2, <2>3
<1> HIDE DEF A, B, C
<1>10. One * (A + C) < One * (B + L)
  BY <1>1, <1>7, <1>9
<1>11. A + C < B + L
  BY <1>1, <1>7, <1>10, CancelLess
<1>12. C < (B - A) + L
  BY <1>7, <1>11
<1>13. QED
  BY <1>3, <1>4, <1>8, <1>12 DEF C, u

\* Above the price One, and with a liquidity smaller than One, an amount that is
\* taken out moves at least as much of the other token, and costs something.
LEMMA OutAmounts ==
    ASSUME NEW c \in Nat, One <= c, NEW L \in Nat \ {0}, L < One, NEW o \in Nat \ {0},
           NEW u \in Nat, c <= u, o * (c * u) < One * (L * (u - c)) + L
    PROVE  /\ o <= Out1(c, u, L)
           /\ 0 < In0(c, u, L) /\ In0(c, u, L) <= L
<1> DEFINE D == L * (u - c)
           q == Quotient0(c, u, L)
           s == Share0(c, u, L)
<1>1. One \in Nat /\ One >= 2 /\ c \in Nat \ {0} /\ u \in Nat \ {0} /\ L \in Nat /\ One <= u
  BY OneAssumption
<1>2. D \in Nat /\ D <= L * u
  <2>1. u - c \in Nat /\ u - c <= u
    OBVIOUS
  <2>2. QED
    BY <1>1, <2>1
<1>3. Out1(c, u, L) = RoundDownQ96(D) /\ In0(c, u, L) = RoundUpQ96(q)
  BY <1>1, Amount1Rounded, Amount0Rounded
<1>4. s \in Nat /\ u * s <= One * D /\ One * D < u * s + u
  BY <1>1, Share0Bounds
<1>5. q \in Nat /\ c * q <= One * s /\ One * s < c * q + c
  BY <1>1, Quotient0Bounds
<1>6. o * (c * u) < One * D + L
  OBVIOUS
<1> HIDE DEF D, s, q
<1>7. One * o <= D
  <2>1. One * One <= c * u
    BY <1>1
  <2>2. o * (One * One) <= o * (c * u)
    <3>1. One * One \in Nat /\ c * u \in Nat
      BY <1>1
    <3>2. QED
      BY <2>1, <3>1
  <2>3. o * (One * One) = One * (One * o) /\ One * (D + 1) = One * D + One
    BY <1>1, <1>2
  <2>4. One * (One * o) \in Int /\ One * D \in Int /\ o * (c * u) \in Int
    BY <1>1, <1>2
  <2>5. One * (One * o) < One * (D + 1)
    BY <1>1, <1>6, <2>2, <2>3, <2>4
  <2>6. One * o < D + 1
    BY <1>1, <1>2, <2>5, CancelLess
  <2>7. QED
    BY <1>1, <1>2, <2>6
<1>8. o <= Out1(c, u, L)
  BY <1>1, <1>2, <1>3, <1>7, DivGeq, SMTT(60) DEF RoundDownQ96
<1>9. c <= s + 1
  <2>1. c * u <= o * (c * u)
    <3>1. c * u \in Nat
      BY <1>1
    <3>2. QED
      BY <3>1
  <2>2. u * c < u * (s + 2)
    <3>1. u * (s + 2) = u * s + u + u /\ u * c = c * u
      BY <1>1, <1>4
    <3>2. u * s \in Int /\ c * u \in Int /\ One * D \in Int /\ o * (c * u) \in Int
      BY <1>1, <1>2, <1>4
    <3>3. QED
      BY <1>1, <1>4, <1>6, <2>1, <3>1, <3>2
  <2>3. c < s + 2
    BY <1>1, <1>4, <2>2, CancelLess
  <2>4. QED
    BY <1>4, <2>3
<1>10. c <= One * s
  <2>1. c <= 2 * s
    BY <1>1, <1>4, <1>9
  <2>2. 2 * s <= One * s
    BY <1>1, <1>4
  <2>3. QED
    BY <1>1, <1>4, <2>1, <2>2
<1>11. q # 0
  <2>1. SUFFICES ASSUME q = 0 PROVE FALSE
    OBVIOUS
  <2>2. c * q = 0
    BY <2>1
  <2>3. One * s < c
    <3>1. One * s \in Int
      BY <1>1, <1>4
    <3>2. QED
      BY <1>5, <2>2, <3>1
  <2>4. QED
    <3>1. One * s \in Int
      BY <1>1, <1>4
    <3>2. QED
      BY <1>10, <2>3, <3>1
<1>12. 0 < In0(c, u, L)
  BY <1>3, <1>5, <1>11, RoundUp, OneAssumption
<1>13. q <= One * L
  <2>1. s <= One * L
    <3>1. u * s <= u * (One * L)
      <4>1. One * D <= One * (L * u)
        BY <1>1, <1>2
      <4>2. One * (L * u) = u * (One * L)
        BY <1>1
      <4>3. One * D \in Int /\ u * s \in Int /\ One * (L * u) \in Int
        BY <1>1, <1>2, <1>4
      <4>4. QED
        BY <1>4, <4>1, <4>2, <4>3
    <3>2. QED
      BY <1>1, <1>4, <3>1, CancelLeq
  <2>2. One * q <= One * s
    <3>1. One * q <= c * q
      BY <1>1, <1>5
    <3>2. QED
      BY <1>1, <1>4, <1>5, <3>1
  <2>3. q <= s
    BY <1>1, <1>4, <1>5, <2>2, OneAssumption, CancelLeq
  <2>4. QED
    BY <1>1, <1>4, <1>5, <2>1, <2>3
<1>14. In0(c, u, L) <= L
  BY <1>3, <1>5, <1>13, RoundUpLeq
<1>15. QED
  BY <1>8, <1>12, <1>14

\* What a swap gives and takes when nothing is for free.
Fair(swap, amount, exactInput) ==
    /\ swap.out > 0 => swap.in > 0
    /\ swap.feesIn \in 0..swap.in /\ swap.feesOut >= 0 /\ swap.out >= 0
    /\ IF exactInput THEN swap.in <= amount ELSE swap.out <= amount

\* Amounts that are small next to One.
Small(p, a) ==
    /\ LiquidityLimit + a <= One
    /\ a * (FeeTier(p) \div 2) < One /\ LiquidityLimit * (FeeTier(p) \div 2) < One

\* With an exact input a pool gives out nothing for free.
LEMMA FairIn ==
    ASSUME FeesModest, NEW s, NEW p \in Pools, s.pools[p] \in PoolType, NEW amount \in Nat,
           Usable(s, p, amount), Small(p, amount), NEW part \in PartOf(s, p, amount, TRUE),
           NEW swap, Sums(swap, part)
    PROVE  Fair(swap, amount, TRUE)
<1> DEFINE c == s.pools[p].sqrtPrice
           L == s.pools[p].liquidity
           o == amount - FeeBefore(p, amount)
<1>1. /\ o \in Nat /\ part.amountIn \in Nat /\ part.amountOut \in Nat
      /\ part.feeIn = amount - part.amountIn
      /\ part.feeOut = FeeBefore(p, part.amountOut)
      /\ L * One + o * c <= One * c => part.amountIn <= o
  <2>1. InSums(s, p, amount, part)
    BY PartIn
  <2>2. QED
    BY <2>1, Zenon DEF InSums
<1>2. FeeBefore(p, amount) \in Nat
  BY FeeBeforePart
<1>3. o <= amount
  BY <1>1, <1>2
<1>4. part.feeOut \in Nat /\ part.feeOut <= part.amountOut
  BY <1>1, FeeBeforePart
<1>5. c \in Nat /\ One <= c /\ L \in Nat /\ L < LiquidityLimit /\ One \in Nat \ {0} /\ amount # 0
      /\ LiquidityLimit \in Nat
  <2>1. L \in 0..(LiquidityLimit - 1) /\ c \in 0..(One * One - 1)
    BY DEF PoolType
  <2>2. LiquidityLimit \in Nat
    BY StoresAssumption
  <2>3. QED
    BY <2>1, <2>2, OneAssumption DEF Usable
<1>6. L + o <= One
  BY <1>1, <1>3, <1>5 DEF Small
<1> HIDE DEF c, L, o
<1>7. L * One + o * c <= One * c
  <2>1. L * One <= L * c
    BY <1>5
  <2>2. (L + o) * c <= One * c
    BY <1>1, <1>5, <1>6
  <2>3. (L + o) * c = L * c + o * c
    BY <1>1, <1>5
  <2>4. L * One \in Int /\ L * c \in Int /\ o * c \in Int /\ One * c \in Int
    BY <1>1, <1>5
  <2>5. QED
    BY <2>1, <2>2, <2>3, <2>4
<1>8. part.amountIn <= amount
  BY <1>1, <1>3, <1>7
<1>9. /\ swap.in = amount /\ swap.feesIn = amount - part.amountIn
      /\ swap.out = part.amountOut - part.feeOut /\ swap.feesOut = part.feeOut
  BY <1>1, <1>4 DEF Sums
<1>10. QED
  BY <1>1, <1>4, <1>5, <1>8, <1>9 DEF Fair

\* With an exact output a pool gives out nothing for free.
LEMMA FairOut ==
    ASSUME FeesModest, NEW s, NEW p \in Pools, s.pools[p] \in PoolType, NEW amount \in Nat,
           Usable(s, p, amount), Small(p, amount), NEW part \in PartOf(s, p, amount, FALSE),
           NEW swap, Sums(swap, part)
    PROVE  Fair(swap, amount, FALSE)
<1> DEFINE c == s.pools[p].sqrtPrice
           L == s.pools[p].liquidity
           o == amount + FeeAfter(p, amount)
           u == part.price
           half == FeeTier(p) \div 2
<1>1. /\ o \in Nat /\ MulQ96(NumberToQ96(o), c) < NumberToQ96(L)
      /\ u = NextOut(c, L, o)
      /\ part.amountIn = In0(c, u, L) /\ part.amountIn \in Nat
      /\ part.amountOut = Out1(c, u, L) /\ part.amountOut \in Nat
      /\ part.feeIn = FeeAfter(p, part.amountIn)
      /\ part.feeOut = part.amountOut - amount
  BY PartOut, ZenonT(60) DEF OutSums
<1>2. c \in Nat /\ One <= c /\ L \in Nat \ {0} /\ L < LiquidityLimit /\ amount # 0
      /\ LiquidityLimit \in Nat
  <2>1. L \in 0..(LiquidityLimit - 1) /\ c \in 0..(One * One - 1)
    BY DEF PoolType
  <2>2. LiquidityLimit \in Nat
    BY StoresAssumption
  <2>3. QED
    BY <2>1, <2>2, OneAssumption DEF Usable
<1>3. LiquidityLimit + amount <= One /\ amount * half < One /\ LiquidityLimit * half < One
  BY DEF Small
<1>4. FeeAfter(p, amount) \in Nat
  BY <1>3, FeeAfterNat
<1>5. o \in Nat \ {0} /\ amount <= o
  BY <1>2, <1>4
<1>6. L < One
  BY <1>2, <1>3, OneAssumption
<1> HIDE DEF c, L, o, u
<1>7. u \in Nat /\ c <= u /\ o * (c * u) < One * (L * (u - c)) + L
  <2>1. /\ NextOut(c, L, o) \in Nat /\ c <= NextOut(c, L, o)
        /\ o * (c * NextOut(c, L, o)) < One * (L * (NextOut(c, L, o) - c)) + L
    BY <1>1, <1>2, <1>5, OutGap
  <2>2. QED
    BY <1>1, <2>1
<1>8. o <= part.amountOut /\ 0 < part.amountIn /\ part.amountIn <= L
  BY <1>1, <1>2, <1>5, <1>6, <1>7, OutAmounts
<1>9. part.feeIn \in Nat
  <2>1. half \in Nat
    BY FeeTierNat
  <2> HIDE DEF half
  <2>2. part.amountIn * half <= LiquidityLimit * half
    <3>1. part.amountIn <= LiquidityLimit
      BY <1>1, <1>2, <1>8
    <3>2. QED
      BY <1>1, <1>2, <2>1, <3>1
  <2>3. part.amountIn * half \in Int /\ LiquidityLimit * half \in Int
    BY <1>1, <1>2, <2>1
  <2>4. part.amountIn * half < One
    BY <1>3, <2>2, <2>3, OneAssumption
  <2>5. QED
    BY <1>1, <2>4, FeeAfterNat DEF half
<1>10. /\ swap.in = part.amountIn + part.feeIn /\ swap.feesIn = part.feeIn
       /\ swap.out = amount /\ swap.feesOut = part.amountOut - amount
  BY <1>1, <1>9 DEF Sums
<1>11. QED
  BY <1>1, <1>5, <1>8, <1>9, <1>10 DEF Fair

\* No swap gives out anything for free.
LEMMA SwapFair ==
    ASSUME FeesModest, NEW s, StoresOK(s), PoolsEncoded(s), NEW p,
           NEW zeroToOne \in BOOLEAN, NEW limit \in Int, NEW amount \in Nat,
           NEW exactInput \in BOOLEAN,
           NEW swap \in Swap(s, p, zeroToOne, limit, amount, exactInput),
           Small(p, amount)
    PROVE  Fair(swap, amount, exactInput)
<1>1. /\ p \in DOMAIN s.pools /\ p \in Pools /\ s.pools[p] \in PoolType
      /\ \/ Idle(swap)
         \/ /\ Usable(s, p, amount)
            /\ \E part \in PartOf(s, p, amount, exactInput) : Sums(swap, part)
  BY SwapCases, Zenon
<1>2. CASE Idle(swap)
  BY <1>2 DEF Idle, Fair
<1>3. CASE ~Idle(swap)
  <2>1. p \in Pools /\ s.pools[p] \in PoolType /\ Usable(s, p, amount)
    BY <1>1, <1>3
  <2>2. PICK part \in PartOf(s, p, amount, exactInput) : Sums(swap, part)
    BY <1>1, <1>3
  <2>3. CASE exactInput
    <3>1. part \in PartOf(s, p, amount, TRUE)
      BY <2>2, <2>3
    <3>2. Fair(swap, amount, TRUE)
      BY <2>1, <2>2, <3>1, FairIn
    <3>3. QED
      BY <2>3, <3>2
  <2>4. CASE ~exactInput
    <3>1. part \in PartOf(s, p, amount, FALSE)
      BY <2>2, <2>4
    <3>2. Fair(swap, amount, FALSE)
      BY <2>1, <2>2, <3>1, FairOut
    <3>3. QED
      BY <2>4, <3>2
  <2>5. QED
    BY <2>3, <2>4
<1>4. QED
  BY <1>2, <1>3

\* Whatever stores the commands leave, a swap gives out tokens only for tokens,
\* takes no more than was offered or gives no more than was asked for, and its
\* fees are part of what is paid: rounding never turns against the pool.
THEOREM FreeInvariant ==
    ASSUME TableAscends, FeesModest, AmountsSmall
    PROVE  SwapsSpec => []NothingForFree
<1>1. BeforeSwaps => NothingForFree
  <2> SUFFICES ASSUME BeforeSwaps, swapped = <<>>,
                      NEW poolID \in DOMAIN state.pools, NEW zeroToOne \in BOOLEAN,
                      NEW exactInput \in BOOLEAN, NEW amount \in Amounts \cup SwapAmounts,
                      NEW swap \in Swap(state, poolID, zeroToOne, Limit(zeroToOne), amount, exactInput)
               PROVE  Fair(swap, amount, exactInput)
    BY Zenon DEF NothingForFree, Fair
  <2>1. StoresOK(state) /\ PoolsEncoded(state)
    BY DEF BeforeSwaps, PositionsInv, GrantsInv
  <2>2. poolID \in Pools
    BY <2>1 DEF StoresOK, IsState
  <2>3. amount \in Nat
    BY PositionsAssumption, CommandsAssumption
  <2>4. Small(poolID, amount)
    BY <2>2 DEF AmountsSmall, Small
  <2>5. Limit(zeroToOne) \in Int
    BY LimitInt
  <2>6. QED
    BY <2>1, <2>3, <2>4, <2>5, SwapFair
<1>2. QED
  BY <1>1, BeforeSwapsInvariant, PTL
=============================================================================
