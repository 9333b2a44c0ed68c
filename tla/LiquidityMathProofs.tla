------------------------ MODULE LiquidityMathProofs ------------------------
(***************************************************************************)
(* What the roundings of the fixed-point arithmetic guarantee for amounts, *)
(* liquidity and the steps of a swap, for every width of the fraction and  *)
(* every price.                                                            *)
(***************************************************************************)
EXTENDS TickPrices, SwapMath, FiniteSums

(* Division rounded down *)

\* A quotient is rounded down by less than one.
LEMMA DivBounds ==
    ASSUME NEW a \in Nat, NEW b \in Nat \ {0}
    PROVE  /\ a \div b \in Nat
           /\ b * (a \div b) <= a
           /\ a < b * (a \div b) + b
OBVIOUS

\* A number that fits b times into a is at most the quotient.
LEMMA DivGeq ==
    ASSUME NEW a \in Nat, NEW b \in Nat \ {0}, NEW q \in Int, b * q <= a
    PROVE  q <= a \div b
<1>1. /\ a \div b \in Nat
      /\ a < b * (a \div b) + b
  BY DivBounds
<1> DEFINE d == a \div b
<1>2. b * q < b * (d + 1)
  BY <1>1
<1> HIDE DEF d
<1>3. d \in Nat
  BY <1>1 DEF d
<1>4. q < d + 1
  BY <1>2, <1>3
<1>5. QED
  BY <1>3, <1>4 DEF d

\* An upper bound of a quotient.
LEMMA DivLeq ==
    ASSUME NEW a \in Nat, NEW b \in Nat \ {0}, NEW q \in Int, a < b * q + b
    PROVE  a \div b <= q
<1>1. /\ a \div b \in Nat
      /\ b * (a \div b) <= a
  BY DivBounds
<1> DEFINE d == a \div b
<1>2. b * d < b * (q + 1)
  BY <1>1
<1> HIDE DEF d
<1>3. d \in Nat
  BY <1>1 DEF d
<1>4. d < q + 1
  BY <1>2, <1>3
<1>5. QED
  BY <1>3, <1>4 DEF d

\* Quotients grow with their dividends.
LEMMA DivMonotone ==
    ASSUME NEW a \in Nat, NEW c \in Nat, NEW b \in Nat \ {0}, a <= c
    PROVE  a \div b <= c \div b
<1>1. a \div b \in Nat /\ b * (a \div b) <= a
  BY DivBounds
<1>2. b * (a \div b) <= c
  BY <1>1
<1>3. QED
  BY <1>1, <1>2, DivGeq

\* The quotient of a multiple is exact.
LEMMA DivExact ==
    ASSUME NEW a \in Nat, NEW b \in Nat \ {0}
    PROVE  (b * a) \div b = a
<1>1. b * a \in Nat /\ b * a <= b * a /\ b * a < b * a + b
  OBVIOUS
<1>2. a <= (b * a) \div b /\ (b * a) \div b <= a
  BY <1>1, DivGeq, DivLeq
<1>3. (b * a) \div b \in Nat
  BY <1>1, DivBounds
<1>4. QED
  BY <1>2, <1>3

-----------------------------------------------------------------------------
(* Rounding of fixed-point numbers *)

\* roundDownQ96 loses less than one.
LEMMA RoundDown ==
    ASSUME NEW a \in Nat
    PROVE  /\ RoundDownQ96(a) \in Nat
           /\ One * RoundDownQ96(a) <= a
           /\ a < One * RoundDownQ96(a) + One
BY OneAssumption, DivBounds DEF RoundDownQ96

\* roundUpQ96 adds less than one.
LEMMA RoundUp ==
    ASSUME NEW a \in Nat
    PROVE  /\ RoundUpQ96(a) \in Nat
           /\ a <= One * RoundUpQ96(a)
           /\ One * RoundUpQ96(a) < a + One
<1> DEFINE d == a \div One
<1>1. /\ d \in Nat
      /\ One * d <= a
      /\ a < One * d + One
  BY OneAssumption, DivBounds
<1>2. a = One * d + (a % One)
  BY OneAssumption
<1>3. a % One \in 0..(One - 1)
  BY OneAssumption
<1>4. One * (d + 1) = One * d + One
  BY <1>1, OneAssumption
<1>5. RoundUpQ96(a) = IF a % One = 0 THEN d ELSE d + 1
  BY DEF RoundUpQ96
<1> HIDE DEF d
<1>6. QED
  BY <1>1, <1>2, <1>3, <1>4, <1>5, OneAssumption

\* Rounded up, an amount fits whatever the amount itself fits.
LEMMA RoundUpLeq ==
    ASSUME NEW a \in Nat, NEW q \in Int, a <= One * q
    PROVE  RoundUpQ96(a) <= q
<1> DEFINE r == RoundUpQ96(a)
<1>1. r \in Nat /\ One * r < a + One
  BY RoundUp
<1> HIDE DEF r
<1>2. One * r < One * (q + 1)
  BY <1>1, OneAssumption
<1>3. r < q + 1
  BY <1>1, <1>2, OneAssumption
<1>4. QED
  BY <1>1, <1>3 DEF r

\* Rounding down undoes scaling.
LEMMA Scaled ==
    ASSUME NEW a \in Nat
    PROVE  NumberToQ96(a) \in Nat /\ RoundDownQ96(NumberToQ96(a)) = a
<1>1. NumberToQ96(a) = One * a
  BY OneAssumption DEF NumberToQ96
<1>2. QED
  BY <1>1, OneAssumption, DivExact DEF RoundDownQ96

\* The quotient that mulDivQ96 rounds twice.
LEMMA MulDiv ==
    ASSUME NEW a \in Nat, NEW b \in Nat, NEW c \in Nat \ {0}
    PROVE  /\ MulDivQ96(a, b, c) \in Nat
           /\ c * MulDivQ96(a, b, c) <= a * b
           /\ a * b < c * MulDivQ96(a, b, c) + c
<1> DEFINE p == a * b
           x == (p * One) \div c
           m == x \div One
<1>1. p \in Nat /\ p * One \in Nat
  BY OneAssumption
<1>2. /\ x \in Nat
      /\ c * x <= p * One
      /\ p * One < c * x + c
  BY <1>1, DivBounds
<1>3. /\ m \in Nat
      /\ One * m <= x
      /\ x < One * m + One
  BY <1>2, OneAssumption, DivBounds
<1>4. m = MulDivQ96(a, b, c)
  BY DEF MulDivQ96, RoundDownQ96
<1> HIDE DEF p, x, m
<1>5. One * (c * m) <= One * p
  BY <1>1, <1>2, <1>3, OneAssumption
<1>6. c * m <= p
  BY <1>5, <1>1, <1>3, OneAssumption
<1>7. One * p < One * (c * m + c)
  <2>1. x + 1 <= One * m + One
    BY <1>2, <1>3, OneAssumption
  <2>2. c * (x + 1) <= c * (One * m + One)
    BY <2>1, <1>2, <1>3, OneAssumption
  <2>3. c * (One * m + One) = One * (c * m + c)
    BY <1>3, OneAssumption
  <2>4. c * (x + 1) = c * x + c
    BY <1>2
  <2>5. QED
    BY <2>2, <2>3, <2>4, <1>1, <1>2, <1>3, OneAssumption
<1>8. p < c * m + c
  BY <1>7, <1>1, <1>3, OneAssumption
<1>9. QED
  BY <1>3, <1>4, <1>6, <1>8 DEF p

-----------------------------------------------------------------------------
(* Products *)

\* Products of natural numbers are natural numbers.
LEMMA ProductNat == ASSUME NEW a \in Nat, NEW b \in Nat PROVE a * b \in Nat
OBVIOUS

\* Multiplication preserves an inequality.
LEMMA ScaleLeq ==
    ASSUME NEW c \in Nat, NEW a \in Int, NEW b \in Int, a <= b
    PROVE  c * a <= c * b
OBVIOUS

\* A positive factor can be cancelled from an inequality.
LEMMA CancelLeq ==
    ASSUME NEW c \in Nat \ {0}, NEW a \in Int, NEW b \in Int, c * a <= c * b
    PROVE  a <= b
OBVIOUS

\* A positive factor can be cancelled from a strict inequality.
LEMMA CancelLess ==
    ASSUME NEW c \in Nat \ {0}, NEW a \in Int, NEW b \in Int, c * a < c * b
    PROVE  a < b
OBVIOUS

-----------------------------------------------------------------------------
(* Amounts are rounded up when they are paid to a pool, down when it pays. *)

In0(lower, upper, liquidity) == GetAmount0Delta(lower, upper, liquidity, TRUE)
Out0(lower, upper, liquidity) == GetAmount0Delta(lower, upper, liquidity, FALSE)
In1(lower, upper, liquidity) == GetAmount1Delta(lower, upper, liquidity, TRUE)
Out1(lower, upper, liquidity) == GetAmount1Delta(lower, upper, liquidity, FALSE)

-----------------------------------------------------------------------------
(* The amount of the second token *)

\* An amount of the second token is an exact product, rounded once.
LEMMA Amount1Rounded ==
    ASSUME NEW lower \in Nat, NEW upper \in Nat, lower <= upper,
           NEW liquidity \in Nat
    PROVE  /\ liquidity * (upper - lower) \in Nat
           /\ In1(lower, upper, liquidity)
                = RoundUpQ96(liquidity * (upper - lower))
           /\ Out1(lower, upper, liquidity)
                = RoundDownQ96(liquidity * (upper - lower))
<1> DEFINE d == upper - lower
<1>1. d \in Nat
  OBVIOUS
<1> HIDE DEF d
<1>2. liquidity * d \in Nat
  BY <1>1
<1>3. NumberToQ96(liquidity) * d = One * (liquidity * d)
  BY <1>1, OneAssumption DEF NumberToQ96
<1>4. MulQ96(NumberToQ96(liquidity), d) = liquidity * d
  BY <1>2, <1>3, OneAssumption, DivExact DEF MulQ96
<1>5. QED
  BY <1>2, <1>4 DEF d, In1, Out1, GetAmount1Delta, Rounded

\* No liquidity that an amount of the second token is enough for costs more of it.
LEMMA Fits1 ==
    ASSUME NEW lower \in Nat, NEW upper \in Nat, lower < upper, NEW amount \in Nat,
           NEW liquidity \in Nat, liquidity <= GetLiquidityForAmount1(lower, upper, amount)
    PROVE  In1(lower, upper, liquidity) <= amount
<1> DEFINE d == upper - lower
           a == NumberToQ96(amount)
           m == MulDivQ96(a, NumberToQ96(1), d)
           g == RoundDownQ96(m)
<1>1. d \in Nat \ {0} /\ a \in Nat /\ a = amount * One /\ NumberToQ96(1) = One
  BY OneAssumption DEF NumberToQ96
<1>2. g = GetLiquidityForAmount1(lower, upper, amount)
  BY DEF GetLiquidityForAmount1
<1> HIDE DEF d, a
<1>3. m \in Nat /\ d * m <= a * One
  BY <1>1, OneAssumption, MulDiv
<1> HIDE DEF m
<1>4. g \in Nat /\ One * g <= m
  BY <1>3, RoundDown
<1> HIDE DEF g
<1>5. One * (d * liquidity) <= One * (One * amount)
  <2>1. One * liquidity <= m
    BY <1>2, <1>4, <1>3, OneAssumption
  <2>2. d * (One * liquidity) <= d * m
    BY <2>1, <1>1, <1>3, OneAssumption
  <2>3. d * (One * liquidity) = One * (d * liquidity)
    BY <1>1, OneAssumption
  <2>4. a * One = One * (One * amount)
    BY <1>1, OneAssumption
  <2>5. d * m \in Int /\ d * (One * liquidity) \in Int /\ One * (One * amount) \in Int
    BY <1>1, <1>3, OneAssumption
  <2>6. QED
    BY <2>2, <2>3, <2>4, <2>5, <1>3
<1>6. liquidity * d <= One * amount
  BY <1>5, <1>1, OneAssumption
<1>7. RoundUpQ96(liquidity * d) <= amount
  BY <1>6, <1>1, RoundUpLeq
<1>8. In1(lower, upper, liquidity) = RoundUpQ96(liquidity * d)
  <2>1. lower <= upper
    OBVIOUS
  <2>2. QED
    BY <2>1, Amount1Rounded DEF d
<1>9. QED
  BY <1>7, <1>8

-----------------------------------------------------------------------------
(* The amount of the first token *)

\* The two quotients that getAmount0Delta rounds down on its way.
Share0(lower, upper, liquidity) == MulDivQ96(NumberToQ96(liquidity), upper - lower, upper)
Quotient0(lower, upper, liquidity) == DivQ96(Share0(lower, upper, liquidity), lower)

\* The division by the upper price.
LEMMA Share0Bounds ==
    ASSUME NEW lower \in Nat, NEW upper \in Nat \ {0}, lower <= upper, NEW liquidity \in Nat
    PROVE  /\ Share0(lower, upper, liquidity) \in Nat
           /\ upper * Share0(lower, upper, liquidity) <= One * (liquidity * (upper - lower))
           /\ One * (liquidity * (upper - lower)) < upper * Share0(lower, upper, liquidity) + upper
<1> DEFINE d == upper - lower
           a == NumberToQ96(liquidity)
           m == MulDivQ96(a, d, upper)
<1>1. d \in Nat /\ a \in Nat /\ a = liquidity * One
  BY OneAssumption DEF NumberToQ96
<1> HIDE DEF d, a
<1>2. m \in Nat /\ upper * m <= a * d /\ a * d < upper * m + upper
  BY <1>1, MulDiv
<1>3. a * d = One * (liquidity * d)
  BY <1>1, OneAssumption
<1>4. m = Share0(lower, upper, liquidity)
  BY DEF Share0, a, d
<1> HIDE DEF m
<1>5. QED
  BY <1>2, <1>3, <1>4 DEF d

\* The division by the lower price.
LEMMA Quotient0Bounds ==
    ASSUME NEW lower \in Nat \ {0}, NEW upper \in Nat, lower <= upper, NEW liquidity \in Nat
    PROVE  /\ Quotient0(lower, upper, liquidity) \in Nat
           /\ lower * Quotient0(lower, upper, liquidity) <= One * Share0(lower, upper, liquidity)
           /\ One * Share0(lower, upper, liquidity)
                < lower * Quotient0(lower, upper, liquidity) + lower
<1> DEFINE s == Share0(lower, upper, liquidity)
<1>1. s \in Nat
  <2>1. upper \in Nat \ {0}
    OBVIOUS
  <2>2. QED
    BY <2>1, Share0Bounds
<1>2. Quotient0(lower, upper, liquidity) = (s * One) \div lower
  BY DEF Quotient0, DivQ96
<1> HIDE DEF s
<1>3. s * One \in Nat /\ s * One = One * s
  BY <1>1, OneAssumption
<1>4. QED
  BY <1>2, <1>3, DivBounds DEF s

\* An amount of the first token is the result of both divisions, rounded.
LEMMA Amount0Rounded ==
    ASSUME NEW lower, NEW upper, NEW liquidity
    PROVE  /\ In0(lower, upper, liquidity)
                = RoundUpQ96(Quotient0(lower, upper, liquidity))
           /\ Out0(lower, upper, liquidity)
                = RoundDownQ96(Quotient0(lower, upper, liquidity))
BY DEF In0, Out0, GetAmount0Delta, Quotient0, Share0, Rounded

\* No liquidity that an amount of the first token is enough for costs more of it.
LEMMA Fits0 ==
    ASSUME NEW lower \in Nat \ {0}, NEW upper \in Nat, lower < upper, NEW amount \in Nat,
           NEW liquidity \in Nat, liquidity <= GetLiquidityForAmount0(lower, upper, amount)
    PROVE  In0(lower, upper, liquidity) <= amount
<1> DEFINE d == upper - lower
           a == NumberToQ96(amount)
           i == MulDivQ96(lower, upper, NumberToQ96(1))
           m == MulDivQ96(a, i, d)
           g == RoundDownQ96(m)
           s == Share0(lower, upper, liquidity)
           q == Quotient0(lower, upper, liquidity)
<1>1. d \in Nat \ {0} /\ a \in Nat /\ a = amount * One /\ NumberToQ96(1) = One
  BY OneAssumption DEF NumberToQ96
<1>2. g = GetLiquidityForAmount0(lower, upper, amount)
  BY DEF GetLiquidityForAmount0
<1>3. i \in Nat /\ One * i <= lower * upper
  BY <1>1, OneAssumption, MulDiv
<1>4. /\ s \in Nat
      /\ upper * s <= One * (liquidity * d)
  <2>1. upper \in Nat \ {0} /\ lower <= upper
    OBVIOUS
  <2>2. QED
    BY <2>1, Share0Bounds
<1>5. /\ q \in Nat
      /\ lower * q <= One * s
  BY Quotient0Bounds
<1>6. In0(lower, upper, liquidity) = RoundUpQ96(q)
  BY Amount0Rounded
<1> HIDE DEF d, a, i, s, q
<1>7. m \in Nat /\ d * m <= a * i
  BY <1>1, <1>3, MulDiv
<1> HIDE DEF m
<1>8. g \in Nat /\ One * g <= m
  BY <1>7, RoundDown
<1> HIDE DEF g
\* The cost of the liquidity is at most what the amount is worth.
<1>9. liquidity * d <= amount * i
  <2>1. One * liquidity <= m
    BY <1>2, <1>8, <1>7, OneAssumption
  <2>2. d * (One * liquidity) <= d * m
    BY <2>1, <1>1, <1>7, OneAssumption
  <2>3. d * (One * liquidity) = One * (liquidity * d)
    BY <1>1, OneAssumption
  <2>4. a * i = One * (amount * i)
    BY <1>1, <1>3, OneAssumption
  <2>5. d * m \in Int /\ One * (liquidity * d) \in Int /\ One * (amount * i) \in Int
    BY <1>1, <1>3, <1>7, OneAssumption
  <2>6. One * (liquidity * d) <= One * (amount * i)
    BY <2>2, <2>3, <2>4, <2>5, <1>7
  <2>7. liquidity * d \in Int /\ amount * i \in Int
    BY <1>1, <1>3
  <2>8. QED
    BY <2>6, <2>7, OneAssumption, CancelLeq
<1>10. s <= amount * lower
  <2>1. One * (liquidity * d) <= One * (amount * i)
    BY <1>9, <1>1, <1>3, OneAssumption
  <2>2. One * (amount * i) = amount * (One * i)
    BY <1>3, OneAssumption
  <2>3. amount * (One * i) <= amount * (lower * upper)
    BY <1>3, OneAssumption
  <2>4. amount * (lower * upper) = upper * (amount * lower)
    OBVIOUS
  <2>5. /\ upper * s \in Int /\ One * (liquidity * d) \in Int
        /\ One * (amount * i) \in Int /\ amount * (lower * upper) \in Int
    BY <1>1, <1>3, <1>4, OneAssumption
  <2>6. upper * s <= upper * (amount * lower)
    BY <2>1, <2>2, <2>3, <2>4, <2>5, <1>4
  <2>7. amount * lower \in Int /\ upper \in Nat \ {0}
    OBVIOUS
  <2>8. QED
    BY <2>6, <2>7, <1>4, CancelLeq
<1>11. q <= One * amount
  <2>1. One * s <= One * (amount * lower)
    BY <1>10, <1>4, OneAssumption
  <2>2. One * (amount * lower) = lower * (One * amount)
    BY OneAssumption
  <2>3. lower * q \in Int /\ One * s \in Int /\ lower * (One * amount) \in Int /\ One * amount \in Int
    BY <1>4, <1>5, OneAssumption
  <2>4. lower * q <= lower * (One * amount)
    BY <2>1, <2>2, <2>3, <1>5
  <2>5. QED
    BY <2>4, <2>3, <1>5, CancelLeq
<1>12. RoundUpQ96(q) <= amount
  BY <1>11, <1>5, RoundUpLeq
<1>13. QED
  BY <1>6, <1>12

\* The liquidity for an amount is a natural number.
LEMMA LiquidityNat ==
    ASSUME NEW lower \in Nat, NEW upper \in Nat, lower < upper, NEW amount \in Nat
    PROVE  /\ GetLiquidityForAmount0(lower, upper, amount) \in Nat
           /\ GetLiquidityForAmount1(lower, upper, amount) \in Nat
<1>1. NumberToQ96(amount) \in Nat /\ NumberToQ96(1) \in Nat \ {0} /\ upper - lower \in Nat \ {0}
  BY OneAssumption DEF NumberToQ96
<1>2. MulDivQ96(lower, upper, NumberToQ96(1)) \in Nat
  BY <1>1, MulDiv
<1>3. MulDivQ96(NumberToQ96(amount), MulDivQ96(lower, upper, NumberToQ96(1)), upper - lower) \in Nat
  BY <1>1, <1>2, MulDiv
<1>4. NumberToQ96(1) \in Nat
  BY <1>1
<1>5. MulDivQ96(NumberToQ96(amount), NumberToQ96(1), upper - lower) \in Nat
  BY <1>1, <1>4, MulDiv
<1>6. QED
  BY <1>3, <1>5, RoundDown DEF GetLiquidityForAmount0, GetLiquidityForAmount1

\* The deposit of both tokens never exceeds the amounts that the user allows,
\* wherever the current price lies (getLiquidityForAmounts, updatePosition).
THEOREM DepositFits ==
    ASSUME NEW current \in Nat \ {0}, NEW lower \in Nat \ {0}, NEW upper \in Nat, lower < upper,
           NEW amount0 \in Nat, NEW amount1 \in Nat
    PROVE  LET liquidity == GetLiquidityForAmounts(current, lower, upper, amount0, amount1)
               paid == AmountsForLiquidity(current, lower, upper, liquidity, TRUE)
           IN  paid[1] <= amount0 /\ paid[2] <= amount1
<1> DEFINE g == GetLiquidityForAmounts(current, lower, upper, amount0, amount1)
           paid == AmountsForLiquidity(current, lower, upper, g, TRUE)
<1> SUFFICES paid[1] <= amount0 /\ paid[2] <= amount1
  OBVIOUS
<1>1. CASE current <= lower
  <2>1. g = GetLiquidityForAmount0(lower, upper, amount0)
    BY <1>1 DEF GetLiquidityForAmounts
  <2>2. g \in Nat /\ g <= g
    BY <2>1, LiquidityNat
  <2>3. paid = <<In0(lower, upper, g), 0>>
    BY <1>1 DEF AmountsForLiquidity, In0, In1, Out0, Out1
  <2> HIDE DEF g, paid
  <2>4. In0(lower, upper, g) <= amount0
    BY <2>1, <2>2, Fits0
  <2>5. paid[1] <= amount0
    BY <2>3, <2>4
  <2>6. paid[2] = 0
    BY <2>3
  <2>7. QED
    BY <2>5, <2>6
<1>2. CASE ~(current <= lower) /\ current < upper
  <2> DEFINE g0 == GetLiquidityForAmount0(current, upper, amount0)
             g1 == GetLiquidityForAmount1(lower, current, amount1)
  <2>1. lower < current /\ current \in Nat
    BY <1>2
  <2>2. g0 \in Nat
    BY <1>2, <2>1, LiquidityNat
  <2>3. g1 \in Nat
    BY <1>2, <2>1, LiquidityNat
  <2>4. g = Lesser(g0, g1)
    BY <1>2 DEF GetLiquidityForAmounts
  <2>5. paid = <<In0(current, upper, g), In1(lower, current, g)>>
    BY <1>2 DEF AmountsForLiquidity, In0, In1, Out0, Out1
  <2> HIDE DEF g, g0, g1, paid
  <2>6. g \in Nat /\ g <= g0 /\ g <= g1
    BY <2>2, <2>3, <2>4 DEF Lesser
  <2>7. In0(current, upper, g) <= amount0
    BY <1>2, <2>1, <2>6, Fits0 DEF g0
  <2>8. In1(lower, current, g) <= amount1
    BY <1>2, <2>1, <2>6, Fits1 DEF g1
  <2>9. QED
    BY <2>5, <2>7, <2>8
<1>3. CASE ~(current <= lower) /\ ~(current < upper)
  <2>1. g = GetLiquidityForAmount1(lower, upper, amount1)
    BY <1>3 DEF GetLiquidityForAmounts
  <2>2. g \in Nat /\ g <= g
    BY <2>1, LiquidityNat
  <2>3. paid = <<0, In1(lower, upper, g)>>
    BY <1>3 DEF AmountsForLiquidity, In0, In1, Out0, Out1
  <2> HIDE DEF g, paid
  <2>4. In1(lower, upper, g) <= amount1
    BY <2>1, <2>2, Fits1
  <2>5. paid[1] = 0
    BY <2>3
  <2>6. paid[2] <= amount1
    BY <2>3, <2>4
  <2>7. QED
    BY <2>5, <2>6
<1>4. QED
  BY <1>1, <1>2, <1>3

-----------------------------------------------------------------------------
(* Deposits and withdrawals *)

\* Two deposits of the second token cover the withdrawal of both.
LEMMA Deposits1 ==
    ASSUME NEW lower \in Nat, NEW upper \in Nat, lower <= upper,
           NEW first \in Nat, NEW second \in Nat
    PROVE  In1(lower, upper, first) + In1(lower, upper, second)
             >= Out1(lower, upper, first + second)
<1> DEFINE d == upper - lower
           r1 == In1(lower, upper, first)
           r2 == In1(lower, upper, second)
           f == Out1(lower, upper, first + second)
<1>1. d \in Nat /\ first + second \in Nat
  OBVIOUS
<1>2. first * d \in Nat /\ r1 = RoundUpQ96(first * d)
  BY Amount1Rounded
<1>3. second * d \in Nat /\ r2 = RoundUpQ96(second * d)
  BY Amount1Rounded
<1>4. (first + second) * d \in Nat /\ f = RoundDownQ96((first + second) * d)
  BY <1>1, Amount1Rounded
<1> HIDE DEF d, r1, r2, f
<1>5. r1 \in Nat /\ first * d <= One * r1
  BY <1>2, RoundUp
<1>6. r2 \in Nat /\ second * d <= One * r2
  BY <1>3, RoundUp
<1>7. f \in Nat /\ One * f <= (first + second) * d
  BY <1>4, RoundDown
<1>8. (first + second) * d = first * d + second * d
  BY <1>1
<1>9. One * f <= One * (r1 + r2)
  BY <1>2, <1>3, <1>5, <1>6, <1>7, <1>8, OneAssumption
<1>10. f <= r1 + r2
  BY <1>5, <1>6, <1>7, <1>9, OneAssumption, CancelLeq
<1>11. QED
  BY <1>10, <1>5, <1>6, <1>7 DEF r1, r2, f

\* Two quotients are rounded down on the way to an amount of the first token; the
\* roundings up make up for them unless the price or the fraction is very coarse.
LEMMA Deposits0 ==
    ASSUME NEW lower \in Nat \ {0}, NEW upper \in Nat, lower <= upper,
           NEW first \in Nat, NEW second \in Nat, One + 2 * lower <= One * lower
    PROVE  In0(lower, upper, first) + In0(lower, upper, second)
             >= Out0(lower, upper, first + second)
<1> DEFINE d == upper - lower
           both == first + second
           s1 == Share0(lower, upper, first)
           s2 == Share0(lower, upper, second)
           s == Share0(lower, upper, both)
           q1 == Quotient0(lower, upper, first)
           q2 == Quotient0(lower, upper, second)
           q == Quotient0(lower, upper, both)
           r1 == In0(lower, upper, first)
           r2 == In0(lower, upper, second)
           f == Out0(lower, upper, both)
<1> SUFFICES r1 + r2 >= f
  OBVIOUS
<1>1. d \in Nat /\ both \in Nat /\ upper \in Nat \ {0}
  OBVIOUS
<1>2. s1 \in Nat /\ One * (first * d) < upper * s1 + upper
  BY <1>1, Share0Bounds
<1>3. s2 \in Nat /\ One * (second * d) < upper * s2 + upper
  BY <1>1, Share0Bounds
<1>4. s \in Nat /\ upper * s <= One * (both * d)
  BY <1>1, Share0Bounds
<1>5. q1 \in Nat /\ One * s1 < lower * q1 + lower
  BY <1>1, Quotient0Bounds
<1>6. q2 \in Nat /\ One * s2 < lower * q2 + lower
  BY <1>1, Quotient0Bounds
<1>7. q \in Nat /\ lower * q <= One * s
  BY <1>1, Quotient0Bounds
<1>8. r1 = RoundUpQ96(q1)
  BY Amount0Rounded
<1>9. r2 = RoundUpQ96(q2)
  BY Amount0Rounded
<1>10. f = RoundDownQ96(q)
  BY Amount0Rounded
<1>11. both = first + second
  OBVIOUS
<1> HIDE DEF d, both, s1, s2, s, q1, q2, q, r1, r2, f
<1>12. r1 \in Nat /\ q1 <= One * r1
  BY <1>5, <1>8, RoundUp
<1>13. r2 \in Nat /\ q2 <= One * r2
  BY <1>6, <1>9, RoundUp
<1>14. f \in Nat /\ One * f <= q
  BY <1>7, <1>10, RoundDown
<1>15. s <= s1 + s2 + 1
  <2>1. One * (both * d) = One * (first * d) + One * (second * d)
    BY <1>1, <1>11, OneAssumption
  <2>2. upper * (s1 + s2 + 2) = upper * s1 + upper + upper * s2 + upper
    BY <1>2, <1>3
  <2>3. /\ One * (first * d) \in Int /\ One * (second * d) \in Int /\ One * (both * d) \in Int
        /\ upper * s1 \in Int /\ upper * s2 \in Int /\ upper * s \in Int
    BY <1>1, <1>2, <1>3, <1>4, OneAssumption
  <2>4. upper * s < upper * (s1 + s2 + 2)
    BY <2>1, <2>2, <2>3, <1>2, <1>3, <1>4
  <2>5. s < s1 + s2 + 2
    BY <2>4, <1>1, <1>2, <1>3, <1>4, CancelLess
  <2>6. QED
    BY <2>5, <1>2, <1>3, <1>4
<1>16. q < q1 + q2 + One
  <2>1. One * s <= One * (s1 + s2 + 1)
    BY <1>15, <1>2, <1>3, <1>4, OneAssumption
  <2>2. One * (s1 + s2 + 1) = One * s1 + One * s2 + One
    BY <1>2, <1>3, OneAssumption
  <2>3. lower * (q1 + q2 + One) = lower * q1 + lower * q2 + One * lower
    BY <1>5, <1>6, OneAssumption
  <2>4. /\ One * s \in Int /\ One * s1 \in Int /\ One * s2 \in Int /\ One * lower \in Int
        /\ lower * q1 \in Int /\ lower * q2 \in Int /\ lower * q \in Int
    BY <1>2, <1>3, <1>4, <1>5, <1>6, <1>7, OneAssumption
  <2>5. lower * q < lower * (q1 + q2 + One)
    BY <2>1, <2>2, <2>3, <2>4, <1>5, <1>6, <1>7, OneAssumption
  <2>6. QED
    BY <2>5, <1>5, <1>6, <1>7, OneAssumption, CancelLess
<1>17. One * f < One * (r1 + r2 + 1)
  <2>1. One * (r1 + r2 + 1) = One * r1 + One * r2 + One
    BY <1>12, <1>13, OneAssumption
  <2>2. One * f \in Int /\ One * r1 \in Int /\ One * r2 \in Int
    BY <1>12, <1>13, <1>14, OneAssumption
  <2>3. QED
    BY <2>1, <2>2, <1>5, <1>6, <1>7, <1>12, <1>13, <1>14, <1>16, OneAssumption
<1>18. f < r1 + r2 + 1
  BY <1>12, <1>13, <1>14, <1>17, OneAssumption, CancelLess
<1>19. QED
  BY <1>12, <1>13, <1>14, <1>18

\* What two deposits of liquidity paid in covers the withdrawal of both at once, so
\* that rounding never makes a pool pay more than it was paid (updatePosition).
THEOREM DepositsCover ==
    ASSUME NEW current \in Nat, NEW lower \in Nat \ {0}, NEW upper \in Nat, lower < upper,
           NEW first \in Nat, NEW second \in Nat, One + 2 * lower <= One * lower
    PROVE  \A i \in {1, 2} :
             AmountsForLiquidity(current, lower, upper, first, TRUE)[i]
               + AmountsForLiquidity(current, lower, upper, second, TRUE)[i]
             >= AmountsForLiquidity(current, lower, upper, first + second, FALSE)[i]
<1> DEFINE a == AmountsForLiquidity(current, lower, upper, first, TRUE)
           b == AmountsForLiquidity(current, lower, upper, second, TRUE)
           c == AmountsForLiquidity(current, lower, upper, first + second, FALSE)
<1> SUFFICES a[1] + b[1] >= c[1] /\ a[2] + b[2] >= c[2]
  OBVIOUS
<1>1. CASE current <= lower
  <2>1. /\ a = <<In0(lower, upper, first), 0>>
        /\ b = <<In0(lower, upper, second), 0>>
        /\ c = <<Out0(lower, upper, first + second), 0>>
    BY <1>1 DEF AmountsForLiquidity, In0, In1, Out0, Out1
  <2> HIDE DEF a, b, c
  <2>2. a[2] = 0 /\ b[2] = 0 /\ c[2] = 0
    BY <2>1
  <2>3. In0(lower, upper, first) + In0(lower, upper, second)
          >= Out0(lower, upper, first + second)
    BY Deposits0
  <2>4. a[1] + b[1] >= c[1]
    BY <2>1, <2>3
  <2>5. QED
    BY <2>2, <2>4
<1>2. CASE ~(current <= lower) /\ current < upper
  <2>1. /\ a = <<In0(current, upper, first),
                 In1(lower, current, first)>>
        /\ b = <<In0(current, upper, second),
                 In1(lower, current, second)>>
        /\ c = <<Out0(current, upper, first + second),
                 Out1(lower, current, first + second)>>
    BY <1>2 DEF AmountsForLiquidity, In0, In1, Out0, Out1
  <2> HIDE DEF a, b, c
  \* The current price is finer than the lower one.
  <2>2. One + 2 * current <= One * current
    <3>1. One <= lower * (One - 2)
      BY OneAssumption
    <3>2. One - 2 \in Nat
      BY <3>1, OneAssumption
    <3>3. lower * (One - 2) <= current * (One - 2)
      BY <3>2, <1>2
    <3>4. lower * (One - 2) \in Int /\ current * (One - 2) \in Int
      BY <3>2
    <3>5. current * (One - 2) = One * current - 2 * current /\ One * current \in Int
      BY OneAssumption
    <3>6. QED
      BY <3>1, <3>3, <3>4, <3>5, OneAssumption
  <2>3. In0(current, upper, first) + In0(current, upper, second)
          >= Out0(current, upper, first + second)
    <3>1. current \in Nat \ {0} /\ current <= upper
      BY <1>2
    <3>2. QED
      BY <2>2, <3>1, Deposits0
  <2>4. In1(lower, current, first) + In1(lower, current, second)
          >= Out1(lower, current, first + second)
    <3>1. lower \in Nat /\ lower <= current
      BY <1>2
    <3>2. QED
      BY <3>1, Deposits1
  <2>5. a[1] + b[1] >= c[1]
    BY <2>1, <2>3
  <2>6. a[2] + b[2] >= c[2]
    BY <2>1, <2>4
  <2>7. QED
    BY <2>5, <2>6
<1>3. CASE ~(current <= lower) /\ ~(current < upper)
  <2>1. /\ a = <<0, In1(lower, upper, first)>>
        /\ b = <<0, In1(lower, upper, second)>>
        /\ c = <<0, Out1(lower, upper, first + second)>>
    BY <1>3 DEF AmountsForLiquidity, In0, In1, Out0, Out1
  <2> HIDE DEF a, b, c
  <2>2. a[1] = 0 /\ b[1] = 0 /\ c[1] = 0
    BY <2>1
  <2>3. In1(lower, upper, first) + In1(lower, upper, second)
          >= Out1(lower, upper, first + second)
    <3>1. lower \in Nat /\ lower <= upper
      OBVIOUS
    <3>2. QED
      BY <3>1, Deposits1
  <2>4. a[2] + b[2] >= c[2]
    BY <2>1, <2>3
  <2>5. QED
    BY <2>2, <2>4
<1>4. QED
  BY <1>1, <1>2, <1>3

-----------------------------------------------------------------------------
(* A step of a swap with exact input *)

\* An amount below a rounded-up quotient is below the quotient.
LEMMA BelowRoundUp ==
    ASSUME NEW a \in Nat, NEW q \in Int, q < RoundUpQ96(a)
    PROVE  One * q < a
<1>1. RoundUpQ96(a) \in Nat /\ One * q \in Int
  BY RoundUp, OneAssumption
<1>2. CASE a <= One * q
  <2>1. RoundUpQ96(a) <= q
    BY <1>2, RoundUpLeq
  <2>2. QED
    BY <1>1, <2>1
<1>3. QED
  BY <1>1, <1>2

\* The next price when the second token is paid in.
NextUp(current, liquidity, amount) ==
    current + DivQ96(NumberToQ96(amount), NumberToQ96(liquidity))

\* A price that rises does so by no more than what is paid for.
LEMMA NextPriceUp ==
    ASSUME NEW current \in Nat, NEW liquidity \in Nat \ {0}, NEW amount \in Nat
    PROVE  \E x \in Nat :
             /\ NextUp(current, liquidity, amount) = current + x
             /\ liquidity * x <= One * amount
<1> DEFINE a == NumberToQ96(amount)
           l == NumberToQ96(liquidity)
           x == (a * One) \div l
<1>1. a = amount * One /\ l = liquidity * One /\ a * One \in Nat /\ l \in Nat \ {0}
  <2>1. a = amount * One /\ l = liquidity * One
    BY DEF NumberToQ96
  <2>2. liquidity * One \in Nat \ {0} /\ (amount * One) * One \in Nat
    BY OneAssumption
  <2>3. QED
    BY <2>1, <2>2
<1>2. NextUp(current, liquidity, amount) = current + x
  BY DEF NextUp, DivQ96
<1> HIDE DEF a, l
<1>3. x \in Nat /\ l * x <= a * One
  BY <1>1, DivBounds
<1> HIDE DEF x
<1>4. l * x = One * (liquidity * x) /\ a * One = One * (One * amount)
  BY <1>1, <1>3, OneAssumption
<1>5. liquidity * x \in Int /\ One * amount \in Int
  BY <1>3, OneAssumption
<1>6. liquidity * x <= One * amount
  BY <1>3, <1>4, <1>5, OneAssumption, CancelLeq
<1>7. QED
  BY <1>2, <1>3, <1>6

StepIn(current, target, liquidity, amount) == SwapWithin(current, target, liquidity, amount, TRUE)

\* A step towards a higher price, and its amounts.
LEMMA SwapWithinUp ==
    ASSUME NEW current, NEW target, NEW liquidity, NEW amount,
           ~(current >= target), ~(current > target)
    PROVE  LET step == StepIn(current, target, liquidity, amount)
               updated == IF amount >= In1(current, target, liquidity) THEN target
                          ELSE NextUp(current, liquidity, amount)
           IN  /\ step.price = updated
               /\ ~(current > updated) => step.amountIn = In1(current, updated, liquidity)
               /\ ~(current > updated) => step.amountOut = Out0(current, updated, liquidity)
<1>1. AmountNeeded(current, target, liquidity, TRUE) = In1(current, target, liquidity)
  BY Zenon DEF AmountNeeded, AmountIn, Amount1, In1
<1>2. ComputeNextPrice(current, liquidity, amount, current >= target, TRUE) = NextUp(current, liquidity, amount)
  BY Zenon DEF ComputeNextPrice, NextUp
<1>3. \A p : /\ ~(current > p) => AmountIn(current, p, liquidity, current >= target) = In1(current, p, liquidity)
             /\ ~(current > p) => AmountOut(current, p, liquidity, current >= target) = Out0(current, p, liquidity)
  BY Zenon DEF AmountIn, AmountOut, Amount0, Amount1, In1, Out0
<1>4. QED
  BY <1>1, <1>2, <1>3, Zenon DEF StepIn, SwapWithin

\* With the second token paid in, the price rises at most to the target and no more
\* is taken than is given.
LEMMA StepUp ==
    ASSUME NEW current \in Nat, NEW target \in Nat, current < target,
           NEW liquidity \in Nat \ {0}, NEW amount \in Nat
    PROVE  LET step == StepIn(current, target, liquidity, amount)
           IN  /\ step.price \in Nat /\ current <= step.price /\ step.price <= target
               /\ step.amountIn = In1(current, step.price, liquidity)
               /\ step.amountOut = Out0(current, step.price, liquidity)
               /\ step.amountIn <= amount
<1> DEFINE needed == In1(current, target, liquidity)
           next == NextUp(current, liquidity, amount)
           updated == IF amount >= needed THEN target ELSE next
           step == StepIn(current, target, liquidity, amount)
<1> SUFFICES /\ step.price \in Nat /\ current <= step.price /\ step.price <= target
             /\ step.amountIn = In1(current, step.price, liquidity)
             /\ step.amountOut = Out0(current, step.price, liquidity)
             /\ step.amountIn <= amount
  OBVIOUS
<1>1. ~(current >= target) /\ ~(current > target)
  OBVIOUS
<1>2. /\ step.price = updated
      /\ ~(current > updated) => step.amountIn = In1(current, updated, liquidity)
      /\ ~(current > updated) => step.amountOut = Out0(current, updated, liquidity)
  BY <1>1, SwapWithinUp
<1>3. liquidity * (target - current) \in Nat /\ needed = RoundUpQ96(liquidity * (target - current))
  <2>1. current <= target /\ liquidity \in Nat
    OBVIOUS
  <2>2. QED
    BY <2>1, Amount1Rounded
<1> HIDE DEF needed, next, step, updated
<1>4. needed \in Nat
  BY <1>3, RoundUp
<1>5. /\ updated \in Nat /\ current <= updated /\ updated <= target
      /\ In1(current, updated, liquidity) <= amount
  <2>1. CASE amount >= needed
    <3>1. updated = target
      BY <2>1 DEF updated
    <3>2. In1(current, target, liquidity) <= amount
      BY <2>1, <1>4 DEF needed
    <3>3. QED
      BY <3>1, <3>2
  <2>2. CASE ~(amount >= needed)
    <3>1. PICK x \in Nat : next = current + x /\ liquidity * x <= One * amount
      BY NextPriceUp DEF next
    <3>2. updated = current + x
      BY <2>2, <3>1 DEF updated
    <3>3. One * amount < liquidity * (target - current)
      BY <1>3, <1>4, <2>2, BelowRoundUp
    <3>4. liquidity * x < liquidity * (target - current)
      BY <3>1, <3>3, <1>3, OneAssumption
    <3>5. x < target - current
      BY <3>4, CancelLess
    <3>6. liquidity * x \in Nat /\ liquidity \in Nat
      OBVIOUS
    <3>7. current + x \in Nat /\ current <= current + x /\ (current + x) - current = x
      OBVIOUS
    <3>8. In1(current, current + x, liquidity) = RoundUpQ96(liquidity * x)
      BY <3>6, <3>7, Amount1Rounded
    <3>9. RoundUpQ96(liquidity * x) <= amount
      BY <3>1, <3>6, RoundUpLeq
    <3>10. In1(current, updated, liquidity) <= amount
      BY <3>2, <3>8, <3>9
    <3>11. updated \in Nat /\ current <= updated /\ updated <= target
      BY <3>2, <3>5
    <3>12. QED
      BY <3>10, <3>11
  <2>3. QED
    BY <2>1, <2>2
<1>6. ~(current > updated)
  BY <1>5
<1>7. QED
  BY <1>2, <1>5, <1>6

\* The next price when the first token is paid in.
NextDown(current, liquidity, amount) ==
    NextPrice0(current, NumberToQ96(liquidity),
               NumberToQ96(liquidity) + MulQ96(NumberToQ96(amount), current))

Fallen(current, target, liquidity, amount) ==
    IF amount >= In0(target, current, liquidity) THEN target
    ELSE NextDown(current, liquidity, amount)

\* A step towards a lower price, and its amounts.
LEMMA SwapWithinDown ==
    ASSUME NEW current \in Nat, NEW target \in Nat, target <= current,
           NEW liquidity \in Nat \ {0}, NEW amount \in Nat,
           Fallen(current, target, liquidity, amount) \in 0..current
    PROVE  StepIn(current, target, liquidity, amount) =
             [price |-> Fallen(current, target, liquidity, amount),
              amountIn |-> In0(Fallen(current, target, liquidity, amount), current, liquidity),
              amountOut |-> Out1(Fallen(current, target, liquidity, amount), current, liquidity)]
<1>1. current >= target
  OBVIOUS
<1>2. \A p \in Nat : p <= current =>
        /\ AmountIn(current, p, liquidity, current >= target) = In0(p, current, liquidity)
        /\ AmountOut(current, p, liquidity, current >= target) = Out1(p, current, liquidity)
  <2>1. TAKE p \in Nat
  <2>2. HAVE p <= current
  <2>3. CASE current > p
    BY <1>1, <2>3, Zenon DEF AmountIn, AmountOut, Amount0, Amount1, In0, Out1
  <2>4. CASE p = current
    BY <1>1, <2>4, Zenon DEF AmountIn, AmountOut, Amount0, Amount1, In0, Out1
  <2>5. QED
    BY <2>2, <2>3, <2>4
<1>3. AmountNeeded(current, target, liquidity, TRUE) = In0(target, current, liquidity)
  BY <1>2, Zenon DEF AmountNeeded
<1>4. ComputeNextPrice(current, liquidity, amount, current >= target, TRUE)
        = NextDown(current, liquidity, amount)
  BY <1>1, Zenon DEF ComputeNextPrice, NextDown
<1> DEFINE p == Fallen(current, target, liquidity, amount)
<1>5. p \in Nat /\ p <= current
  OBVIOUS
<1>6. /\ AmountIn(current, p, liquidity, current >= target) = In0(p, current, liquidity)
      /\ AmountOut(current, p, liquidity, current >= target) = Out1(p, current, liquidity)
  BY <1>2, <1>5
<1>7. (IF amount >= AmountNeeded(current, target, liquidity, TRUE) THEN target
       ELSE ComputeNextPrice(current, liquidity, amount, current >= target, TRUE)) = p
  BY <1>3, <1>4, Zenon DEF Fallen
<1> HIDE DEF p
<1>8. StepIn(current, target, liquidity, amount) =
        [price |-> p, amountIn |-> In0(p, current, liquidity), amountOut |-> Out1(p, current, liquidity)]
  BY <1>6, <1>7, Zenon DEF StepIn, SwapWithin
<1>9. QED
  BY <1>8 DEF p

\* The price falls, but for the roundings, by the share of the amount paid in among
\* the first token of the range.
LEMMA NextPriceDown ==
    ASSUME NEW current \in Nat, NEW liquidity \in Nat \ {0}, NEW amount \in Nat
    PROVE  \E x \in Nat :
             /\ NextDown(current, liquidity, amount) = RoundUpQ96(x)
             /\ (liquidity * One + amount * current) * x <= One * (One * (liquidity * current))
             /\ One * (One * (liquidity * current))
                  < (liquidity * One + amount * current) * x + (liquidity * One + amount * current)
<1> DEFINE l == NumberToQ96(liquidity)
           a == NumberToQ96(amount)
           d == l + MulQ96(a, current)
           y == l * current * One
           x == y \div d
<1>1. l = liquidity * One /\ a = amount * One
  BY DEF NumberToQ96
<1>2. MulQ96(a, current) = amount * current
  <2>1. amount * current \in Nat
    OBVIOUS
  <2>2. a * current = One * (amount * current)
    BY <1>1, OneAssumption
  <2>3. QED
    BY <2>1, <2>2, OneAssumption, DivExact DEF MulQ96
<1>3. d = liquidity * One + amount * current /\ d \in Nat \ {0}
  <2>1. liquidity * One \in Nat \ {0} /\ amount * current \in Nat
    BY OneAssumption
  <2>2. QED
    BY <1>1, <1>2, <2>1
<1>4. NextDown(current, liquidity, amount) = RoundUpQ96(x)
  BY DEF NextDown, NextPrice0, MulDivRoundUpQ96
<1>5. y = One * (One * (liquidity * current)) /\ y \in Nat
  <2>1. liquidity * current \in Nat
    OBVIOUS
  <2>2. y = (liquidity * One) * current * One
    BY <1>1
  <2>3. (liquidity * One) * current * One = One * (One * (liquidity * current))
    BY OneAssumption
  <2>4. One * (liquidity * current) \in Nat
    BY <2>1, OneAssumption
  <2>5. One * (One * (liquidity * current)) \in Nat
    BY <2>4, OneAssumption
  <2>6. QED
    BY <2>2, <2>3, <2>5
<1> HIDE DEF l, a, d, y
<1>6. x \in Nat /\ d * x <= y /\ y < d * x + d
  BY <1>3, <1>5, DivBounds
<1> HIDE DEF x
<1>7. QED
  BY <1>3, <1>4, <1>5, <1>6

\* The price never falls below the target when the amount does not reach it, nor
\* does it rise.
LEMMA NextDownWithin ==
    ASSUME NEW current \in Nat, NEW target \in Nat \ {0}, target <= current,
           NEW liquidity \in Nat \ {0}, NEW amount \in Nat,
           amount < In0(target, current, liquidity)
    PROVE  /\ NextDown(current, liquidity, amount) \in Nat
           /\ target <= NextDown(current, liquidity, amount)
           /\ NextDown(current, liquidity, amount) <= current
<1> DEFINE d == liquidity * One + amount * current
           p == liquidity * current
           s == Share0(target, current, liquidity)
           q == Quotient0(target, current, liquidity)
<1>1. PICK x \in Nat : /\ NextDown(current, liquidity, amount) = RoundUpQ96(x)
                       /\ d * x <= One * (One * p)
                       /\ One * (One * p) < d * x + d
  BY NextPriceDown
<1>2. current \in Nat \ {0} /\ liquidity \in Nat
  OBVIOUS
<1>3. s \in Nat /\ current * s <= One * (liquidity * (current - target))
  BY <1>2, Share0Bounds
<1>4. q \in Nat /\ target * q <= One * s
  BY <1>2, Quotient0Bounds
<1>5. In0(target, current, liquidity) = RoundUpQ96(q)
  BY Amount0Rounded
<1>6. p \in Nat /\ p = liquidity * current
  OBVIOUS
<1>7. liquidity * One \in Nat \ {0} /\ amount * current \in Nat
  BY OneAssumption
<1>8. d = liquidity * One + amount * current /\ d \in Nat \ {0}
  BY <1>7
<1> HIDE DEF s, q, p, d
<1>9. One * amount < q
  BY <1>4, <1>5, BelowRoundUp
<1>10. RoundUpQ96(x) \in Nat /\ x <= One * RoundUpQ96(x)
  BY RoundUp
<1>11. RoundUpQ96(x) <= current
  <2>1. One * (One * p) <= d * (One * current)
    <3>1. One * (One * p) = (liquidity * One) * (One * current)
      BY <1>6, OneAssumption
    <3>2. One * current \in Nat
      BY OneAssumption
    <3>3. (liquidity * One) * (One * current) <= d * (One * current)
      BY <1>7, <1>8, <3>2
    <3>4. QED
      BY <3>1, <3>3
  <2>2. d * x \in Int /\ One * (One * p) \in Int /\ d * (One * current) \in Int /\ One * current \in Int
    BY <1>6, <1>8, OneAssumption
  <2>3. d * x <= d * (One * current)
    BY <2>1, <2>2, <1>1
  <2>4. x <= One * current
    BY <2>2, <2>3, <1>8, CancelLeq
  <2>5. QED
    BY <2>4, RoundUpLeq
<1>12. target <= RoundUpQ96(x)
  \* The range holds at least the amount, so its price is above the target.
  <2>1. (One * amount) * (target * current) <= One * (One * (liquidity * (current - target)))
    <3>1. target * (One * amount) <= target * q
      BY <1>4, <1>9, OneAssumption
    <3>2. target * (One * amount) <= One * s
      BY <3>1, <1>3, <1>4, OneAssumption
    <3>3. current * (target * (One * amount)) <= current * (One * s)
      BY <3>2, <1>3, OneAssumption
    <3>4. current * (target * (One * amount)) = (One * amount) * (target * current)
      BY OneAssumption
    <3>5. current * (One * s) = One * (current * s)
      BY <1>3, OneAssumption
    <3>6. One * (current * s) <= One * (One * (liquidity * (current - target)))
      BY <1>3, OneAssumption
    <3>7. /\ (One * amount) * (target * current) \in Int /\ One * (current * s) \in Int
          /\ One * (One * (liquidity * (current - target))) \in Int
      BY <1>3, OneAssumption
    <3>8. QED
      BY <3>3, <3>4, <3>5, <3>6, <3>7
  <2>2. One * (One * (liquidity * (current - target)))
          = One * (One * p) - One * (One * (liquidity * target))
    BY <1>6, OneAssumption
  <2>3. d * (One * target) = One * (One * (liquidity * target)) + (One * amount) * (target * current)
    BY <1>8, OneAssumption
  <2>4. /\ One * (One * p) \in Nat /\ d * (One * target) \in Int /\ One * target \in Int
        /\ (One * amount) * (target * current) \in Int /\ One * (One * (liquidity * target)) \in Int
    <3>1. One * p \in Nat
      BY <1>6, OneAssumption
    <3>2. QED
      BY <3>1, <1>8, OneAssumption
  <2>5. d * (One * target) <= One * (One * p)
    BY <2>1, <2>2, <2>3, <2>4
  <2>6. d * (One * target) < d * (x + 1)
    <3>1. d * (x + 1) = d * x + d /\ d * x \in Int
      BY <1>8
    <3>2. QED
      BY <3>1, <2>4, <2>5, <1>1, <1>8
  <2>7. One * target < x + 1
    BY <2>4, <2>6, <1>8, CancelLess
  <2>8. One * target <= One * RoundUpQ96(x)
    BY <2>7, <2>4, <1>10, OneAssumption
  <2>9. QED
    BY <2>8, <1>10, OneAssumption, CancelLeq
<1>13. QED
  BY <1>1, <1>10, <1>11, <1>12

\* The next price is rounded twice.  What that costs is less than one token as long as
\* the liquidity and the amount are small beside the price.
LEMMA NextDownCost ==
    ASSUME NEW current \in Nat, NEW target \in Nat \ {0}, target <= current,
           NEW liquidity \in Nat \ {0}, NEW amount \in Nat,
           amount < In0(target, current, liquidity),
           liquidity * One + amount * current <= One * current
    PROVE  In0(NextDown(current, liquidity, amount), current, liquidity) <= amount
<1> DEFINE d == liquidity * One + amount * current
           p == liquidity * current
           n == NextDown(current, liquidity, amount)
           s == Share0(n, current, liquidity)
           q == Quotient0(n, current, liquidity)
<1>1. PICK x \in Nat : /\ n = RoundUpQ96(x)
                       /\ d * x <= One * (One * p)
                       /\ One * (One * p) < d * x + d
  BY NextPriceDown
<1>2. n \in Nat \ {0} /\ n <= current
  BY NextDownWithin
<1>3. current \in Nat \ {0} /\ liquidity \in Nat
  OBVIOUS
<1>4. p \in Nat /\ p = liquidity * current
  OBVIOUS
<1>5. d = liquidity * One + amount * current /\ d \in Nat /\ d <= One * current
  BY OneAssumption
<1> HIDE DEF n, p, d
<1>6. s \in Nat /\ current * s <= One * (liquidity * (current - n))
  BY <1>2, <1>3, Share0Bounds
<1>7. q \in Nat /\ n * q <= One * s
  BY <1>2, <1>3, Quotient0Bounds
<1>8. In0(n, current, liquidity) = RoundUpQ96(q)
  BY Amount0Rounded
<1> HIDE DEF s, q
<1>9. x <= One * n
  BY <1>1, RoundUp
<1>10. s < n * amount + 1
  <2>1. One * (current * s) <= One * (One * (liquidity * (current - n)))
    BY <1>2, <1>6, OneAssumption
  <2>2. One * (One * (liquidity * (current - n))) = One * (One * p) - One * (One * (liquidity * n))
    BY <1>2, <1>4, OneAssumption
  <2>3. d * x <= d * (One * n)
    BY <1>2, <1>5, <1>9, OneAssumption
  <2>4. d * (One * n) = One * (One * (liquidity * n)) + One * (current * (n * amount))
    BY <1>2, <1>5, OneAssumption
  <2>5. One * (current * (n * amount + 1)) = One * (current * (n * amount)) + One * current
    BY <1>2, OneAssumption
  <2>6. /\ One * (current * s) \in Int /\ One * (One * p) \in Int
        /\ One * (One * (liquidity * n)) \in Int /\ One * (current * (n * amount)) \in Int
        /\ One * current \in Int /\ d * x \in Int /\ d * (One * n) \in Int
    <3>1. One * p \in Int /\ liquidity * n \in Int /\ current * (n * amount) \in Int /\ current * s \in Int
      BY <1>2, <1>4, <1>6, OneAssumption
    <3>2. QED
      BY <3>1, <1>2, <1>5, OneAssumption
  <2>7. One * (current * s) < One * (current * (n * amount + 1))
    BY <2>1, <2>2, <2>3, <2>4, <2>5, <2>6, <1>1, <1>5
  <2>8. n * amount + 1 \in Int /\ current * s \in Int /\ current * (n * amount + 1) \in Int
    BY <1>2, <1>6
  <2>9. current * s < current * (n * amount + 1)
    BY <2>7, <2>8, OneAssumption, CancelLess
  <2>10. QED
    BY <2>8, <2>9, <1>6, CancelLess
<1>11. q <= One * amount
  <2>1. n * amount \in Nat
    BY <1>2
  <2>2. s <= n * amount
    BY <1>6, <1>10, <2>1
  <2>3. One * s <= One * (n * amount)
    BY <1>6, <2>1, <2>2, OneAssumption
  <2>4. One * (n * amount) = n * (One * amount)
    BY <1>2, OneAssumption
  <2>5. n * q \in Int /\ One * s \in Int /\ n * (One * amount) \in Int /\ One * amount \in Int
    BY <1>2, <1>6, <1>7, OneAssumption
  <2>6. n * q <= n * (One * amount)
    BY <2>3, <2>4, <2>5, <1>7
  <2>7. QED
    BY <2>5, <2>6, <1>2, <1>7, CancelLeq
<1>12. RoundUpQ96(q) <= amount
  BY <1>7, <1>11, RoundUpLeq
<1>13. QED
  BY <1>8, <1>12 DEF n

\* What a deposit takes of the first token is a natural number.
LEMMA In0Nat ==
    ASSUME NEW lower \in Nat \ {0}, NEW upper \in Nat, lower <= upper, NEW liquidity \in Nat
    PROVE  In0(lower, upper, liquidity) \in Nat
<1>1. Quotient0(lower, upper, liquidity) \in Nat
  BY Quotient0Bounds
<1>2. QED
  BY <1>1, RoundUp, Amount0Rounded

\* With the first token paid in, the price falls at most to the target.
LEMMA StepDown ==
    ASSUME NEW current \in Nat, NEW target \in Nat \ {0}, target <= current,
           NEW liquidity \in Nat \ {0}, NEW amount \in Nat
    PROVE  LET step == StepIn(current, target, liquidity, amount)
           IN  /\ step.price \in Nat /\ target <= step.price /\ step.price <= current
               /\ step.amountIn = In0(step.price, current, liquidity)
               /\ step.amountOut = Out1(step.price, current, liquidity)
               /\ liquidity * One + amount * current <= One * current => step.amountIn <= amount
<1> DEFINE needed == In0(target, current, liquidity)
           next == NextDown(current, liquidity, amount)
           updated == Fallen(current, target, liquidity, amount)
           step == StepIn(current, target, liquidity, amount)
<1> SUFFICES /\ step.price \in Nat /\ target <= step.price /\ step.price <= current
             /\ step.amountIn = In0(step.price, current, liquidity)
             /\ step.amountOut = Out1(step.price, current, liquidity)
             /\ liquidity * One + amount * current <= One * current => step.amountIn <= amount
  OBVIOUS
<1>1. needed \in Nat
  BY In0Nat
<1> HIDE DEF updated, step
<1>2. /\ updated \in Nat /\ target <= updated /\ updated <= current
      /\ liquidity * One + amount * current <= One * current =>
           In0(updated, current, liquidity) <= amount
  <2>1. CASE amount >= needed
    <3>1. updated = target
      BY <2>1 DEF updated, Fallen
    <3>2. In0(target, current, liquidity) <= amount
      BY <2>1, <1>1
    <3>3. QED
      BY <3>1, <3>2
  <2>2. CASE ~(amount >= needed)
    <3>1. updated = next
      BY <2>2 DEF updated, Fallen
    <3>2. amount < In0(target, current, liquidity)
      BY <2>2, <1>1
    <3>3. next \in Nat /\ target <= next /\ next <= current
      BY <3>2, NextDownWithin
    <3>4. liquidity * One + amount * current <= One * current => In0(next, current, liquidity) <= amount
      BY <3>2, NextDownCost
    <3>5. QED
      BY <3>1, <3>3, <3>4
  <2>3. QED
    BY <2>1, <2>2
<1>3. target \in Nat /\ Fallen(current, target, liquidity, amount) \in 0..current
  BY <1>2 DEF updated
<1>4. step = [price |-> updated, amountIn |-> In0(updated, current, liquidity),
              amountOut |-> Out1(updated, current, liquidity)]
  BY <1>3, SwapWithinDown DEF updated, step
<1> HIDE DEF step
<1>5. QED
  BY <1>2, <1>4

-----------------------------------------------------------------------------
(* Swapping back *)

\* What a withdrawal gives is two natural numbers.
LEMMA OutNat ==
    ASSUME NEW lower \in Nat \ {0}, NEW upper \in Nat, lower <= upper, NEW liquidity \in Nat
    PROVE  Out0(lower, upper, liquidity) \in Nat /\ Out1(lower, upper, liquidity) \in Nat
<1>1. Quotient0(lower, upper, liquidity) \in Nat
  BY Quotient0Bounds
<1>2. Out0(lower, upper, liquidity) = RoundDownQ96(Quotient0(lower, upper, liquidity))
  BY Amount0Rounded
<1>3. lower \in Nat
  OBVIOUS
<1>4. /\ liquidity * (upper - lower) \in Nat
      /\ Out1(lower, upper, liquidity) = RoundDownQ96(liquidity * (upper - lower))
  BY <1>3, Amount1Rounded
<1>5. QED
  BY <1>1, <1>2, <1>4, RoundDown

\* A part of a range gives no more of the first token than the whole range takes.
LEMMA Part0 ==
    ASSUME NEW lower \in Nat \ {0}, NEW middle \in Nat, NEW upper \in Nat,
           lower <= middle, middle <= upper, NEW liquidity \in Nat
    PROVE  Out0(lower, middle, liquidity) <= In0(lower, upper, liquidity)
<1> DEFINE s1 == Share0(lower, middle, liquidity)
           s2 == Share0(lower, upper, liquidity)
           q1 == Quotient0(lower, middle, liquidity)
           q2 == Quotient0(lower, upper, liquidity)
           out == Out0(lower, middle, liquidity)
           in == In0(lower, upper, liquidity)
<1>1. middle \in Nat \ {0} /\ upper \in Nat \ {0} /\ lower <= upper
  OBVIOUS
<1>2. s1 \in Nat /\ middle * s1 <= One * (liquidity * (middle - lower))
  BY <1>1, Share0Bounds
<1>3. s2 \in Nat /\ One * (liquidity * (upper - lower)) < upper * s2 + upper
  BY <1>1, Share0Bounds
<1>4. q1 \in Nat /\ lower * q1 <= One * s1
  BY Quotient0Bounds
<1>5. q2 \in Nat /\ One * s2 < lower * q2 + lower
  BY <1>1, Quotient0Bounds
<1>6. out = RoundDownQ96(q1)
  BY Amount0Rounded
<1>7. in = RoundUpQ96(q2)
  BY Amount0Rounded
<1> HIDE DEF s1, s2, q1, q2, out, in
<1>8. out \in Nat /\ One * out <= q1
  BY <1>4, <1>6, RoundDown
<1>9. in \in Nat /\ q2 <= One * in
  BY <1>5, <1>7, RoundUp
<1>10. s1 <= s2
  <2>1. upper * (middle * s1) <= upper * (One * (liquidity * (middle - lower)))
    <3>1. middle * s1 \in Int /\ One * (liquidity * (middle - lower)) \in Int
      BY <1>2, OneAssumption
    <3>2. QED
      BY <1>2, <3>1, ScaleLeq
  <2>2. One * liquidity \in Nat
    BY OneAssumption
  <2>3. upper * (One * (liquidity * (middle - lower)))
          = (One * liquidity) * (upper * middle - upper * lower)
    BY OneAssumption
  <2>4. middle * lower <= upper * lower
    OBVIOUS
  <2>5. upper * middle - upper * lower <= upper * middle - middle * lower
    BY <2>4
  <2>6. (One * liquidity) * (upper * middle - upper * lower)
          <= (One * liquidity) * (upper * middle - middle * lower)
    BY <2>2, <2>5, ScaleLeq
  <2>7. (One * liquidity) * (upper * middle - middle * lower)
          = middle * (One * (liquidity * (upper - lower)))
    BY OneAssumption
  <2>8. upper * (middle * s1) = middle * (upper * s1)
    BY <1>2
  <2>9. One * (liquidity * (upper - lower)) \in Int /\ upper * s1 \in Int /\ upper * s2 \in Int
    BY <1>1, <1>2, <1>3, OneAssumption
  <2>10. middle * (upper * s1) <= middle * (One * (liquidity * (upper - lower)))
    <3>1. /\ (One * liquidity) * (upper * middle - upper * lower) \in Int
          /\ (One * liquidity) * (upper * middle - middle * lower) \in Int
          /\ upper * (middle * s1) \in Int
      BY <2>2, <1>2
    <3>2. QED
      BY <3>1, <2>1, <2>3, <2>6, <2>7, <2>8
  <2>11. upper * s1 <= One * (liquidity * (upper - lower))
    BY <2>9, <2>10, <1>1, CancelLeq
  <2>12. upper * s1 < upper * (s2 + 1)
    <3>1. upper * (s2 + 1) = upper * s2 + upper
      BY <1>3
    <3>2. QED
      BY <3>1, <2>9, <2>11, <1>3
  <2>13. s1 < s2 + 1
    BY <2>12, <1>1, <1>2, <1>3, CancelLess
  <2>14. QED
    BY <2>13, <1>2, <1>3
<1>11. q1 <= q2
  <2>1. One * s1 <= One * s2
    BY <1>2, <1>3, <1>10, OneAssumption
  <2>2. lower * (q2 + 1) = lower * q2 + lower
    BY <1>5
  <2>3. One * s1 \in Int /\ One * s2 \in Int /\ lower * q1 \in Int /\ lower * q2 \in Int
    BY <1>2, <1>3, <1>4, <1>5, OneAssumption
  <2>4. lower * q1 < lower * (q2 + 1)
    BY <2>1, <2>2, <2>3, <1>4, <1>5
  <2>5. q1 < q2 + 1
    BY <2>4, <1>4, <1>5, CancelLess
  <2>6. QED
    BY <2>5, <1>4, <1>5
<1>12. One * out <= One * in
  BY <1>4, <1>5, <1>8, <1>9, <1>11, OneAssumption
<1>13. out <= in
  BY <1>8, <1>9, <1>12, OneAssumption, CancelLeq
<1>14. QED
  BY <1>13 DEF out, in

\* The same of the second token.
LEMMA Part1 ==
    ASSUME NEW lower \in Nat, NEW middle \in Nat, NEW upper \in Nat,
           lower <= middle, middle <= upper, NEW liquidity \in Nat
    PROVE  Out1(middle, upper, liquidity) <= In1(lower, upper, liquidity)
<1> DEFINE out == Out1(middle, upper, liquidity)
           in == In1(lower, upper, liquidity)
           a == liquidity * (upper - middle)
           b == liquidity * (upper - lower)
<1>1. a \in Nat /\ out = RoundDownQ96(a)
  BY Amount1Rounded
<1>2. lower <= upper
  OBVIOUS
<1>3. b \in Nat /\ in = RoundUpQ96(b)
  BY <1>2, Amount1Rounded
<1>4. a <= b
  OBVIOUS
<1> HIDE DEF a, b, out, in
<1>5. out \in Nat /\ One * out <= a
  BY <1>1, RoundDown
<1>6. in \in Nat /\ b <= One * in
  BY <1>3, RoundUp
<1>7. One * out <= One * in
  BY <1>1, <1>3, <1>4, <1>5, <1>6, OneAssumption
<1>8. out <= in
  BY <1>5, <1>6, <1>7, OneAssumption, CancelLeq
<1>9. QED
  BY <1>8 DEF out, in

\* Whoever swaps the output of a step back gets no more than was paid in, at any
\* price, liquidity and amount (swapWithin).
THEOREM NoProfit ==
    ASSUME NEW current \in Nat \ {0}, NEW target \in Nat \ {0},
           NEW liquidity \in Nat \ {0}, NEW amount \in Nat
    PROVE  LET step == SwapWithin(current, target, liquidity, amount, TRUE)
               back == SwapWithin(step.price, current, liquidity, step.amountOut, TRUE)
           IN  back.amountOut <= step.amountIn
<1> DEFINE step == StepIn(current, target, liquidity, amount)
           price == step.price
           out == step.amountOut
           back == StepIn(price, current, liquidity, out)
<1> SUFFICES back.amountOut <= step.amountIn
  BY DEF StepIn
<1>1. current \in Nat /\ target \in Nat /\ liquidity \in Nat
  OBVIOUS
<1>2. CASE current < target
  <2>1. /\ price \in Nat /\ current <= price
        /\ step.amountIn = In1(current, price, liquidity)
        /\ out = Out0(current, price, liquidity)
    BY <1>1, <1>2, StepUp
  <2> HIDE DEF price, out, step
  <2>2. out \in Nat
    BY <2>1, <1>1, OutNat
  <2>3. /\ back.price \in Nat /\ current <= back.price /\ back.price <= price
        /\ back.amountOut = Out1(back.price, price, liquidity)
    BY <2>1, <2>2, StepDown
  <2> HIDE DEF back
  <2>4. Out1(back.price, price, liquidity) <= In1(current, price, liquidity)
    BY <2>1, <2>3, <1>1, Part1
  <2>5. QED
    BY <2>1, <2>3, <2>4
<1>3. CASE ~(current < target)
  <2>1. /\ price \in Nat /\ target <= price /\ price <= current
        /\ step.amountIn = In0(price, current, liquidity)
        /\ out = Out1(price, current, liquidity)
    BY <1>1, <1>3, StepDown
  <2> HIDE DEF price, out, step
  <2>2. price \in Nat \ {0}
    BY <2>1
  <2>3. out \in Nat
    BY <2>1, <2>2, <1>1, OutNat
  <2>4. CASE price < current
    <3>1. /\ back.price \in Nat /\ price <= back.price /\ back.price <= current
          /\ back.amountOut = Out0(price, back.price, liquidity)
      BY <2>1, <2>3, <2>4, <1>1, StepUp
    <3> HIDE DEF back
    <3>2. Out0(price, back.price, liquidity) <= In0(price, current, liquidity)
      BY <2>2, <3>1, <1>1, Part0
    <3>3. QED
      BY <2>1, <3>1, <3>2
  <2>5. CASE price = current
    <3>1. /\ back.price \in Nat /\ current <= back.price /\ back.price <= price
          /\ back.amountOut = Out1(back.price, price, liquidity)
      <4>1. current <= price
        BY <2>5
      <4>2. QED
        BY <2>1, <2>3, <4>1, StepDown
    <3> HIDE DEF back
    <3>2. back.price = current
      BY <3>1, <2>5
    <3>3. back.amountOut = Out1(current, current, liquidity)
      BY <3>1, <3>2, <2>5
    <3>4. liquidity * (current - current) = 0
      OBVIOUS
    <3>5. Out1(current, current, liquidity) = RoundDownQ96(0)
      BY <3>4, <1>1, Amount1Rounded
    <3>6. RoundDownQ96(0) = 0
      BY OneAssumption DEF RoundDownQ96
    <3>7. back.amountOut = 0
      BY <3>3, <3>5, <3>6
    <3>8. step.amountIn \in Nat
      BY <2>1, <2>2, <1>1, In0Nat
    <3>9. QED
      BY <3>7, <3>8
  <2>6. QED
    BY <2>1, <2>4, <2>5
<1>4. QED
  BY <1>2, <1>3

-----------------------------------------------------------------------------
(* The table of prices *)

\* In an ascending table a higher tick has a higher price.
LEMMA Ascending ==
    ASSUME TableAscends, NEW t \in Ticks, NEW u \in Ticks, t < u
    PROVE  TickToPrice(t) < TickToPrice(u)
<1> USE TickAssumption
<1> DEFINE S == {n \in Nat : t + n + 1 <= MaxTick => TickToPrice(t) < TickToPrice(t + n + 1)}
<1>1. MaxTick \in Int
  OBVIOUS
<1>2. 0 \in S
  BY <1>1 DEF TableAscends, Ticks
<1>3. ASSUME NEW n \in S PROVE n + 1 \in S
  <2>1. SUFFICES ASSUME t + (n + 1) + 1 <= MaxTick
                 PROVE  TickToPrice(t) < TickToPrice(t + (n + 1) + 1)
    OBVIOUS
  <2> DEFINE v == t + n + 1
  <2>2. v \in Ticks /\ v < MaxTick /\ v + 1 \in Ticks /\ t + (n + 1) + 1 = v + 1
    BY <2>1, <1>1 DEF Ticks
  <2>3. TickToPrice(t) < TickToPrice(v)
    BY <2>2, <1>1 DEF Ticks
  <2> HIDE DEF v
  <2>4. TickToPrice(v) < TickToPrice(v + 1)
    BY <2>2 DEF TableAscends
  <2>5. TickToPrice(t) \in Nat /\ TickToPrice(v) \in Nat /\ TickToPrice(v + 1) \in Nat
    BY <2>2 DEF TableAscends
  <2>6. QED
    BY <2>2, <2>3, <2>4, <2>5
<1>4. S = Nat
  <2> HIDE DEF S
  <2>1. S \subseteq Nat
    BY DEF S
  <2>2. QED
    BY <1>2, <1>3, <2>1, SetOfAllNaturals
<1> DEFINE n == u - t - 1
<1>5. n \in Nat /\ t + n + 1 = u /\ u <= MaxTick
  BY <1>1 DEF Ticks
<1> HIDE DEF n
<1>6. n \in S
  BY <1>4, <1>5
<1>7. QED
  BY <1>5, <1>6

-----------------------------------------------------------------------------
(* The square root *)

IsRoot(r, value) == r \in Nat /\ r * r <= value /\ value < (r + 1) * (r + 1)

\* Every natural number has a floor of its square root.
LEMMA RootExists == \A value \in Nat : \E r \in Nat : IsRoot(r, value)
<1> DEFINE S == {n \in Nat : \E r \in Nat : IsRoot(r, n)}
<1>1. 0 \in S
  <2>1. IsRoot(0, 0)
    BY DEF IsRoot
  <2>2. QED
    BY <2>1
<1>2. ASSUME NEW n \in S PROVE n + 1 \in S
  <2>1. PICK r \in Nat : IsRoot(r, n)
    OBVIOUS
  <2>2. CASE n + 1 < (r + 1) * (r + 1)
    <3>1. IsRoot(r, n + 1)
      BY <2>1, <2>2 DEF IsRoot
    <3>2. QED
      BY <3>1
  <2>3. CASE ~(n + 1 < (r + 1) * (r + 1))
    <3>1. n + 1 = (r + 1) * (r + 1)
      BY <2>1, <2>3 DEF IsRoot
    <3>2. IsRoot(r + 1, n + 1)
      BY <3>1, <2>1 DEF IsRoot
    <3>3. QED
      BY <3>2
  <2>4. QED
    BY <2>2, <2>3
<1>3. S = Nat
  <2> HIDE DEF S
  <2>1. S \subseteq Nat
    BY DEF S
  <2>2. QED
    BY <1>1, <1>2, <2>1, SetOfAllNaturals
<1>4. QED
  BY <1>3

\* It has only one.
LEMMA RootUnique ==
    ASSUME NEW value \in Nat, NEW r, NEW q, IsRoot(r, value), IsRoot(q, value)
    PROVE  r = q
<1>1. /\ r \in Nat /\ q \in Nat
      /\ r * r < (q + 1) * (q + 1)
      /\ q * q < (r + 1) * (r + 1)
  BY DEF IsRoot
<1>2. r < q + 1 /\ q < r + 1
  BY <1>1
<1>3. QED
  BY <1>1, <1>2

\* FloorSqrt is this floor.
LEMMA FloorSqrtIsRoot ==
    ASSUME NEW value \in Nat
    PROVE  IsRoot(FloorSqrt(value), value)
<1>1. PICK r \in Nat : IsRoot(r, value)
  BY RootExists
<1>2. r <= r * r
  OBVIOUS
<1>3. r \in 0..value /\ r * r <= value /\ value < (r + 1) * (r + 1)
  BY <1>1, <1>2 DEF IsRoot
<1>4. /\ FloorSqrt(value) \in 0..value
      /\ FloorSqrt(value) * FloorSqrt(value) <= value
      /\ value < (FloorSqrt(value) + 1) * (FloorSqrt(value) + 1)
  BY <1>3 DEF FloorSqrt
<1>5. QED
  BY <1>4 DEF IsRoot

\* A turn of Newton's iteration, from the value z on.
Turned(value, z) == IF z = value THEN (value \div 2) + 1 ELSE ((value \div z) + z) \div 2

\* Halving a number rounds down.
LEMMA Half == ASSUME NEW n \in Nat PROVE n \div 2 \in Nat /\ 2 * (n \div 2) <= n /\ n < 2 * (n \div 2) + 2
OBVIOUS

\* A turn never falls below the root, and goes down exactly above the root.
LEMMA TurnedBounds ==
    ASSUME NEW value \in Nat, value > 2, NEW r, IsRoot(r, value), NEW z \in 1..value
    PROVE  /\ Turned(value, z) \in Nat
           /\ r <= Turned(value, z)
           /\ z <= r => z <= Turned(value, z)
           /\ r < z => Turned(value, z) < z
<1>1. r \in Nat /\ r * r <= value /\ value < (r + 1) * (r + 1)
  BY DEF IsRoot
<1>2. CASE z = value
  <2> DEFINE h == value \div 2
  <2>1. h \in Nat /\ 2 * h <= value /\ value < 2 * h + 2
    BY Half
  <2> HIDE DEF h
  <2>2. Turned(value, z) = h + 1
    BY <1>2 DEF Turned, h
  <2>3. h + 1 < value
    BY <2>1
  <2>4. r <= h + 1
    <3>1. SUFFICES ASSUME r >= h + 2 PROVE FALSE
      BY <2>1, <1>1
    <3>2. r * r >= (h + 2) * (h + 2)
      BY <3>1, <2>1, <1>1
    <3>3. (h + 2) * (h + 2) >= 2 * h + 2
      BY <2>1
    <3>4. r * r \in Int /\ (h + 2) * (h + 2) \in Int
      BY <1>1, <2>1
    <3>5. QED
      BY <3>2, <3>3, <3>4, <1>1, <2>1
  <2>5. r < value
    <3>1. r < 2 => r < value
      BY <1>1
    <3>2. r >= 2 => r * r >= 2 * r
      BY <1>1
    <3>3. r * r \in Int
      BY <1>1
    <3>4. QED
      BY <3>1, <3>2, <3>3, <1>1
  <2>6. QED
    BY <2>1, <2>2, <2>3, <2>4, <2>5, <1>2, <1>1
<1>3. CASE z # value
  <2> DEFINE k == value \div z
             h == (k + z) \div 2
  <2>1. z \in Nat \ {0}
    OBVIOUS
  <2>2. k \in Nat /\ z * k <= value /\ value < z * k + z
    BY <2>1, DivBounds
  <2> HIDE DEF k
  <2>3. h \in Nat /\ 2 * h <= k + z /\ k + z < 2 * h + 2
    BY <2>1, <2>2, Half
  <2>4. Turned(value, z) = h
    BY <1>3 DEF Turned, k
  <2> HIDE DEF h
  \* The arithmetic mean is not below the geometric one.
  <2>5. 2 * r <= k + z
    <3>1. SUFFICES ASSUME k + z < 2 * r PROVE FALSE
      BY <2>1, <2>2, <1>1
    <3>2. k + 1 <= 2 * r - z
      BY <3>1, <2>1, <2>2, <1>1
    <3>3. z * (k + 1) <= z * (2 * r - z)
      BY <3>2, <2>1, <2>2, <1>1, ScaleLeq
    <3>4. z * (2 * r - z) = r * r - (r - z) * (r - z)
      BY <2>1, <1>1
    <3>5. (r - z) * (r - z) >= 0
      BY <2>1, <1>1
    <3>6. z * (k + 1) = z * k + z
      BY <2>1, <2>2
    <3>7. r * r \in Int /\ z * k \in Int /\ (r - z) * (r - z) \in Int
      BY <1>1, <2>1, <2>2
    <3>8. QED
      BY <3>3, <3>4, <3>5, <3>6, <3>7, <1>1, <2>1, <2>2
  <2>6. r <= h
    BY <2>1, <2>2, <2>3, <2>5, <1>1
  <2>7. z <= r => z <= h
    <3>1. SUFFICES ASSUME z <= r PROVE z <= h
      OBVIOUS
    <3>2. z * z <= r * r
      BY <3>1, <2>1, <1>1
    <3>3. z * z <= value
      BY <3>2, <1>1, <2>1
    <3>4. z <= k
      BY <3>3, <2>1, DivGeq DEF k
    <3>5. QED
      BY <3>4, <2>1, <2>2, <2>3
  <2>8. r < z => h < z
    <3>1. SUFFICES ASSUME r < z, z <= h PROVE FALSE
      BY <2>1, <2>3, <1>1
    <3>2. z <= k
      BY <3>1, <2>1, <2>2, <2>3
    <3>3. z * z <= z * k
      BY <3>2, <2>1, <2>2
    <3>4. (r + 1) * (r + 1) <= z * z
      BY <3>1, <2>1, <1>1
    <3>5. z * z \in Int /\ z * k \in Int /\ (r + 1) * (r + 1) \in Int
      BY <2>1, <2>2, <1>1
    <3>6. QED
      BY <3>3, <3>4, <3>5, <1>1, <2>2
  <2>9. QED
    BY <2>3, <2>4, <2>6, <2>7, <2>8
<1>4. QED
  BY <1>2, <1>3

\* What the iteration computes from each value on, as a function of that value.
Iterates(f, value) ==
    f = [z \in 1..value |-> IF Turned(value, z) < z THEN f[Turned(value, z)] ELSE z]

\* The iteration of sqrt has its function of values.
LEMMA IterationExists ==
    ASSUME NEW value \in Nat, value > 2
    PROVE  \E f : Iterates(f, value)
<1> DEFINE r == FloorSqrt(value)
           f == [z \in 1..value |-> IF z < r THEN z ELSE r]
<1>1. IsRoot(r, value)
  BY FloorSqrtIsRoot
<1>2. r \in Nat /\ r >= 1
  BY <1>1 DEF IsRoot
<1> HIDE DEF r
<1>3. ASSUME NEW z \in 1..value
      PROVE  f[z] = IF Turned(value, z) < z THEN f[Turned(value, z)] ELSE z
  <2> DEFINE x == Turned(value, z)
  <2>1. /\ x \in Nat
        /\ r <= x
        /\ z <= r => z <= x
        /\ r < z => x < z
    BY <1>1, TurnedBounds
  <2> HIDE DEF x
  <2>2. CASE z <= r
    <3>1. ~(x < z) /\ f[z] = z
      BY <2>1, <2>2, <1>2
    <3>2. QED
      BY <3>1 DEF x
  <2>3. CASE r < z
    <3>1. x < z /\ x \in 1..value /\ ~(x < r) /\ ~(z < r)
      BY <2>1, <2>3, <1>2
    <3>2. f[x] = r /\ f[z] = r
      BY <3>1
    <3>3. QED
      BY <3>1, <3>2 DEF x
  <2>4. QED
    BY <2>2, <2>3, <1>2
<1>4. f = [z \in 1..value |-> IF Turned(value, z) < z THEN f[Turned(value, z)] ELSE z]
  BY <1>3
<1>5. QED
  BY <1>4 DEF Iterates

\* The iteration of sqrt ends with the floor of the root.
LEMMA IterationEnds ==
    ASSUME NEW value \in Nat, value > 2, NEW f, Iterates(f, value)
    PROVE  f[value] = FloorSqrt(value)
<1> DEFINE r == FloorSqrt(value)
           S == {n \in Nat : \A z \in 1..value : r <= z /\ z <= n => f[z] = r}
<1>1. IsRoot(r, value)
  BY FloorSqrtIsRoot
<1>2. r \in Nat /\ r * r <= value
  BY <1>1 DEF IsRoot
<1> HIDE DEF r
<1>3. 0 \in S
  OBVIOUS
<1>4. ASSUME NEW n \in S PROVE n + 1 \in S
  <2>1. n \in Nat /\ \A z \in 1..value : r <= z /\ z <= n => f[z] = r
    OBVIOUS
  <2>2. ASSUME NEW z \in 1..value, r <= z, z <= n + 1 PROVE f[z] = r
    <3> DEFINE x == Turned(value, z)
    <3>1. /\ x \in Nat
          /\ r <= x
          /\ z <= r => z <= x
          /\ r < z => x < z
      BY <1>1, TurnedBounds
    <3>2. f[z] = IF x < z THEN f[x] ELSE z
      BY DEF Iterates
    <3> HIDE DEF x
    <3>3. CASE z = r
      BY <3>1, <3>2, <3>3, <1>2
    <3>4. CASE r < z
      <4>1. x < z /\ x <= n /\ x \in 0..value
        BY <3>1, <3>4, <2>1, <2>2
      <4>2. x # 0
        <5>1. r # 0
          BY <1>1 DEF IsRoot
        <5>2. QED
          BY <5>1, <3>1, <1>2
      <4>3. f[x] = r
        BY <4>1, <4>2, <3>1, <2>1
      <4>4. QED
        BY <4>1, <4>3, <3>2
    <3>5. QED
      BY <3>3, <3>4, <2>2, <1>2
  <2>3. QED
    BY <2>1, <2>2
<1>5. S = Nat
  <2> HIDE DEF S
  <2>1. S \subseteq Nat
    BY DEF S
  <2>2. QED
    BY <1>3, <1>4, <2>1, SetOfAllNaturals
<1>6. value \in S /\ value \in 1..value
  BY <1>5
<1>7. r <= value
  <2>1. r <= r * r
    BY <1>2
  <2>2. QED
    BY <2>1, <1>2
<1>8. f[value] = r
  BY <1>6, <1>7
<1>9. QED
  BY <1>8 DEF r

\* The square root of the code is the exact one rounded down, for every number and
\* every limit of the built-in one (sqrt of mathConstants.ts).
THEOREM SqrtExact == \A value \in Nat : Sqrt(value) = FloorSqrt(value)
<1> SUFFICES ASSUME NEW value \in Nat PROVE Sqrt(value) = FloorSqrt(value)
  OBVIOUS
<1>1. CASE value <= MaxSafeInteger
  BY <1>1 DEF Sqrt
<1>2. CASE ~(value <= MaxSafeInteger)
  <2>1. value > 2
    BY <1>2, TickAssumption
  <2> DEFINE f == CHOOSE f : Iterates(f, value)
  <2>2. Iterates(f, value)
    BY <2>1, IterationExists
  <2>3. Sqrt(value) = f[value]
    BY <1>2 DEF Sqrt, Iterates, Turned
  <2> HIDE DEF f
  <2>4. QED
    BY <2>1, <2>2, <2>3, IterationEnds
<1>3. QED
  BY <1>1, <1>2

-----------------------------------------------------------------------------
(* The tick of a price *)

\* The number between 0 and 0.
LEMMA Negated ==
    ASSUME NEW x \in Int, 0 <= x, x <= 0
    PROVE  -x = 0 /\ -(-x) = 0
OBVIOUS

IsPowers(f, N) == f = [n \in 0..N |-> IF n = 0 THEN 1 ELSE 2 * f[n - 1]]

\* The powers of two have their function of values.
LEMMA PowersExist == \A N \in Nat : \E f : IsPowers(f, N)
<1> DEFINE S == {N \in Nat : \E f : IsPowers(f, N)}
<1>1. 0 \in S
  <2>1. IsPowers([n \in 0..0 |-> 1], 0)
    BY DEF IsPowers
  <2>2. QED
    BY <2>1
<1>2. ASSUME NEW N \in S PROVE N + 1 \in S
  <2>1. PICK f : IsPowers(f, N)
    OBVIOUS
  <2> DEFINE g == [n \in 0..(N + 1) |-> IF n = N + 1 THEN 2 * f[N] ELSE f[n]]
  <2>2. \A n \in 0..N : f[n] = IF n = 0 THEN 1 ELSE 2 * f[n - 1]
    BY <2>1 DEF IsPowers
  <2>3. \A n \in 0..(N + 1) : g[n] = IF n = 0 THEN 1 ELSE 2 * g[n - 1]
    BY <2>2
  <2>4. IsPowers(g, N + 1)
    BY <2>3, Zenon DEF IsPowers
  <2>5. QED
    BY <2>4
<1>3. S = Nat
  <2> HIDE DEF S
  <2>1. S \subseteq Nat
    BY DEF S
  <2>2. QED
    BY <1>1, <1>2, <2>1, SetOfAllNaturals
<1>4. QED
  BY <1>3

\* The powers of two satisfy their recursion.
LEMMA PowersAre ==
    \A n \in 0..Len(PriceAtBit) : PowerOfTwo[n] = IF n = 0 THEN 1 ELSE 2 * PowerOfTwo[n - 1]
<1> DEFINE N == Len(PriceAtBit)
<1>1. N \in Nat
  BY TickAssumption
<1> HIDE DEF N
<1>2. IsPowers(PowerOfTwo, N)
  <2>1. PowerOfTwo = CHOOSE f : IsPowers(f, N)
    BY Zenon DEF PowerOfTwo, IsPowers, N
  <2>2. QED
    BY <1>1, <2>1, PowersExist, Zenon
<1>3. \A n \in 0..N : PowerOfTwo[n] = IF n = 0 THEN 1 ELSE 2 * PowerOfTwo[n - 1]
  BY <1>2 DEF IsPowers
<1>4. QED
  BY <1>3 DEF N

\* The powers of two are positive.
LEMMA PowersPositive == \A n \in 0..Len(PriceAtBit) : PowerOfTwo[n] \in Nat \ {0}
<1> DEFINE N == Len(PriceAtBit)
           S == {n \in Nat : n <= N => PowerOfTwo[n] \in Nat \ {0}}
<1>1. N \in Nat
  BY TickAssumption
<1>2. \A n \in 0..N : PowerOfTwo[n] = IF n = 0 THEN 1 ELSE 2 * PowerOfTwo[n - 1]
  BY PowersAre
<1> HIDE DEF N
<1>3. 0 \in S
  BY <1>1, <1>2
<1>4. ASSUME NEW n \in S PROVE n + 1 \in S
  BY <1>1, <1>2
<1>5. S = Nat
  <2> HIDE DEF S
  <2>1. S \subseteq Nat
    BY DEF S
  <2>2. QED
    BY <1>3, <1>4, <2>1, SetOfAllNaturals
<1>6. QED
  BY <1>5 DEF N

\* The price of tick 0 is One.
IsProduct(f, absTick, N) ==
    f = [i \in 0..N |-> IF i = 0 THEN One
                        ELSE IF BitSet(absTick, i) THEN MulQ96(f[i - 1], PriceAtBit[i]) ELSE f[i - 1]]

\* The price of tick 0 is one.
LEMMA PriceOfTick0 == TickToPrice(0) = One
<1> DEFINE N == Len(PriceAtBit)
           f == PriceOfBits(0)
           S == {n \in Nat : n <= N => f[n] = One}
<1>1. N \in Nat
  BY TickAssumption
<1>2. \A i \in 1..N : ~BitSet(0, i)
  <2>1. SUFFICES ASSUME NEW i \in 1..N PROVE ~BitSet(0, i)
    OBVIOUS
  <2>2. PowerOfTwo[i - 1] \in Nat \ {0}
    BY <1>1, PowersPositive
  <2> DEFINE power == PowerOfTwo[i - 1]
  <2> HIDE DEF power
  <2>3. 0 \div power = 0
    BY <2>2 DEF power
  <2>4. QED
    BY <2>3 DEF BitSet, power
<1> HIDE DEF N
<1>3. IsProduct(f, 0, N)
  <2> DEFINE g == [i \in 0..N |-> One]
  <2>1. \A i \in 0..N : g[i] = IF i = 0 THEN One
                               ELSE IF BitSet(0, i) THEN MulQ96(g[i - 1], PriceAtBit[i]) ELSE g[i - 1]
    BY <1>1, <1>2
  <2>2. IsProduct(g, 0, N)
    BY <2>1, Zenon DEF IsProduct
  <2>3. f = CHOOSE h : IsProduct(h, 0, N)
    BY Zenon DEF PriceOfBits, IsProduct, N
  <2>4. QED
    BY <2>2, <2>3, Zenon
<1>4. \A i \in 0..N : f[i] = IF i = 0 THEN One
                             ELSE IF BitSet(0, i) THEN MulQ96(f[i - 1], PriceAtBit[i]) ELSE f[i - 1]
  <2> HIDE DEF f
  <2>1. QED
    BY <1>3 DEF IsProduct
<1>5. 0 \in S
  BY <1>1, <1>4
<1>6. ASSUME NEW n \in S PROVE n + 1 \in S
  <2> HIDE DEF f
  <2>1. QED
    BY <1>1, <1>2, <1>4
<1>7. S = Nat
  <2> HIDE DEF S
  <2>1. S \subseteq Nat
    BY DEF S
  <2>2. QED
    BY <1>5, <1>6, <2>1, SetOfAllNaturals
<1>8. f[N] = One
  BY <1>1, <1>7
<1>9. PriceBelowOne(0) = One
  BY <1>8 DEF PriceBelowOne, N
<1>10. 0 \in Ticks
  BY TickAssumption DEF Ticks
<1>11. 0 \in Int /\ 0 <= 0
  OBVIOUS
<1>12. -0 = 0
  BY <1>11, Negated, Zenon
<1>13. TickToPrice(0) = PriceBelowOne(-0)
  BY <1>10 DEF TickToPrice, PriceAtTick
<1>14. QED
  BY <1>9, <1>12, <1>13

\* The search for a tick, from the highest entry of the table down to entry low.
IsSearch(f, price, low, high) ==
    f = [i \in low..(high + 1) |->
           IF i = high + 1 THEN [tick |-> 0, price |-> One] ELSE VisitBit(price, i, f[i + 1])]

\* The binary search of a tick has its function of values.
LEMMA SearchExists ==
    ASSUME NEW price, NEW high \in Nat
    PROVE  \E f : IsSearch(f, price, 1, high)
<1> DEFINE S == {n \in Nat : n <= high => \E f : IsSearch(f, price, high + 1 - n, high)}
<1>1. 0 \in S
  <2> DEFINE f == [i \in (high + 1 - 0)..(high + 1) |-> [tick |-> 0, price |-> One]]
  <2>1. \A i \in (high + 1 - 0)..(high + 1) :
          f[i] = IF i = high + 1 THEN [tick |-> 0, price |-> One] ELSE VisitBit(price, i, f[i + 1])
    OBVIOUS
  <2>2. IsSearch(f, price, high + 1 - 0, high)
    BY <2>1, Zenon DEF IsSearch
  <2>3. QED
    BY <2>2
<1>2. ASSUME NEW n \in S PROVE n + 1 \in S
  <2> SUFFICES ASSUME n + 1 <= high PROVE \E f : IsSearch(f, price, high + 1 - (n + 1), high)
    OBVIOUS
  <2>0. n \in Nat
    OBVIOUS
  <2>1. PICK f : IsSearch(f, price, high + 1 - n, high)
    OBVIOUS
  <2> DEFINE low == high + 1 - (n + 1)
             g == [i \in low..(high + 1) |-> IF i = low THEN VisitBit(price, i, f[i + 1]) ELSE f[i]]
  <2>2. \A i \in (low + 1)..(high + 1) :
          f[i] = IF i = high + 1 THEN [tick |-> 0, price |-> One] ELSE VisitBit(price, i, f[i + 1])
    <3>1. low + 1 = high + 1 - n
      BY <2>0
    <3>2. f = [i \in (low + 1)..(high + 1) |->
                 IF i = high + 1 THEN [tick |-> 0, price |-> One] ELSE VisitBit(price, i, f[i + 1])]
      BY <2>1, <3>1 DEF IsSearch
    <3> HIDE DEF low
    <3>3. QED
      BY <3>2
  <2>3. \A i \in low..(high + 1) :
          g[i] = IF i = high + 1 THEN [tick |-> 0, price |-> One] ELSE VisitBit(price, i, g[i + 1])
    <3>1. low \in Nat /\ low < high + 1
      BY <2>0
    <3> HIDE DEF low
    <3>2. SUFFICES ASSUME NEW i \in low..(high + 1)
                   PROVE  g[i] = IF i = high + 1 THEN [tick |-> 0, price |-> One]
                                 ELSE VisitBit(price, i, g[i + 1])
      BY Zenon
    <3>3. CASE i = low
      <4>1. g[i] = VisitBit(price, i, f[i + 1]) /\ i # high + 1
        BY <3>1, <3>3
      <4>2. g[i + 1] = f[i + 1]
        BY <3>1, <3>3
      <4>3. QED
        BY <4>1, <4>2
    <3>4. CASE i # low
      <4>1. g[i] = f[i] /\ i \in (low + 1)..(high + 1)
        BY <3>1, <3>4
      <4>2. i # high + 1 => g[i + 1] = f[i + 1]
        BY <3>1, <3>4
      <4>3. QED
        BY <2>2, <4>1, <4>2
    <3>5. QED
      BY <3>3, <3>4
  <2>4. IsSearch(g, price, low, high)
    BY <2>3, Zenon DEF IsSearch
  <2>5. QED
    BY <2>4
<1>3. S = Nat
  <2> HIDE DEF S
  <2>1. S \subseteq Nat
    BY DEF S
  <2>2. QED
    BY <1>1, <1>2, <2>1, SetOfAllNaturals
<1>4. high \in S
  BY <1>3
<1>5. high + 1 - high = 1
  OBVIOUS
<1>6. QED
  BY <1>4, <1>5

\* The distance of a price from one, in ticks, is a natural number.
LEMMA DistanceNat == ASSUME NEW price PROVE DistanceBelowOne(price) \in Nat
<1> DEFINE N == Len(PriceAtBit)
           f == CHOOSE f : IsSearch(f, price, 1, N)
           S == {n \in Nat : n <= N => f[N + 1 - n].tick \in Nat}
<1>1. N \in Nat
  BY TickAssumption
<1>2. \A i \in 1..N : PowerOfTwo[i - 1] \in Nat
  BY <1>1, PowersPositive
<1>9. DistanceBelowOne(price) = f[1].tick
  BY Zenon DEF DistanceBelowOne, VisitFrom, IsSearch
<1> HIDE DEF N
<1>3. IsSearch(f, price, 1, N)
  BY <1>1, SearchExists, Zenon
<1> HIDE DEF f
<1>4. \A i \in 1..(N + 1) :
        f[i] = IF i = N + 1 THEN [tick |-> 0, price |-> One] ELSE VisitBit(price, i, f[i + 1])
  BY <1>3 DEF IsSearch
<1>5. 0 \in S
  <2>1. N + 1 - 0 = N + 1 /\ N + 1 \in 1..(N + 1)
    BY <1>1
  <2>2. f[N + 1] = [tick |-> 0, price |-> One]
    BY <1>4, <2>1
  <2>3. QED
    BY <2>1, <2>2
<1>6. ASSUME NEW n \in S PROVE n + 1 \in S
  <2> SUFFICES ASSUME n + 1 <= N PROVE f[N + 1 - (n + 1)].tick \in Nat
    OBVIOUS
  <2> DEFINE i == N + 1 - (n + 1)
  <2>1. i \in 1..N /\ i + 1 = N + 1 - n /\ i # N + 1 /\ n <= N
    BY <1>1
  <2>2. f[i + 1].tick \in Nat
    BY <2>1
  <2> HIDE DEF i
  <2>3. f[i] = VisitBit(price, i, f[i + 1])
    BY <1>1, <1>4, <2>1
  <2>4. f[i].tick = f[i + 1].tick \/ f[i].tick = f[i + 1].tick + PowerOfTwo[i - 1]
    BY <2>3 DEF VisitBit
  <2>5. f[i].tick \in Nat
    BY <1>2, <2>1, <2>2, <2>4
  <2>6. QED
    BY <2>5 DEF i
<1>7. S = Nat
  <2> HIDE DEF S
  <2>1. S \subseteq Nat
    BY DEF S
  <2>2. QED
    BY <1>5, <1>6, <2>1, SetOfAllNaturals
<1>8. f[1].tick \in Nat
  <2>1. N \in S /\ N + 1 - N = 1 /\ N <= N
    BY <1>1, <1>7
  <2>2. QED
    BY <2>1
<1>10. QED
  BY <1>8, <1>9

\* The price at which priceToTick starts to invert prices is not below 1.
LEMMA PriceForTick1 == PriceValueForTick1 \in Nat /\ PriceValueForTick1 >= One
<1> DEFINE a == TickBase[1]
           b == TickBase[2]
           q == DivQ96(NumberToQ96(a), NumberToQ96(b))
           r == FloorSqrt(q * One)
<1>1. a \in Nat /\ b \in Nat \ {0} /\ a > b /\ One \in Nat \ {0}
  BY TickAssumption, OneAssumption
<1> HIDE DEF a, b
<1>2. q \in Nat /\ q >= One
  <2>1. b * One \in Nat \ {0} /\ a * One \in Nat /\ a * One >= b * One
    BY <1>1
  <2> DEFINE d == b * One
             n == (a * One) * One
  <2>2. n \in Nat /\ d * One <= n
    <3>1. (b * One) * One <= (a * One) * One
      BY <1>1, <2>1
    <3>2. QED
      BY <1>1, <2>1, <3>1
  <2>3. d \in Nat \ {0}
    BY <2>1
  <2>4. q = n \div d
    BY DEF DivQ96, NumberToQ96
  <2> HIDE DEF d, n
  <2>5. One <= n \div d
    BY <1>1, <2>2, <2>3, DivGeq
  <2>6. n \div d \in Nat
    BY <2>2, <2>3, DivBounds
  <2>7. QED
    BY <2>4, <2>5, <2>6
<1>3. PriceValueForTick1 = r
  <2>1. q * One \in Nat
    BY <1>1, <1>2
  <2>2. QED
    BY <2>1, SqrtExact, Zenon DEF PriceValueForTick1, a, b
<1> HIDE DEF q
<1>4. q * One \in Nat /\ One * One <= q * One
  BY <1>1, <1>2
<1>5. IsRoot(r, q * One)
  BY <1>4, FloorSqrtIsRoot
<1> HIDE DEF r
<1>6. r \in Nat /\ One * One < (r + 1) * (r + 1)
  <2>1. r \in Nat /\ q * One < (r + 1) * (r + 1)
    BY <1>5 DEF IsRoot
  <2>2. (r + 1) * (r + 1) \in Nat /\ One * One \in Nat
    BY <1>1, <2>1
  <2>3. QED
    BY <1>4, <2>1, <2>2
<1>7. r >= One
  BY <1>1, <1>6
<1>8. QED
  BY <1>3, <1>6, <1>7

\* A price whose tick is not below 0 is at least 1.
LEMMA NotBelowOne ==
    ASSUME NEW price \in Nat, PriceToTick(price) >= 0
    PROVE  price >= One
<1> DEFINE D == DistanceBelowOne(price)
<1>1. One \in Nat \ {0} /\ PriceValueForTick1 \in Nat /\ PriceValueForTick1 >= One
  BY OneAssumption, PriceForTick1
<1>2. CASE price >= PriceValueForTick1
  BY <1>1, <1>2
<1>3. CASE ~(price >= PriceValueForTick1)
  <2>1. D \in Nat
    BY DistanceNat
  <2>2. PriceToTick(price) = IF TickToPrice(-D) > price THEN (-D) - 1 ELSE -D
    BY <1>3 DEF PriceToTick
  <2> HIDE DEF D
  <2>3. ~(TickToPrice(-D) > price) /\ D = 0
    BY <2>1, <2>2
  <2>4. D \in Int /\ 0 <= D /\ D <= 0
    BY <2>1, <2>3
  <2>5. -D = 0
    BY <2>4, Negated, Zenon
  <2>6. ~(One > price)
    BY <2>3, <2>5, PriceOfTick0
  <2>7. QED
    BY <1>1, <2>6
<1>4. QED
  BY <1>2, <1>3
=============================================================================
