---------------------------- MODULE TickPrices ----------------------------
(***************************************************************************)
(* Price ticks (dex/utils/math.ts): the square root of the price at a      *)
(* tick, composed from a table with one entry for each bit of the tick,    *)
(* and the tick of a price.                                                *)
(***************************************************************************)
EXTENDS FixedPoint, SequencesExt

CONSTANTS
    PriceAtBit,     \* PRICE_VALUE_FOR_BIT_POSITION_IN_Q96, from bit 0 on
    MaxTick,        \* MAX_TICK; MIN_TICK is its negative
    MaxSafeInteger, \* MAX_SAFE_INTEGER
    TickBase        \* the ratio of prices of one tick, <<10001, 10000>>

PowerOfTwo[n \in 0..Len(PriceAtBit)] == IF n = 0 THEN 1 ELSE 2 * PowerOfTwo[n - 1]

ASSUME TickAssumption ==
    /\ PriceAtBit \in Seq(1..One)
    /\ MaxTick \in 1..(PowerOfTwo[Len(PriceAtBit)] - 1)
    /\ MaxSafeInteger \in Nat \ {0, 1}
    /\ TickBase \in (Nat \ {0}) \X (Nat \ {0}) /\ TickBase[1] > TickBase[2]

Ticks == (-MaxTick)..MaxTick

\* Entry i of the table belongs to bit i - 1.
BitSet(n, i) == (n \div PowerOfTwo[i - 1]) % 2 = 1

\* The price after i entries of the table, from the lowest bit on.
PriceOfBits(absTick) ==
    LET p[i \in 0..Len(PriceAtBit)] ==
          IF i = 0 THEN One
          ELSE IF BitSet(absTick, i) THEN MulQ96(p[i - 1], PriceAtBit[i]) ELSE p[i - 1]
    IN  p

\* Mutant of PriceBelowOne: the loop misses the last entry of the table.
LastBitMissed(absTick) == PriceOfBits(absTick)[Len(PriceAtBit) - 1]

\* The forEach over the table.
PriceBelowOne(absTick) == PriceOfBits(absTick)[Len(PriceAtBit)]

\* It throws for any other tick.
PriceAtTick ==
    [tick \in Ticks |-> IF tick > 0 THEN InvQ96(PriceBelowOne(tick)) ELSE PriceBelowOne(-tick)]

TickToPrice(tick) == PriceAtTick[tick]

\* What the proofs assume of the table: its prices are positive and increase with
\* the tick.
TableAscends ==
    /\ \A t \in Ticks : TickToPrice(t) \in Nat \ {0}
    /\ \A t \in Ticks : t < MaxTick => TickToPrice(t) < TickToPrice(t + 1)

\* The price when the bits up to i are all set.
LowPrice[i \in 0..Len(PriceAtBit)] ==
    IF i = 0 THEN One ELSE MulQ96(LowPrice[i - 1], PriceAtBit[i])

\* What the proofs about the table assume.  At each carry of the tick, from the bits below
\* bit k to bit k, the price falls by a factor of a/b at least, and at the lowest price
\* this factor is more than the roundings of the products can hide.
TableFits ==
    LET slack == Len(PriceAtBit) - 1
        lowest == PriceBelowOne(MaxTick)
    IN  /\ slack > 0
        /\ \E a, b \in 1..One :
             /\ \A k \in 1..Len(PriceAtBit) : b * LowPrice[k - 1] >= a * PriceAtBit[k]
             /\ (a - b) * lowest >= b * (2 * slack - 1)
             /\ MaxTick < PowerOfTwo[Len(PriceAtBit)] - 1 => (a - b) * lowest >= (a + b) * slack

FloorSqrt(value) == CHOOSE r \in 0..value : r * r <= value /\ value < (r + 1) * (r + 1)

\* Mutant of Sqrt: the iteration starts too low.
FromAnEighth(value) ==
    LET newton[z \in 1..value] ==
          LET x == IF z = value THEN (value \div 8) + 1 ELSE ((value \div z) + z) \div 2
          IN  IF x < z THEN newton[x] ELSE z
    IN  IF value <= MaxSafeInteger THEN FloorSqrt(value) ELSE newton[value]

\* The built-in square root of small numbers, Newton's iteration for the others.
Sqrt(value) ==
    LET newton[z \in 1..value] ==
          LET x == IF z = value THEN (value \div 2) + 1 ELSE ((value \div z) + z) \div 2
          IN  IF x < z THEN newton[x] ELSE z
    IN  IF value <= MaxSafeInteger THEN FloorSqrt(value) ELSE newton[value]

PriceValueForTick1 ==
    Sqrt(DivQ96(NumberToQ96(TickBase[1]), NumberToQ96(TickBase[2])) * One)

\* One turn of the loop over the table, from the highest bit to the lowest.
VisitBit(price, i, acc) ==
    LET newPrice == MulQ96(acc.price, PriceAtBit[i])
    IN  IF price <= newPrice
        THEN [tick |-> acc.tick + PowerOfTwo[i - 1], price |-> newPrice]
        ELSE acc

\* The loop's variables when it has come down to entry i, from the highest.
VisitFrom(price, highest) ==
    LET acc[i \in 1..(highest + 1)] ==
          IF i = highest + 1 THEN [tick |-> 0, price |-> One] ELSE VisitBit(price, i, acc[i + 1])
    IN  acc[1]

\* Mutant of DistanceBelowOne: the loop starts one bit too low.
HighestBitMissed(price) == VisitFrom(price, Len(PriceAtBit) - 1).tick

\* How many ticks below 0 a price of at most One lies.
DistanceBelowOne(price) == VisitFrom(price, Len(PriceAtBit)).tick

\* What the proofs about priceToTick assume beside: prices are inverted from tick 2 on at
\* the latest, whose bit has the second entry.
InversionFits == PriceValueForTick1 <= InvQ96(PriceAtBit[2])

PriceToTick(sqrtPrice) ==
    LET found == IF sqrtPrice >= PriceValueForTick1
                 THEN DistanceBelowOne(InvQ96(sqrtPrice))
                 ELSE -DistanceBelowOne(sqrtPrice)
    IN  IF TickToPrice(found) > sqrtPrice THEN found - 1 ELSE found
=============================================================================
