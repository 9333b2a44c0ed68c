-------------------------- MODULE PriceTableProofs --------------------------
(***************************************************************************)
(* The ticks and their prices: for every table whose entries fit together  *)
(* (TableFits) prices increase with the tick, and priceToTick finds the    *)
(* tick of a price, in spite of the roundings.  The table of the code fits.*)
(***************************************************************************)
EXTENDS LiquidityMathProofs

Bits == Len(PriceAtBit)

Slack == Bits - 1

\* The bits of a tick that are set.
BitsOf(n) == {i \in 1..Bits : BitSet(n, i)}

LastTick == PowerOfTwo[Bits] - 1

\* The constants.
LEMMA TableTypes ==
    /\ One \in Nat \ {0} /\ Bits \in Nat \ {0}
    /\ \A i \in 1..Bits : PriceAtBit[i] \in 1..One
    /\ MaxTick \in Nat \ {0} /\ LastTick \in Nat /\ MaxTick <= LastTick
<1>1. One \in Nat \ {0}
  BY OneAssumption
<1>2. PriceAtBit \in Seq(1..One) /\ MaxTick \in 1..(PowerOfTwo[Len(PriceAtBit)] - 1)
  BY TickAssumption
<1>3. Bits \in Nat /\ \A i \in 1..Bits : PriceAtBit[i] \in 1..One
  <2> DEFINE S == 1..One
  <2>1. PriceAtBit \in Seq(S)
    BY <1>2
  <2> HIDE DEF S
  <2>2. Len(PriceAtBit) \in Nat /\ \A i \in 1..Len(PriceAtBit) : PriceAtBit[i] \in S
    BY <2>1
  <2>3. QED
    BY <2>2 DEF Bits, S
<1>4. PowerOfTwo[Bits] \in Nat \ {0}
  BY <1>3, PowersPositive DEF Bits
<1>5. MaxTick \in Nat \ {0} /\ LastTick \in Nat /\ MaxTick <= LastTick
  BY <1>2, <1>4 DEF LastTick, Bits
<1>6. PowerOfTwo[0] = 1
  BY <1>3, PowersAre DEF Bits
<1>7. Bits # 0
  BY <1>5, <1>6 DEF LastTick
<1>8. QED
  BY <1>1, <1>3, <1>5, <1>7

-----------------------------------------------------------------------------
(* The bits of a tick *)

\* What is left of a tick when its lowest i bits are shifted out.
Shift(n, i) == n \div PowerOfTwo[i]

\* A further bit is shifted out by halving.
LEMMA ShiftHalves ==
    ASSUME NEW n \in Nat
    PROVE  /\ Shift(n, 0) = n
           /\ \A i \in 0..Bits : Shift(n, i) \in Nat
           /\ \A i \in 1..Bits : Shift(n, i) = Shift(n, i - 1) \div 2
<1>1. Bits \in Nat
  BY TableTypes
<1>2. PowerOfTwo[0] = 1 /\ \A i \in 1..Bits : PowerOfTwo[i] = 2 * PowerOfTwo[i - 1]
  BY <1>1, PowersAre DEF Bits
<1>3. \A i \in 0..Bits : PowerOfTwo[i] \in Nat \ {0}
  BY PowersPositive DEF Bits
<1>4. Shift(n, 0) = n
  BY <1>2 DEF Shift
<1>5. \A i \in 0..Bits : Shift(n, i) \in Nat
  BY <1>3, DivBounds DEF Shift
<1>6. ASSUME NEW i \in 1..Bits PROVE Shift(n, i) = Shift(n, i - 1) \div 2
  <2> DEFINE w == PowerOfTwo[i - 1]
             q == n \div w
             h == q \div 2
  <2>1. w \in Nat \ {0} /\ PowerOfTwo[i] = 2 * w
    BY <1>1, <1>2, <1>3
  <2> HIDE DEF w
  <2>2. q \in Nat /\ w * q <= n /\ n < w * q + w
    BY <2>1, DivBounds
  <2>3. Shift(n, i - 1) = q
    BY DEF Shift, w
  <2> HIDE DEF q
  <2>4. h \in Nat /\ 2 * h <= q /\ q < 2 * h + 2
    BY <2>2, Half
  <2> HIDE DEF h
  <2>5. w * (2 * h) <= w * q /\ w * (q + 1) <= w * (2 * h + 2)
    <3>1. q + 1 <= 2 * h + 2
      BY <2>2, <2>4
    <3>2. QED
      BY <2>1, <2>2, <2>4, <3>1, ScaleLeq
  <2>6. /\ w * (2 * h) = (2 * w) * h /\ w * (q + 1) = w * q + w
        /\ w * (2 * h + 2) = (2 * w) * h + 2 * w
    BY <2>1, <2>2, <2>4
  <2>7. (2 * w) * h <= n /\ n < (2 * w) * h + 2 * w
    BY <2>1, <2>2, <2>4, <2>5, <2>6
  <2>8. 2 * w \in Nat \ {0}
    BY <2>1
  <2>9. h <= n \div (2 * w) /\ n \div (2 * w) <= h /\ n \div (2 * w) \in Nat
    BY <2>4, <2>7, <2>8, DivGeq, DivLeq, DivBounds
  <2>10. n \div (2 * w) = h
    BY <2>4, <2>9
  <2>11. QED
    BY <2>1, <2>3, <2>10 DEF Shift, h
<1>7. QED
  BY <1>4, <1>5, <1>6

\* A tick of the table's range is shifted out entirely.
LEMMA ShiftedOut == ASSUME NEW n \in 0..LastTick PROVE Shift(n, Bits) = 0
<1> DEFINE w == PowerOfTwo[Bits]
<1>1. w \in Nat \ {0}
  BY TableTypes, PowersPositive DEF Bits
<1>2. n \in Nat /\ n < w
  BY <1>1 DEF LastTick
<1> HIDE DEF w
<1>3. n < w * 0 + w
  BY <1>1, <1>2
<1>4. n \div w <= 0 /\ n \div w \in Nat
  BY <1>1, <1>2, <1>3, DivLeq, DivBounds
<1>5. QED
  BY <1>4 DEF Shift, w

\* The successor of a tick has a bit set that the tick has not; below it the bits of the
\* tick are set and those of the successor are not, above it they agree.
LEMMA Carry ==
    ASSUME NEW n \in Nat, n < LastTick
    PROVE  \E k \in 1..Bits :
             /\ k \notin BitsOf(n) /\ k \in BitsOf(n + 1)
             /\ \A i \in 1..(k - 1) : i \in BitsOf(n) /\ i \notin BitsOf(n + 1)
             /\ \A i \in (k + 1)..Bits : i \in BitsOf(n) <=> i \in BitsOf(n + 1)
<1> DEFINE m == n + 1
           Low(i) == \A j \in 1..i : j \in BitsOf(n) /\ j \notin BitsOf(m)
           Done(i) == \E k \in 1..i :
                        /\ k \notin BitsOf(n) /\ k \in BitsOf(m)
                        /\ \A j \in 1..(k - 1) : j \in BitsOf(n) /\ j \notin BitsOf(m)
                        /\ \A j \in (k + 1)..i : j \in BitsOf(n) <=> j \in BitsOf(m)
           S == {i \in Nat : i <= Bits =>
                   \/ (Shift(m, i) = Shift(n, i) + 1 /\ Low(i))
                   \/ (Shift(m, i) = Shift(n, i) /\ Done(i))}
<1>1. Bits \in Nat /\ LastTick \in Nat
  BY TableTypes
<1>2. n \in Nat /\ m \in Nat /\ n \in 0..LastTick /\ m \in 0..LastTick
  BY <1>1
<1>3. m = n + 1
  OBVIOUS
<1> HIDE DEF m
<1>4. Shift(m, 0) = m /\ Shift(n, 0) = n
  BY <1>2, ShiftHalves
<1>5. \A i \in 1..Bits : /\ Shift(m, i - 1) \in Nat /\ Shift(n, i - 1) \in Nat
                         /\ Shift(m, i) = Shift(m, i - 1) \div 2
                         /\ Shift(n, i) = Shift(n, i - 1) \div 2
                         /\ i \in BitsOf(m) <=> Shift(m, i - 1) % 2 = 1
                         /\ i \in BitsOf(n) <=> Shift(n, i - 1) % 2 = 1
  BY <1>1, <1>2, ShiftHalves DEF BitsOf, BitSet, Shift
<1>6. 0 \in S
  BY <1>3, <1>4
<1>7. ASSUME NEW i \in S PROVE i + 1 \in S
  <2> SUFFICES ASSUME i + 1 <= Bits
               PROVE  \/ (Shift(m, i + 1) = Shift(n, i + 1) + 1 /\ Low(i + 1))
                      \/ (Shift(m, i + 1) = Shift(n, i + 1) /\ Done(i + 1))
    OBVIOUS
  <2> DEFINE x == Shift(m, i)
             y == Shift(n, i)
  <2>1. i \in Nat /\ i <= Bits /\ i + 1 \in 1..Bits /\ (i + 1) - 1 = i
    BY <1>1
  <2>2. /\ x \in Nat /\ y \in Nat
        /\ Shift(m, i + 1) = x \div 2 /\ Shift(n, i + 1) = y \div 2
        /\ i + 1 \in BitsOf(m) <=> x % 2 = 1
        /\ i + 1 \in BitsOf(n) <=> y % 2 = 1
    BY <1>5, <2>1
  <2>3. (x = y + 1 /\ Low(i)) \/ (x = y /\ Done(i))
    BY <2>1
  <2> HIDE DEF x, y
  <2>4. CASE x = y + 1 /\ Low(i) /\ y % 2 = 1
    <3>1. x \div 2 = y \div 2 + 1 /\ x % 2 # 1
      BY <2>2, <2>4
    <3>2. Low(i + 1)
      BY <2>1, <2>2, <2>4, <3>1
    <3>3. QED
      BY <2>2, <3>1, <3>2
  <2>5. CASE x = y + 1 /\ Low(i) /\ y % 2 # 1
    <3>1. x \div 2 = y \div 2 /\ x % 2 = 1
      BY <2>2, <2>5
    <3>2. Done(i + 1)
      <4>1. i + 1 \in 1..(i + 1) /\ i + 1 \notin BitsOf(n) /\ i + 1 \in BitsOf(m)
        BY <2>1, <2>2, <2>5, <3>1
      <4>2. \A j \in 1..((i + 1) - 1) : j \in BitsOf(n) /\ j \notin BitsOf(m)
        BY <2>1, <2>5
      <4>3. \A j \in ((i + 1) + 1)..(i + 1) : j \in BitsOf(n) <=> j \in BitsOf(m)
        BY <2>1
      <4>4. QED
        BY <4>1, <4>2, <4>3
    <3>3. QED
      BY <2>2, <3>1, <3>2
  <2>6. CASE x = y /\ Done(i)
    <3>1. PICK k \in 1..i : /\ k \notin BitsOf(n) /\ k \in BitsOf(m)
                            /\ \A j \in 1..(k - 1) : j \in BitsOf(n) /\ j \notin BitsOf(m)
                            /\ \A j \in (k + 1)..i : j \in BitsOf(n) <=> j \in BitsOf(m)
      BY <2>6
    <3>2. \A j \in (k + 1)..(i + 1) : j \in BitsOf(n) <=> j \in BitsOf(m)
      BY <2>1, <2>2, <2>6, <3>1
    <3>3. k \in 1..(i + 1)
      BY <2>1
    <3>4. Done(i + 1)
      BY <3>1, <3>2, <3>3
    <3>5. QED
      BY <2>2, <2>6, <3>4
  <2>7. QED
    BY <2>3, <2>4, <2>5, <2>6
<1>8. S = Nat
  <2> HIDE DEF S
  <2>1. S \subseteq Nat
    BY DEF S
  <2>2. QED
    BY <1>6, <1>7, <2>1, SetOfAllNaturals
<1>9. Shift(m, Bits) = 0 /\ Shift(n, Bits) = 0
  BY <1>2, ShiftedOut
<1>10. Done(Bits)
  BY <1>1, <1>8, <1>9
<1>11. QED
  BY <1>10 DEF m


-----------------------------------------------------------------------------
(* Products of entries of the table *)

\* The factor for bit i of a number whose bits are B.
Entry(B, i) == IF i \in B THEN PriceAtBit[i] ELSE One

\* The products of the entries for B, from the lowest bit on.
IsUp(f, B) == f[0] = One /\ \A i \in 1..Bits : f[i] = MulQ96(f[i - 1], Entry(B, i))

\* The products of the entries for B, from the highest bit on.
IsDown(f, B) == f[Bits + 1] = One /\ \A i \in 1..Bits : f[i] = MulQ96(f[i + 1], Entry(B, i))

\* Every factor is a price of at most one.
LEMMA EntryType == ASSUME NEW B, NEW i \in 1..Bits PROVE Entry(B, i) \in 1..One
BY TableTypes DEF Entry

\* A product with a factor of at most one is rounded down by less than one unit.
LEMMA MulFacts ==
    ASSUME NEW x \in Nat, NEW e \in 1..One
    PROVE  /\ MulQ96(x, e) \in Nat /\ MulQ96(x, e) <= x
           /\ One * MulQ96(x, e) <= x * e
           /\ x * e <= One * MulQ96(x, e) + (One - 1)
<1> DEFINE y == MulQ96(x, e)
<1>1. One \in Nat \ {0} /\ e \in Nat /\ e <= One
  BY TableTypes
<1>2. x * e \in Nat /\ y = (x * e) \div One
  BY <1>1 DEF MulQ96
<1>3. y \in Nat /\ One * y <= x * e /\ x * e < One * y + One
  BY <1>1, <1>2, DivBounds
<1> HIDE DEF y
<1>4. One * y <= One * x
  <2>1. x * e <= x * One
    BY <1>1, ScaleLeq
  <2>2. QED
    BY <2>1, <1>1, <1>2, <1>3
<1>5. y <= x
  BY <1>1, <1>3, <1>4, CancelLeq
<1>6. x * e <= One * y + (One - 1)
  BY <1>1, <1>2, <1>3
<1>7. QED
  BY <1>3, <1>5, <1>6 DEF y

\* Products with one are exact.
LEMMA MulOne ==
    ASSUME NEW x \in Nat PROVE MulQ96(One, x) = x /\ MulQ96(x, One) = x
<1>1. One \in Nat \ {0} /\ x * One = One * x
  BY TableTypes
<1>2. QED
  BY <1>1, DivExact DEF MulQ96

\* The products are prices of at most one.
LEMMA UpTypes ==
    ASSUME NEW B, NEW f, IsUp(f, B) PROVE \A i \in 0..Bits : f[i] \in 0..One
<1> DEFINE S == {i \in Nat : i <= Bits => f[i] \in 0..One}
<1>1. Bits \in Nat /\ One \in Nat
  BY TableTypes
<1>2. 0 \in S
  BY <1>1 DEF IsUp
<1>3. ASSUME NEW i \in S PROVE i + 1 \in S
  <2> SUFFICES ASSUME i + 1 <= Bits PROVE f[i + 1] \in 0..One
    OBVIOUS
  <2> DEFINE e == Entry(B, i + 1)
             x == f[i]
  <2>1. i + 1 \in 1..Bits /\ (i + 1) - 1 = i /\ x \in 0..One
    BY <1>1
  <2>2. f[i + 1] = MulQ96(x, e) /\ e \in 1..One
    BY <2>1, EntryType DEF IsUp
  <2> HIDE DEF e, x
  <2>3. x \in Nat /\ x <= One
    BY <1>1, <2>1
  <2>4. MulQ96(x, e) \in Nat /\ MulQ96(x, e) <= x
    BY <2>2, <2>3, MulFacts
  <2>5. QED
    BY <1>1, <2>2, <2>3, <2>4
<1>4. S = Nat
  <2> HIDE DEF S
  <2>1. S \subseteq Nat
    BY DEF S
  <2>2. QED
    BY <1>2, <1>3, <2>1, SetOfAllNaturals
<1>5. QED
  BY <1>4

\* The same for the products from the highest bit on.
LEMMA DownTypes ==
    ASSUME NEW B, NEW f, IsDown(f, B) PROVE \A i \in 1..(Bits + 1) : f[i] \in 0..One
<1> DEFINE S == {n \in Nat : n <= Bits => f[Bits + 1 - n] \in 0..One}
<1>1. Bits \in Nat /\ One \in Nat
  BY TableTypes
<1>2. 0 \in S
  <2>1. Bits + 1 - 0 = Bits + 1
    BY <1>1
  <2>2. QED
    BY <1>1, <2>1 DEF IsDown
<1>3. ASSUME NEW n \in S PROVE n + 1 \in S
  <2> SUFFICES ASSUME n + 1 <= Bits PROVE f[Bits + 1 - (n + 1)] \in 0..One
    OBVIOUS
  <2> DEFINE i == Bits + 1 - (n + 1)
             e == Entry(B, i)
             x == f[i + 1]
  <2>1. i \in 1..Bits /\ i + 1 = Bits + 1 - n /\ n <= Bits
    BY <1>1
  <2>2. x \in 0..One
    BY <2>1
  <2> HIDE DEF i
  <2>3. f[i] = MulQ96(x, e) /\ e \in 1..One
    BY <2>1, EntryType DEF IsDown
  <2> HIDE DEF e, x
  <2>4. x \in Nat /\ x <= One
    BY <1>1, <2>2
  <2>5. MulQ96(x, e) \in Nat /\ MulQ96(x, e) <= x
    BY <2>3, <2>4, MulFacts
  <2>6. f[i] \in 0..One
    BY <1>1, <2>3, <2>4, <2>5
  <2>7. QED
    BY <2>6 DEF i
<1>4. S = Nat
  <2> HIDE DEF S
  <2>1. S \subseteq Nat
    BY DEF S
  <2>2. QED
    BY <1>2, <1>3, <2>1, SetOfAllNaturals
<1>5. ASSUME NEW i \in 1..(Bits + 1) PROVE f[i] \in 0..One
  <2> DEFINE n == Bits + 1 - i
  <2>1. n \in Nat /\ n <= Bits /\ Bits + 1 - n = i
    BY <1>1
  <2> HIDE DEF n
  <2>2. n \in S
    BY ONLY <1>4, <2>1
  <2>3. QED
    BY <2>1, <2>2
<1>6. QED
  BY <1>5

-----------------------------------------------------------------------------
(* The order of the multiplications *)

\* Two products that differ in which of two factors the entry went into.
LEMMA EntryMoved ==
    ASSUME NEW x \in Nat, NEW s \in 0..One, NEW p \in Nat, NEW y \in Nat, NEW e \in Nat,
           One * y <= s * e, x * e <= One * p + (One - 1)
    PROVE  x * y <= p * s + (One - 1)
<1> DEFINE d == One - 1
<1>1. One \in Nat \ {0} /\ d \in Nat /\ s \in Nat /\ s <= One
  BY TableTypes
<1> HIDE DEF d
<1>2. x * (One * y) <= x * (s * e)
  BY <1>1, ScaleLeq
<1>3. s * (x * e) <= s * (One * p + d)
  BY <1>1, ScaleLeq DEF d
<1>4. d * s <= d * One
  BY <1>1, ScaleLeq
<1>5. /\ x * (One * y) = One * (x * y) /\ x * (s * e) = s * (x * e)
      /\ s * (One * p + d) = One * (p * s) + d * s
      /\ One * (p * s + d) = One * (p * s) + d * One
  BY <1>1
<1>6. /\ One * (x * y) \in Int /\ s * (x * e) \in Int /\ One * (p * s) \in Int
      /\ d * s \in Int /\ d * One \in Int
  BY <1>1
<1>7. One * (x * y) <= One * (p * s + d)
  BY <1>2, <1>3, <1>4, <1>5, <1>6
<1>8. x * y \in Int /\ p * s + d \in Int
  BY <1>1
<1>9. x * y <= p * s + d
  BY ONLY <1>1, <1>7, <1>8, CancelLeq
<1>10. QED
  BY <1>9 DEF d

\* Multiplied from the lowest or from the highest bit on, products of the same entries
\* differ by less than one for each entry but the first.
LEMMA OrderOfFactors ==
    ASSUME NEW B, NEW p, NEW t, IsUp(p, B), IsDown(t, B), Slack > 0
    PROVE  t[1] < p[Bits] + Slack /\ p[Bits] < t[1] + Slack
<1> DEFINE d == One - 1
           m == [i \in 1..(Bits + 1) |-> p[i - 1] * t[i]]
<1>1. One \in Nat \ {0} /\ Bits \in Nat \ {0} /\ d \in Nat /\ Slack \in Nat /\ Bits = Slack + 1
  BY TableTypes DEF Slack
<1>2. \A i \in 1..(Bits + 1) : /\ i - 1 \in 0..Bits /\ p[i - 1] \in 0..One /\ t[i] \in 0..One
                               /\ p[i - 1] \in Nat /\ t[i] \in Nat
  <2>1. ASSUME NEW i \in 1..(Bits + 1) PROVE i - 1 \in 0..Bits
    BY <1>1
  <2>2. \A j \in 0..One : j \in Nat
    BY <1>1
  <2>3. QED
    BY <2>1, <2>2, UpTypes, DownTypes
<1>3. \A i \in 1..(Bits + 1) : m[i] = p[i - 1] * t[i] /\ m[i] \in Nat
  BY <1>2, ProductNat
<1> HIDE DEF m, d
<1>4. ASSUME NEW i \in 1..Bits
      PROVE  m[i] <= m[i + 1] + d /\ m[i + 1] <= m[i] + d
  <2> DEFINE e == Entry(B, i)
             x == p[i - 1]
             q == p[i]
             s == t[i + 1]
             y == t[i]
  <2>1. e \in 1..One /\ q = MulQ96(x, e) /\ y = MulQ96(s, e)
    BY EntryType DEF IsUp, IsDown
  <2>2. i \in 1..(Bits + 1) /\ i + 1 \in 1..(Bits + 1) /\ (i + 1) - 1 = i
    BY <1>1
  <2>3. x \in 0..One /\ q \in Nat /\ s \in 0..One /\ y \in Nat /\ x \in Nat /\ s \in Nat
    BY <1>2, <2>2
  <2>4. m[i] = x * y /\ m[i + 1] = q * s
    BY <1>3, <2>2
  <2> HIDE DEF e, x, q, s, y
  <2>5. e \in Nat
    BY <2>1, <1>1
  <2>6. /\ One * q <= x * e /\ x * e <= One * q + (One - 1)
        /\ One * y <= s * e /\ s * e <= One * y + (One - 1)
    BY <2>1, <2>3, MulFacts
  <2>7. x * y <= q * s + (One - 1)
    BY ONLY <2>3, <2>5, <2>6, EntryMoved
  <2>8. s * q <= y * x + (One - 1)
    BY ONLY <2>3, <2>5, <2>6, EntryMoved
  <2>9. s * q = q * s /\ y * x = x * y
    BY <2>3
  <2>10. QED
    BY <2>4, <2>7, <2>8, <2>9 DEF d
<1>5. m[1] <= m[2]
  <2> DEFINE e == Entry(B, 1)
             s == t[2]
             y == t[1]
  <2>1. 1 \in 1..Bits /\ 1 \in 1..(Bits + 1) /\ 2 \in 1..(Bits + 1)
    BY <1>1
  <2>2. p[0] = One /\ p[1] = MulQ96(One, e) /\ y = MulQ96(s, e) /\ e \in 1..One
    BY <2>1, EntryType DEF IsUp, IsDown
  <2>3. s \in Nat /\ m[1] = p[0] * y /\ m[2] = p[1] * s
    BY <1>2, <1>3, <2>1
  <2> HIDE DEF e, s, y
  <2>4. e \in Nat
    BY <1>1, <2>2
  <2>5. One * y <= s * e /\ p[1] = e
    BY <2>2, <2>3, <2>4, MulFacts, MulOne
  <2>6. s * e = e * s
    BY <2>3, <2>4
  <2>7. QED
    BY <2>2, <2>3, <2>5, <2>6
<1>6. m[Bits + 1] <= m[Bits]
  <2> DEFINE e == Entry(B, Bits)
             x == p[Bits - 1]
             q == p[Bits]
  <2>1. Bits \in 1..Bits /\ Bits \in 1..(Bits + 1) /\ Bits + 1 \in 1..(Bits + 1) /\ (Bits + 1) - 1 = Bits
    BY <1>1
  <2>2. t[Bits + 1] = One /\ t[Bits] = MulQ96(One, e) /\ q = MulQ96(x, e) /\ e \in 1..One
    BY <2>1, EntryType DEF IsUp, IsDown
  <2>3. x \in Nat /\ q \in Nat /\ m[Bits + 1] = q * One /\ m[Bits] = x * t[Bits]
    BY <1>2, <1>3, <2>1, <2>2
  <2> HIDE DEF e, x, q
  <2>4. e \in Nat
    BY <1>1, <2>2
  <2>5. One * q <= x * e /\ t[Bits] = e
    BY <2>2, <2>3, <2>4, MulFacts, MulOne
  <2>6. One * q = q * One
    BY <1>1, <2>3
  <2>7. QED
    BY <2>3, <2>5, <2>6
<1> DEFINE S == {j \in Nat : j <= Slack => /\ m[2] <= m[j + 2] + j * d
                                          /\ m[j + 1] <= m[1] + j * d}
<1>7. 0 \in S
  <2>1. m[1] \in Nat /\ m[2] \in Nat /\ 0 * d = 0
    BY <1>1, <1>3
  <2>2. QED
    BY <2>1
<1>8. ASSUME NEW j \in S PROVE j + 1 \in S
  <2> SUFFICES ASSUME j + 1 <= Slack
               PROVE  /\ m[2] <= m[(j + 1) + 2] + (j + 1) * d
                      /\ m[(j + 1) + 1] <= m[1] + (j + 1) * d
    OBVIOUS
  <2>1. /\ j + 1 \in 1..Bits /\ j + 2 \in 1..Bits /\ (j + 1) + 1 = j + 2 /\ (j + 1) + 2 = (j + 2) + 1
        /\ j + 1 \in 1..(Bits + 1) /\ j + 2 \in 1..(Bits + 1) /\ (j + 2) + 1 \in 1..(Bits + 1)
        /\ 1 \in 1..(Bits + 1) /\ 2 \in 1..(Bits + 1) /\ j \in Nat /\ j <= Slack
    BY <1>1
  <2>2. /\ m[j + 1] \in Nat /\ m[j + 2] \in Nat /\ m[(j + 2) + 1] \in Nat
        /\ m[1] \in Nat /\ m[2] \in Nat
    BY <1>3, <2>1
  <2>3. m[j + 2] <= m[(j + 2) + 1] + d /\ m[(j + 1) + 1] <= m[j + 1] + d
    BY <1>4, <2>1
  <2>4. m[2] <= m[j + 2] + j * d /\ m[j + 1] <= m[1] + j * d
    BY <2>1
  <2>5. (j + 1) * d = j * d + d /\ j * d \in Nat
    BY <1>1, <2>1
  <2>6. QED
    BY <1>1, <2>1, <2>2, <2>3, <2>4, <2>5
<1>9. S = Nat
  <2> HIDE DEF S
  <2>1. S \subseteq Nat
    BY DEF S
  <2>2. QED
    BY <1>7, <1>8, <2>1, SetOfAllNaturals
<1>10. m[2] <= m[Bits + 1] + Slack * d /\ m[Bits] <= m[1] + Slack * d
  <2>1. Slack \in S
    BY ONLY <1>1, <1>9
  <2>2. Slack + 2 = Bits + 1 /\ Slack + 1 = Bits /\ Slack <= Slack
    BY <1>1
  <2>3. QED
    BY <2>1, <2>2
<1>11. /\ m[1] = One * t[1] /\ m[Bits + 1] = One * p[Bits]
       /\ t[1] \in Nat /\ p[Bits] \in Nat
  <2>1. /\ 1 \in 1..(Bits + 1) /\ Bits + 1 \in 1..(Bits + 1) /\ 1 - 1 = 0
        /\ (Bits + 1) - 1 = Bits
    BY <1>1
  <2>2. p[0] = One /\ t[Bits + 1] = One
    BY DEF IsUp, IsDown
  <2>3. t[1] \in Nat /\ p[Bits] \in Nat
    BY <1>2, <2>1
  <2>4. m[1] = One * t[1] /\ m[Bits + 1] = p[Bits] * One
    BY <1>3, <2>1, <2>2
  <2>5. QED
    BY <1>1, <2>3, <2>4
<1>12. Slack * d < One * Slack
  <2>1. Slack * d = One * Slack - Slack
    BY <1>1 DEF d
  <2>2. QED
    BY <1>1, <2>1
<1>13. /\ m[1] \in Nat /\ m[2] \in Nat /\ m[Bits] \in Nat /\ m[Bits + 1] \in Nat
       /\ Slack * d \in Nat /\ One * Slack \in Nat
  <2>1. 1 \in 1..(Bits + 1) /\ 2 \in 1..(Bits + 1) /\ Bits \in 1..(Bits + 1) /\ Bits + 1 \in 1..(Bits + 1)
    BY <1>1
  <2>2. QED
    BY <1>1, <1>3, <2>1
<1>14. t[1] < p[Bits] + Slack
  <2>1. One * (p[Bits] + Slack) = One * p[Bits] + One * Slack
    BY <1>1, <1>11
  <2>2. One * t[1] < One * (p[Bits] + Slack)
    BY <1>5, <1>10, <1>11, <1>12, <1>13, <2>1
  <2>3. p[Bits] + Slack \in Int /\ t[1] \in Int
    BY <1>1, <1>11
  <2>4. QED
    BY ONLY <1>1, <2>2, <2>3, CancelLess
<1>15. p[Bits] < t[1] + Slack
  <2>1. One * (t[1] + Slack) = One * t[1] + One * Slack
    BY <1>1, <1>11
  <2>2. One * p[Bits] < One * (t[1] + Slack)
    BY <1>6, <1>10, <1>11, <1>12, <1>13, <2>1
  <2>3. t[1] + Slack \in Int /\ p[Bits] \in Int
    BY <1>1, <1>11
  <2>4. QED
    BY ONLY <1>1, <2>2, <2>3, CancelLess
<1>16. QED
  BY <1>14, <1>15

-----------------------------------------------------------------------------
(* The prices of ticks are products. *)

\* The function of values of a product from the lowest bit on.
IsProductOf(f, B, m) ==
    f = [i \in 0..m |-> IF i = 0 THEN One
                        ELSE IF i \in B THEN MulQ96(f[i - 1], PriceAtBit[i]) ELSE f[i - 1]]

\* There is one for all entries.
LEMMA ProductExists == ASSUME NEW B PROVE \A m \in Nat : \E f : IsProductOf(f, B, m)
<1> DEFINE S == {m \in Nat : \E f : IsProductOf(f, B, m)}
<1>1. 0 \in S
  <2> DEFINE f == [i \in 0..0 |-> One]
  <2>1. \A i \in 0..0 : f[i] = IF i = 0 THEN One
                               ELSE IF i \in B THEN MulQ96(f[i - 1], PriceAtBit[i]) ELSE f[i - 1]
    OBVIOUS
  <2>2. IsProductOf(f, B, 0)
    BY <2>1, Zenon DEF IsProductOf
  <2>3. QED
    BY <2>2
<1>2. ASSUME NEW m \in S PROVE m + 1 \in S
  <2>1. PICK f : IsProductOf(f, B, m)
    OBVIOUS
  <2>2. m \in Nat
    OBVIOUS
  <2> DEFINE g == [i \in 0..(m + 1) |->
                     IF i = m + 1 THEN IF i \in B THEN MulQ96(f[m], PriceAtBit[i]) ELSE f[m] ELSE f[i]]
  <2>3. \A i \in 0..m : f[i] = IF i = 0 THEN One
                               ELSE IF i \in B THEN MulQ96(f[i - 1], PriceAtBit[i]) ELSE f[i - 1]
    BY <2>1 DEF IsProductOf
  <2>4. \A i \in 0..(m + 1) : g[i] = IF i = 0 THEN One
                                     ELSE IF i \in B THEN MulQ96(g[i - 1], PriceAtBit[i]) ELSE g[i - 1]
    BY <2>2, <2>3
  <2>5. IsProductOf(g, B, m + 1)
    BY <2>4, Zenon DEF IsProductOf
  <2> HIDE DEF g
  <2>6. QED
    BY <2>2, <2>5
<1>3. S = Nat
  <2> HIDE DEF S
  <2>1. S \subseteq Nat
    BY DEF S
  <2>2. QED
    BY <1>1, <1>2, <2>1, SetOfAllNaturals
<1>4. QED
  BY <1>3

\* Its values are the products.
LEMMA ProductIsUp == ASSUME NEW B, NEW f, IsProductOf(f, B, Bits) PROVE IsUp(f, B)
<1> DEFINE S == {j \in Nat : j <= Bits => f[j] \in Nat}
<1>1. Bits \in Nat /\ One \in Nat /\ \A i \in 1..Bits : PriceAtBit[i] \in 1..One
  BY TableTypes
<1>2. f[0] = One
  BY <1>1 DEF IsProductOf
<1>3. \A i \in 1..Bits : f[i] = IF i \in B THEN MulQ96(f[i - 1], PriceAtBit[i]) ELSE f[i - 1]
  BY <1>1 DEF IsProductOf
<1>4. 0 \in S
  BY <1>1, <1>2
<1>5. ASSUME NEW j \in S PROVE j + 1 \in S
  <2> SUFFICES ASSUME j + 1 <= Bits PROVE f[j + 1] \in Nat
    OBVIOUS
  <2>1. j + 1 \in 1..Bits /\ (j + 1) - 1 = j /\ f[j] \in Nat
    BY <1>1
  <2>2. f[j + 1] = MulQ96(f[j], PriceAtBit[j + 1]) \/ f[j + 1] = f[j]
    BY <1>3, <2>1
  <2>3. MulQ96(f[j], PriceAtBit[j + 1]) \in Nat
    BY <1>1, <2>1, MulFacts
  <2>4. QED
    BY <2>1, <2>2, <2>3
<1>6. S = Nat
  <2> HIDE DEF S
  <2>1. S \subseteq Nat
    BY DEF S
  <2>2. QED
    BY <1>4, <1>5, <2>1, SetOfAllNaturals
<1>7. ASSUME NEW i \in 1..Bits PROVE f[i] = MulQ96(f[i - 1], Entry(B, i))
  <2>1. i - 1 \in Nat /\ i - 1 <= Bits
    BY <1>1
  <2>2. f[i - 1] \in Nat
    BY <1>6, <2>1
  <2>3. MulQ96(f[i - 1], One) = f[i - 1]
    BY <2>2, MulOne
  <2>4. QED
    BY <1>3, <2>3 DEF Entry
<1>8. QED
  BY <1>2, <1>7 DEF IsUp

\* The price of a tick is the product for its bits.
LEMMA PriceIsProduct ==
    ASSUME NEW n
    PROVE  \E f : IsUp(f, BitsOf(n)) /\ PriceBelowOne(n) = f[Bits]
<1> DEFINE f == PriceOfBits(n)
<1>1. Bits \in Nat
  BY TableTypes
<1>2. f = CHOOSE h : IsProduct(h, n, Bits)
  BY Zenon DEF PriceOfBits, IsProduct, Bits
<1> HIDE DEF f
<1>3. PICK g : IsProductOf(g, BitsOf(n), Bits)
  BY <1>1, ProductExists
<1>4. ASSUME NEW h PROVE IsProductOf(h, BitsOf(n), Bits) <=> IsProduct(h, n, Bits)
  <2>1. \A i \in 1..Bits : i \in BitsOf(n) <=> BitSet(n, i)
    BY DEF BitsOf
  <2> DEFINE F(i) == IF i = 0 THEN One
                     ELSE IF i \in BitsOf(n) THEN MulQ96(h[i - 1], PriceAtBit[i]) ELSE h[i - 1]
             G(i) == IF i = 0 THEN One
                     ELSE IF BitSet(n, i) THEN MulQ96(h[i - 1], PriceAtBit[i]) ELSE h[i - 1]
  <2>2. ASSUME NEW i \in 0..Bits PROVE F(i) = G(i)
    <3>1. i = 0 \/ i \in 1..Bits
      BY <1>1
    <3>2. QED
      BY <2>1, <3>1, Zenon
  <2>3. (h = [i \in 0..Bits |-> F(i)]) <=> (h = [i \in 0..Bits |-> G(i)])
    <3> HIDE DEF F, G
    <3>1. [i \in 0..Bits |-> F(i)] = [i \in 0..Bits |-> G(i)]
      BY <2>2
    <3>2. QED
      BY <3>1
  <2>4. QED
    BY <2>3, Zenon DEF IsProductOf, IsProduct
<1>5. IsProduct(f, n, Bits)
  BY <1>2, <1>3, <1>4, Zenon
<1>6. IsUp(f, BitsOf(n))
  BY <1>4, <1>5, ProductIsUp
<1>7. PriceBelowOne(n) = f[Bits]
  BY DEF PriceBelowOne, f, Bits
<1>8. QED
  BY <1>6, <1>7

\* The products of the lowest entries are those for a number with all bits set.
LEMMA LowIsProduct == IsUp(LowPrice, 1..Bits)
<1> DEFINE B == 1..Bits
           E(f) == f = [i \in 0..Bits |-> IF i = 0 THEN One ELSE MulQ96(f[i - 1], PriceAtBit[i])]
<1>1. Bits \in Nat
  BY TableTypes
<1>2. LowPrice = CHOOSE f : E(f)
  BY Zenon DEF LowPrice, Bits
<1>3. PICK g : IsProductOf(g, B, Bits)
  BY <1>1, ProductExists
<1>4. ASSUME NEW h PROVE IsProductOf(h, B, Bits) <=> E(h)
  <2> DEFINE F(i) == IF i = 0 THEN One
                     ELSE IF i \in B THEN MulQ96(h[i - 1], PriceAtBit[i]) ELSE h[i - 1]
             G(i) == IF i = 0 THEN One ELSE MulQ96(h[i - 1], PriceAtBit[i])
  <2>1. ASSUME NEW i \in 0..Bits PROVE F(i) = G(i)
    <3>1. i = 0 \/ i \in B
      BY <1>1
    <3> HIDE DEF B
    <3>2. QED
      BY <3>1, Zenon
  <2>2. (h = [i \in 0..Bits |-> F(i)]) <=> (h = [i \in 0..Bits |-> G(i)])
    <3> HIDE DEF F, G
    <3>1. [i \in 0..Bits |-> F(i)] = [i \in 0..Bits |-> G(i)]
      BY <2>1
    <3>2. QED
      BY <3>1
  <2>3. QED
    BY <2>2, Zenon DEF IsProductOf
<1> HIDE DEF E, B
<1>5. E(LowPrice)
  BY <1>2, <1>3, <1>4, Zenon
<1>6. IsUp(LowPrice, B)
  BY <1>4, <1>5, ProductIsUp
<1>7. QED
  BY <1>6 DEF B

\* The price of every number is at most one.
LEMMA PriceType == ASSUME NEW n PROVE PriceBelowOne(n) \in 0..One
<1>1. PICK f : IsUp(f, BitsOf(n)) /\ PriceBelowOne(n) = f[Bits]
  BY PriceIsProduct
<1>2. Bits \in 0..Bits
  BY TableTypes
<1>3. QED
  BY <1>1, <1>2, UpTypes

-----------------------------------------------------------------------------
(* Neighbouring ticks *)

\* The price falls by a factor of a/b at every carry, before rounding.
FallsBy(a, b) == \A k \in 1..Bits : b * LowPrice[k - 1] >= a * PriceAtBit[k]

\* Two products with the same next factor keep their distance but for the rounding.
LEMMA Deficit ==
    ASSUME NEW a \in Nat, NEW b \in Nat, NEW x \in Nat, NEW y \in Nat, NEW x1 \in Nat, NEW y1 \in Nat,
           NEW e \in 1..One, NEW c \in Nat,
           One * (a * y) <= One * (b * x) + c,
           x * e <= One * x1 + (One - 1), One * y1 <= y * e
    PROVE  One * (a * y1) <= One * (b * x1) + (c + b * (One - 1))
<1> DEFINE d == One - 1
           g == b * d
<1>1. One \in Nat \ {0} /\ d \in Nat /\ e \in Nat /\ e <= One /\ g \in Nat
  BY TableTypes, ProductNat
<1>2. a * (One * y1) <= a * (y * e)
  BY <1>1, ScaleLeq
<1>3. e * (One * (a * y)) <= e * (One * (b * x) + c)
  BY <1>1, ScaleLeq
<1>4. b * (x * e) <= b * (One * x1 + d)
  BY <1>1, ScaleLeq
<1>5. e * c <= One * c
  <2>1. c * e <= c * One
    BY <1>1, ScaleLeq
  <2>2. QED
    BY <1>1, <2>1
<1> DEFINE u == a * (One * y1)
           v == a * (y * e)
           w == b * (x * e)
           z == b * (One * x1)
<1>6. /\ e * (One * (a * y)) = One * v
      /\ e * (One * (b * x) + c) = One * w + e * c
      /\ b * (One * x1 + d) = z + g
  BY <1>1
<1>7. u \in Int /\ v \in Int /\ w \in Int /\ z \in Int
  BY <1>1
<1>8. One * (a * y1) = u /\ One * (b * x1) = z
  BY <1>1
<1>9. u <= v /\ w <= z + g
  BY <1>2, <1>4, <1>6
<1> HIDE DEF u, v, w, z, g, d
<1>10. One * v <= One * (w + c)
  <2>1. One * (w + c) = One * w + One * c
    BY <1>1, <1>7
  <2>2. One * v \in Int /\ One * w \in Int /\ e * c \in Int /\ One * c \in Int
    BY <1>1, <1>7
  <2>3. QED
    BY <2>1, <2>2, <1>3, <1>5, <1>6
<1>11. v <= w + c
  <2>1. w + c \in Int
    BY <1>7
  <2>2. QED
    BY ONLY <1>1, <1>7, <1>10, <2>1, CancelLeq
<1>12. u <= z + (c + g)
  BY <1>1, <1>7, <1>11, <1>9
<1>13. QED
  BY <1>8, <1>12 DEF g, d

\* The price of the next tick below one is lower by a factor of a/b, but for the roundings
\* of the products above the carry.
LEMMA Neighbours ==
    ASSUME Slack > 0, NEW a \in 1..One, NEW b \in 1..One, FallsBy(a, b),
           NEW n \in Nat, n < LastTick
    PROVE  a * PriceBelowOne(n + 1) < b * PriceBelowOne(n) + b * Slack
<1> DEFINE d == One - 1
           g == b * d
<1>1. /\ One \in Nat \ {0} /\ Bits \in Nat \ {0} /\ d \in Nat /\ Slack \in Nat /\ Bits = Slack + 1
      /\ a \in Nat /\ b \in Nat \ {0} /\ g \in Nat
  <2>1. One \in Nat \ {0} /\ d \in Nat /\ a \in Nat /\ b \in Nat \ {0}
    BY TableTypes
  <2>2. g \in Nat
    BY <2>1, ProductNat
  <2>3. QED
    BY <2>1, <2>2, TableTypes DEF Slack
<1>2. PICK p : IsUp(p, BitsOf(n)) /\ PriceBelowOne(n) = p[Bits]
  BY PriceIsProduct
<1>3. PICK q : IsUp(q, BitsOf(n + 1)) /\ PriceBelowOne(n + 1) = q[Bits]
  BY PriceIsProduct
<1>4. PICK k \in 1..Bits :
        /\ k \notin BitsOf(n) /\ k \in BitsOf(n + 1)
        /\ \A i \in 1..(k - 1) : i \in BitsOf(n) /\ i \notin BitsOf(n + 1)
        /\ \A i \in (k + 1)..Bits : i \in BitsOf(n) <=> i \in BitsOf(n + 1)
  BY Carry
<1> DEFINE B == BitsOf(n)
           C == BitsOf(n + 1)
<1>5. \A i \in 0..Bits : p[i] \in Nat /\ q[i] \in Nat /\ LowPrice[i] \in Nat
  <2>1. \A j \in 0..One : j \in Nat
    BY <1>1
  <2>2. QED
    BY <1>2, <1>3, <2>1, LowIsProduct, UpTypes
<1>6. k \in Nat /\ k >= 1 /\ k <= Bits
  BY <1>1
<1>7. \A i \in 1..Bits : /\ p[i] = MulQ96(p[i - 1], Entry(B, i))
                         /\ q[i] = MulQ96(q[i - 1], Entry(C, i))
                         /\ LowPrice[i] = MulQ96(LowPrice[i - 1], Entry(1..Bits, i))
  BY <1>2, <1>3, LowIsProduct DEF IsUp
<1>8. p[0] = One /\ q[0] = One /\ LowPrice[0] = One
  BY <1>2, <1>3, LowIsProduct DEF IsUp
<1>9. p[k - 1] = LowPrice[k - 1] /\ q[k - 1] = One
  <2> DEFINE S == {j \in Nat : j < k => p[j] = LowPrice[j] /\ q[j] = One}
  <2>1. 0 \in S
    BY <1>8
  <2>2. ASSUME NEW j \in S PROVE j + 1 \in S
    <3> SUFFICES ASSUME j + 1 < k PROVE p[j + 1] = LowPrice[j + 1] /\ q[j + 1] = One
      OBVIOUS
    <3>1. j + 1 \in 1..Bits /\ j + 1 \in 1..(k - 1) /\ (j + 1) - 1 = j
      BY <1>1, <1>6
    <3>2. p[j] = LowPrice[j] /\ q[j] = One
      BY <1>6
    <3>3. Entry(B, j + 1) = PriceAtBit[j + 1] /\ Entry(C, j + 1) = One
          /\ Entry(1..Bits, j + 1) = PriceAtBit[j + 1]
      BY <1>4, <3>1 DEF Entry
    <3>4. MulQ96(One, One) = One
      BY <1>1, MulOne
    <3>5. QED
      BY <1>7, <3>1, <3>2, <3>3, <3>4
  <2>3. S = Nat
    <3> HIDE DEF S
    <3>1. S \subseteq Nat
      BY DEF S
    <3>2. QED
      BY <2>1, <2>2, <3>1, SetOfAllNaturals
  <2>4. k - 1 \in Nat /\ k - 1 < k
    BY <1>6
  <2>5. QED
    BY <2>3, <2>4
<1>10. p[k] = LowPrice[k - 1] /\ q[k] = PriceAtBit[k]
  <2>1. Entry(B, k) = One /\ Entry(C, k) = PriceAtBit[k]
    BY <1>4 DEF Entry
  <2>2. k - 1 \in 0..Bits
    BY <1>1, <1>6
  <2>3. PriceAtBit[k] \in 1..One
    BY TableTypes
  <2>4. PriceAtBit[k] \in Nat
    BY <1>1, <2>3
  <2>5. LowPrice[k - 1] \in Nat
    BY <1>5, <2>2
  <2>6. MulQ96(LowPrice[k - 1], One) = LowPrice[k - 1] /\ MulQ96(One, PriceAtBit[k]) = PriceAtBit[k]
    BY <2>4, <2>5, MulOne
  <2>7. QED
    BY <1>7, <1>9, <2>1, <2>6
<1> HIDE DEF d, g
<1> DEFINE S == {j \in Nat : k + j <= Bits => One * (a * q[k + j]) <= One * (b * p[k + j]) + j * g}
<1>11. 0 \in S
  <2>1. a * q[k] <= b * p[k]
    BY <1>10 DEF FallsBy
  <2>2. k \in 0..Bits
    BY <1>1, <1>6
  <2>3. a * q[k] \in Int /\ b * p[k] \in Int
    BY <1>1, <1>5, <2>2
  <2>4. One * (a * q[k]) <= One * (b * p[k])
    BY ONLY <1>1, <2>1, <2>3, ScaleLeq
  <2>5. k + 0 = k /\ 0 * g = 0
    BY <1>1, <1>6
  <2>6. One * (b * p[k]) + 0 = One * (b * p[k])
    BY <1>1, <2>3
  <2>7. QED
    BY <2>4, <2>5, <2>6
<1>12. ASSUME NEW j \in S PROVE j + 1 \in S
  <2> SUFFICES ASSUME k + (j + 1) <= Bits
               PROVE  One * (a * q[k + (j + 1)]) <= One * (b * p[k + (j + 1)]) + (j + 1) * g
    OBVIOUS
  <2> DEFINE i == k + (j + 1)
             e == Entry(B, i)
             x == p[k + j]
             y == q[k + j]
             x1 == p[i]
             y1 == q[i]
             c == j * g
  <2>1. /\ j \in Nat /\ i \in 1..Bits /\ i \in (k + 1)..Bits /\ i - 1 = k + j /\ i \in 0..Bits
        /\ k + j \in 0..Bits /\ k + j <= Bits
    BY <1>1, <1>6
  <2>2. One * (a * y) <= One * (b * x) + c
    BY <2>1
  <2>3. x \in Nat /\ y \in Nat /\ x1 \in Nat /\ y1 \in Nat /\ c \in Nat
    BY <1>1, <1>5, <2>1, ProductNat
  <2>4. e \in 1..One /\ Entry(C, i) = e
    BY <1>4, <2>1, EntryType DEF Entry
  <2>5. x1 = MulQ96(x, e) /\ y1 = MulQ96(y, e)
    BY <1>7, <2>1, <2>4
  <2>6. (j + 1) * g = c + b * (One - 1)
    BY <1>1, <2>1 DEF g, d
  <2> HIDE DEF i, e, x, y, x1, y1, c
  <2>7. x * e <= One * x1 + (One - 1) /\ One * y1 <= y * e
    BY <2>3, <2>4, <2>5, MulFacts
  <2>8. b \in Nat
    BY <1>1
  <2>9. One * (a * y1) <= One * (b * x1) + (c + b * (One - 1))
    BY ONLY <1>1, <2>2, <2>3, <2>4, <2>7, <2>8, Deficit
  <2>10. QED
    BY <2>6, <2>9 DEF i, x1, y1
<1>13. S = Nat
  <2> HIDE DEF S
  <2>1. S \subseteq Nat
    BY DEF S
  <2>2. QED
    BY <1>11, <1>12, <2>1, SetOfAllNaturals
<1> DEFINE j == Bits - k
           x == p[Bits]
           y == q[Bits]
<1>14. j \in Nat /\ k + j = Bits /\ j <= Slack /\ Bits <= Bits
  BY <1>1, <1>6
<1> HIDE DEF j
<1>15. One * (a * y) <= One * (b * x) + j * g
  <2>1. j \in S
    BY ONLY <1>13, <1>14
  <2>2. QED
    BY <2>1, <1>14
<1>16. x \in Nat /\ y \in Nat
  <2>1. Bits \in 0..Bits
    BY <1>1
  <2>2. QED
    BY <1>5, <2>1
<1> HIDE DEF S, x, y
<1>17. j * g < One * (b * Slack)
  <2>1. g * j <= g * Slack
    BY <1>1, <1>14, ScaleLeq
  <2>2. g * Slack = One * (b * Slack) - b * Slack /\ g * j = j * g
    BY <1>1, <1>14 DEF g, d
  <2>3. b * Slack \in Nat \ {0} /\ g * Slack \in Int /\ g * j \in Int /\ One * (b * Slack) \in Int
    BY <1>1, <1>14
  <2>4. QED
    BY <2>1, <2>2, <2>3
<1>18. One * (a * y) < One * (b * x + b * Slack)
  <2>1. One * (b * x + b * Slack) = One * (b * x) + One * (b * Slack)
    BY <1>1, <1>16
  <2>2. One * (a * y) \in Int /\ One * (b * x) \in Int /\ One * (b * Slack) \in Int /\ j * g \in Int
    BY <1>1, <1>14, <1>16
  <2>3. QED
    BY <2>1, <2>2, <1>15, <1>17
<1>19. a * y < b * x + b * Slack
  <2>1. a * y \in Int /\ b * x + b * Slack \in Int
    BY <1>1, <1>16
  <2>2. QED
    BY ONLY <1>1, <1>18, <2>1, CancelLess
<1>20. QED
  BY <1>2, <1>3, <1>19 DEF x, y

-----------------------------------------------------------------------------
(* Prices below one *)

Lowest == PriceBelowOne(MaxTick)

\* Prices fall by at least the error of a product, down to the price of the last tick, and
\* every number above that has a price lower still.
PricesFall ==
    /\ Slack > 0
    /\ Lowest > 0
    /\ \A n \in 0..MaxTick : PriceBelowOne(n) >= Lowest
    /\ \A n \in 0..(MaxTick - 1) : PriceBelowOne(n) >= PriceBelowOne(n + 1) + Slack
    /\ \A n \in (MaxTick + 1)..LastTick : PriceBelowOne(n) + Slack < Lowest

\* A difference of a factor a/b is more than the error of two products.
LEMMA FactorExceedsError ==
    ASSUME NEW a \in Nat, NEW b \in Nat \ {0}, NEW x \in Nat, NEW y \in Nat, NEW low \in Nat,
           NEW l \in Nat \ {0},
           (a - b) * low >= b * (2 * l - 1), a * y < b * x + b * l, low <= y
    PROVE  a > b /\ x >= y + l
<1> DEFINE c == a - b
           h == 2 * l - 1
<1>1. h \in Nat \ {0} /\ c \in Int
  OBVIOUS
<1>2. b * h \in Nat \ {0}
  BY <1>1
<1>3. c * low >= b * h
  OBVIOUS
<1>4. a = b + c
  OBVIOUS
<1> HIDE DEF c, h
<1>5. c > 0
  <2>1. c * low > 0
    BY <1>1, <1>2, <1>3
  <2>2. ~(c <= 0)
    BY <1>1, <2>1
  <2>3. QED
    BY <1>1, <2>2
<1>6. c * low <= c * y
  BY <1>1, <1>5, ScaleLeq
<1>7. b * y + c * y < b * x + b * l
  BY <1>1, <1>4
<1>8. b * h = 2 * (b * l) - b
  BY DEF h
<1>9. b * (y + l) < b * (x + 1)
  <2>1. b * (y + l) = b * y + b * l /\ b * (x + 1) = b * x + b
    OBVIOUS
  <2>2. /\ b * y \in Int /\ b * l \in Int /\ b * x \in Int /\ c * y \in Int /\ c * low \in Int
        /\ b * h \in Int
    BY <1>1
  <2>3. QED
    BY <1>3, <1>6, <1>7, <1>8, <2>1, <2>2
<1>10. y + l < x + 1
  <2>1. y + l \in Int /\ x + 1 \in Int
    OBVIOUS
  <2>2. QED
    BY ONLY <1>9, <2>1, CancelLess, b \in Nat \ {0}
<1>11. QED
  BY <1>1, <1>4, <1>5, <1>10

\* Beyond the last tick the error does not reach up to its price.
LEMMA FactorBeyond ==
    ASSUME NEW a \in Nat \ {0}, NEW b \in Nat, NEW x \in Nat, NEW y \in Nat, NEW low \in Nat, NEW l \in Nat,
           (a - b) * low >= (a + b) * l, a * y < b * x + b * l, x <= low
    PROVE  y + l < low
<1>1. b * x <= b * low
  BY ScaleLeq
<1>2. /\ (a - b) * low = a * low - b * low /\ (a + b) * l = a * l + b * l
      /\ a * (y + l) = a * y + a * l
  OBVIOUS
<1>3. /\ a * low \in Int /\ b * low \in Int /\ a * l \in Int /\ b * l \in Int /\ b * x \in Int
      /\ a * y \in Int
  OBVIOUS
<1>4. a * (y + l) < a * low
  BY <1>1, <1>2, <1>3
<1>5. y + l \in Int /\ low \in Int /\ a \in Nat \ {0}
  OBVIOUS
<1>6. QED
  BY ONLY <1>4, <1>5, CancelLess

\* In a table that fits, prices fall.
LEMMA FittingFalls == ASSUME TableFits PROVE PricesFall
<1> DEFINE P(n) == PriceBelowOne(n)
<1>1. PICK a \in 1..One, b \in 1..One :
        /\ FallsBy(a, b)
        /\ (a - b) * Lowest >= b * (2 * Slack - 1)
        /\ MaxTick < LastTick => (a - b) * Lowest >= (a + b) * Slack
  BY Zenon DEF TableFits, FallsBy, Lowest, Slack, Bits, LastTick
<1>2. Slack > 0
  BY DEF TableFits, Slack, Bits
<1>3. /\ One \in Nat \ {0} /\ Slack \in Nat \ {0} /\ a \in Nat \ {0} /\ b \in Nat \ {0}
      /\ MaxTick \in Nat \ {0} /\ LastTick \in Nat /\ MaxTick <= LastTick
  BY <1>2, TableTypes DEF Slack
<1>4. \A n : P(n) \in Nat
  BY <1>3, PriceType
<1>5. Lowest = P(MaxTick) /\ Lowest \in Nat
  BY <1>4 DEF Lowest
<1> HIDE DEF P
<1>6. \A n \in Nat : n < LastTick => a * P(n + 1) < b * P(n) + b * Slack
  BY <1>1, <1>2, Neighbours DEF P
<1>7. ASSUME NEW n \in Nat, n < MaxTick, P(n + 1) >= Lowest
      PROVE  a > b /\ P(n) >= P(n + 1) + Slack
  <2>1. a * P(n + 1) < b * P(n) + b * Slack /\ P(n) \in Nat /\ P(n + 1) \in Nat
    BY <1>3, <1>4, <1>6, <1>7
  <2>2. a \in Nat /\ Lowest <= P(n + 1)
    BY <1>3, <1>4, <1>5, <1>7
  <2>3. QED
    BY <1>1, <1>3, <1>5, <2>1, <2>2, FactorExceedsError
<1> DEFINE S == {j \in Nat : j <= MaxTick => P(MaxTick - j) >= Lowest}
<1>8. 0 \in S
  <2>1. MaxTick - 0 = MaxTick
    BY <1>3
  <2>2. QED
    BY <1>5, <2>1
<1>9. ASSUME NEW j \in S PROVE j + 1 \in S
  <2> SUFFICES ASSUME j + 1 <= MaxTick PROVE P(MaxTick - (j + 1)) >= Lowest
    OBVIOUS
  <2> DEFINE n == MaxTick - (j + 1)
  <2>1. n \in Nat /\ n < MaxTick /\ n + 1 = MaxTick - j /\ j <= MaxTick
    BY <1>3
  <2>2. P(n + 1) >= Lowest
    BY <2>1
  <2> HIDE DEF n
  <2>3. P(n) >= P(n + 1) + Slack
    BY <1>7, <2>1, <2>2
  <2>4. P(n) \in Nat /\ P(n + 1) \in Nat
    BY <1>4
  <2>5. P(n) >= Lowest
    BY <1>3, <1>5, <2>2, <2>3, <2>4
  <2>6. QED
    BY <2>5 DEF n
<1>10. S = Nat
  <2> HIDE DEF S
  <2>1. S \subseteq Nat
    BY DEF S
  <2>2. QED
    BY <1>8, <1>9, <2>1, SetOfAllNaturals
<1>11. ASSUME NEW n \in 0..MaxTick PROVE P(n) >= Lowest
  <2> DEFINE j == MaxTick - n
  <2>1. j \in Nat /\ j <= MaxTick /\ MaxTick - j = n
    BY <1>3
  <2> HIDE DEF j
  <2>2. j \in S
    BY ONLY <1>10, <2>1
  <2>3. QED
    BY <2>1, <2>2
<1>12. ASSUME NEW n \in 0..(MaxTick - 1) PROVE P(n) >= P(n + 1) + Slack
  <2>1. n \in Nat /\ n < MaxTick /\ n + 1 \in 0..MaxTick
    BY <1>3
  <2>2. QED
    BY <1>7, <1>11, <2>1
<1>13. Lowest > 0
  <2> DEFINE n == MaxTick - 1
  <2>1. n \in Nat /\ n < MaxTick /\ n + 1 = MaxTick
    BY <1>3
  <2>2. P(n + 1) >= Lowest
    BY <2>1, <1>5
  <2>3. a > b
    BY <1>7, <2>1, <2>2
  <2>4. b * (2 * Slack - 1) > 0
    BY <1>3
  <2>5. QED
    <3>1. CASE Lowest = 0
      <4>1. (a - b) * Lowest = 0
        BY <1>3, <3>1
      <4>2. b * (2 * Slack - 1) \in Int
        BY <1>3
      <4>3. QED
        BY <1>1, <2>4, <4>1, <4>2
    <3>2. QED
      BY <1>5, <3>1
<1> HIDE DEF S
<1> DEFINE U == {j \in Nat : MaxTick + 1 + j <= LastTick => P(MaxTick + 1 + j) + Slack < Lowest}
<1>14. ASSUME NEW n \in Nat, n < LastTick, MaxTick < LastTick, P(n) <= Lowest
       PROVE  P(n + 1) + Slack < Lowest
  <2>1. a * P(n + 1) < b * P(n) + b * Slack /\ P(n) \in Nat /\ P(n + 1) \in Nat
    BY <1>4, <1>6, <1>14
  <2>2. b \in Nat /\ Slack \in Nat
    BY <1>3
  <2>3. QED
    BY <1>1, <1>3, <1>5, <1>14, <2>1, <2>2, FactorBeyond
<1>15. 0 \in U
  <2> SUFFICES ASSUME MaxTick + 1 + 0 <= LastTick PROVE P(MaxTick + 1 + 0) + Slack < Lowest
    OBVIOUS
  <2>1. MaxTick + 1 + 0 = MaxTick + 1 /\ MaxTick < LastTick /\ MaxTick \in Nat
    BY <1>3
  <2>2. P(MaxTick) <= Lowest
    BY <1>5
  <2>3. QED
    BY <1>14, <2>1, <2>2
<1>16. ASSUME NEW j \in U PROVE j + 1 \in U
  <2> SUFFICES ASSUME MaxTick + 1 + (j + 1) <= LastTick PROVE P(MaxTick + 1 + (j + 1)) + Slack < Lowest
    OBVIOUS
  <2> DEFINE n == MaxTick + 1 + j
  <2>1. n \in Nat /\ n < LastTick /\ n <= LastTick /\ MaxTick < LastTick /\ MaxTick + 1 + (j + 1) = n + 1
    BY <1>3
  <2>2. n <= LastTick => P(n) + Slack < Lowest
    OBVIOUS
  <2> HIDE DEF n
  <2>3. P(n) <= Lowest
    BY <1>3, <1>4, <1>5, <2>1, <2>2
  <2>4. QED
    BY <1>14, <2>1, <2>3
<1>17. U = Nat
  <2> HIDE DEF U
  <2>1. U \subseteq Nat
    BY DEF U
  <2>2. QED
    BY <1>15, <1>16, <2>1, SetOfAllNaturals
<1>18. ASSUME NEW n \in (MaxTick + 1)..LastTick PROVE P(n) + Slack < Lowest
  <2> DEFINE j == n - (MaxTick + 1)
  <2>1. j \in Nat /\ MaxTick + 1 + j = n /\ n <= LastTick
    BY <1>3
  <2> HIDE DEF j
  <2>2. j \in U
    BY ONLY <1>17, <2>1
  <2>3. QED
    BY <2>1, <2>2
<1>19. QED
  BY <1>2, <1>11, <1>12, <1>13, <1>18 DEF PricesFall, P

-----------------------------------------------------------------------------
(* All prices *)

\* Inverted, a price is at least one, and it is rounded down by less than one unit.
LEMMA InverseBounds ==
    ASSUME NEW p \in 1..One
    PROVE  /\ InvQ96(p) \in Nat /\ InvQ96(p) >= One /\ p * InvQ96(p) <= One * One
           /\ One * One < p * InvQ96(p) + p
<1>1. One \in Nat \ {0} /\ p \in Nat \ {0} /\ p <= One
  BY TableTypes
<1> DEFINE c == One * One
<1>2. c \in Nat /\ p * One <= c
  <2>1. One * p <= One * One
    BY <1>1, ScaleLeq
  <2>2. QED
    BY <1>1, <2>1
<1>3. InvQ96(p) = c \div p
  BY DEF InvQ96, DivQ96
<1> HIDE DEF c
<1>4. One <= c \div p
  BY <1>1, <1>2, DivGeq
<1>5. c \div p \in Nat /\ p * (c \div p) <= c /\ c < p * (c \div p) + p
  BY <1>1, <1>2, DivBounds
<1>6. QED
  BY <1>1, <1>3, <1>4, <1>5 DEF c

\* A price that fits a number above p times into one is below the inverse of p.
LEMMA BelowInverse ==
    ASSUME NEW p \in 1..One, NEW q \in Nat, p < q, NEW x \in Nat, x >= One, x * q <= One * One
    PROVE  x < InvQ96(p)
<1> DEFINE y == InvQ96(p)
           c == One * One
<1>1. One \in Nat \ {0} /\ p \in Nat \ {0} /\ p <= One /\ y \in Nat /\ c < p * y + p /\ c \in Nat
  BY TableTypes, InverseBounds
<1>2. x * q <= c
  OBVIOUS
<1> HIDE DEF y, c
<1>3. x * (p + 1) <= x * q
  BY <1>1, ScaleLeq
<1>4. x * (p + 1) = p * x + x /\ p * x \in Int /\ p * y \in Int /\ x * q \in Int
  BY <1>1
<1>5. p * x < p * y
  BY <1>1, <1>2, <1>3, <1>4
<1>6. x < y
  BY <1>1, <1>5, CancelLess
<1>7. QED
  BY <1>6 DEF y

\* The price of number 0 is one.
LEMMA PriceOf0 == PriceBelowOne(0) = One
<1>1. 0 \in Ticks
  BY TickAssumption DEF Ticks
<1>2. 0 \in Int /\ 0 <= 0
  OBVIOUS
<1>3. -0 = 0
  BY <1>2, Negated, Zenon
<1>4. TickToPrice(0) = PriceBelowOne(-0)
  BY <1>1 DEF TickToPrice, PriceAtTick
<1>5. QED
  BY <1>3, <1>4, PriceOfTick0

\* From tick 0 on prices are inverses, below it they are not.
LEMMA PricesOfTicks ==
    ASSUME NEW n \in 0..MaxTick
    PROVE  /\ n \in Ticks /\ TickToPrice(n) = InvQ96(PriceBelowOne(n))
           /\ -n \in Ticks /\ TickToPrice(-n) = PriceBelowOne(n)
<1>1. MaxTick \in Nat /\ n \in Int /\ One \in Nat \ {0}
  BY TableTypes
<1>2. n \in Ticks /\ -n \in Ticks /\ -(-n) = n /\ ~(-n > 0)
  BY <1>1 DEF Ticks
<1>3. TickToPrice(-n) = PriceBelowOne(n)
  BY <1>2 DEF TickToPrice, PriceAtTick
<1>4. TickToPrice(n) = InvQ96(PriceBelowOne(n))
  <2>1. CASE n > 0
    BY <1>2, <2>1 DEF TickToPrice, PriceAtTick
  <2>2. CASE n = 0
    <3>1. InvQ96(One) = One
      BY <1>1, DivExact DEF InvQ96, DivQ96
    <3>2. QED
      BY <2>2, <3>1, PriceOf0, PriceOfTick0
  <2>3. QED
    BY <2>1, <2>2
<1>5. QED
  BY <1>2, <1>3, <1>4

\* In a table that fits, all prices are positive and increase with the tick.
THEOREM FittingAscends == ASSUME TableFits PROVE TableAscends
<1> DEFINE P(n) == PriceBelowOne(n)
<1>1. PricesFall
  BY FittingFalls
<1>2. MaxTick \in Nat \ {0} /\ One \in Nat \ {0} /\ Slack \in Nat
  BY TableTypes DEF Slack
<1>3. \A n \in 0..MaxTick : P(n) \in 1..One
  <2>1. ASSUME NEW n \in 0..MaxTick PROVE P(n) \in 1..One
    <3>1. P(n) \in 0..One /\ P(n) >= Lowest /\ Lowest > 0 /\ Lowest \in 0..One
      BY <1>1, PriceType DEF PricesFall, Lowest
    <3>2. QED
      BY <1>2, <3>1
  <2>2. QED
    BY <2>1
<1>4. \A n \in 0..(MaxTick - 1) : P(n) > P(n + 1)
  <2>1. ASSUME NEW n \in 0..(MaxTick - 1) PROVE P(n) > P(n + 1)
    <3>1. P(n) >= P(n + 1) + Slack /\ Slack > 0
      BY <1>1 DEF PricesFall
    <3>2. n \in 0..MaxTick /\ n + 1 \in 0..MaxTick
      BY <1>2
    <3>3. P(n) \in Nat /\ P(n + 1) \in Nat
      BY <1>2, <1>3, <3>2
    <3>4. QED
      BY <1>2, <3>1, <3>3
  <2>2. QED
    BY <2>1
<1> HIDE DEF P
<1>5. \A n \in 0..MaxTick : /\ n \in Ticks /\ TickToPrice(n) = InvQ96(P(n))
                            /\ -n \in Ticks /\ TickToPrice(-n) = P(n)
  BY PricesOfTicks DEF P
<1>6. ASSUME NEW t \in Ticks PROVE TickToPrice(t) \in Nat \ {0}
  <2>1. CASE t >= 0
    <3>1. t \in 0..MaxTick
      BY <1>2, <2>1 DEF Ticks
    <3>2. InvQ96(P(t)) \in Nat /\ InvQ96(P(t)) >= One
      BY <1>3, <3>1, InverseBounds
    <3>3. QED
      BY <1>2, <1>5, <3>1, <3>2
  <2>2. CASE t < 0
    <3> DEFINE n == -t
    <3>1. n \in 0..MaxTick /\ -n = t
      BY <1>2, <2>2 DEF Ticks
    <3> HIDE DEF n
    <3>2. TickToPrice(t) = P(n) /\ P(n) \in 1..One
      BY <1>3, <1>5, <3>1
    <3>3. QED
      BY <1>2, <3>2
  <2>3. QED
    BY <1>2, <2>1, <2>2 DEF Ticks
<1>7. ASSUME NEW t \in Ticks, t < MaxTick PROVE TickToPrice(t) < TickToPrice(t + 1)
  <2>1. CASE t >= 0
    <3> DEFINE p == P(t + 1)
               q == P(t)
               x == InvQ96(q)
    <3>1. t \in 0..MaxTick /\ t + 1 \in 0..MaxTick /\ t \in 0..(MaxTick - 1)
      BY <1>2, <1>7, <2>1 DEF Ticks
    <3>2. p \in 1..One /\ q \in 1..One /\ p < q
      <4>1. p \in 1..One /\ q \in 1..One /\ q > p
        BY <1>3, <1>4, <3>1
      <4>2. QED
        BY <1>2, <4>1
    <3>3. x \in Nat /\ x >= One /\ q * x <= One * One /\ q \in Nat
      BY <1>2, <3>2, InverseBounds
    <3>4. TickToPrice(t) = x /\ TickToPrice(t + 1) = InvQ96(p)
      BY <1>5, <3>1
    <3> HIDE DEF p, q, x
    <3>5. x * q <= One * One
      BY <3>3
    <3>6. x < InvQ96(p)
      BY <3>2, <3>3, <3>5, BelowInverse
    <3>7. QED
      BY <3>4, <3>6
  <2>2. CASE t < 0
    <3> DEFINE n == -(t + 1)
    <3>1. n \in 0..(MaxTick - 1) /\ n \in 0..MaxTick /\ n + 1 \in 0..MaxTick /\ -n = t + 1 /\ -(n + 1) = t
      BY <1>2, <2>2 DEF Ticks
    <3> HIDE DEF n
    <3>2. TickToPrice(t) = P(n + 1) /\ TickToPrice(t + 1) = P(n) /\ P(n) > P(n + 1)
      BY <1>4, <1>5, <3>1
    <3>3. P(n) \in Nat /\ P(n + 1) \in Nat
      BY <1>2, <1>3, <3>1
    <3>4. QED
      BY <3>2, <3>3
  <2>3. QED
    BY <1>2, <2>1, <2>2 DEF Ticks
<1>8. QED
  BY <1>6, <1>7 DEF TableAscends

-----------------------------------------------------------------------------
(* The search for a tick *)

\* The loop over the table ends with the last number whose product, from the highest bit
\* on, is not below a price of at most one.
LEMMA SearchBrackets ==
    ASSUME Slack > 0, NEW price \in Nat, price <= One, NEW n, n = DistanceBelowOne(price)
    PROVE  /\ n \in 0..LastTick
           /\ price < PriceBelowOne(n) + Slack
           /\ n < LastTick => PriceBelowOne(n + 1) < price + Slack
<1> DEFINE f == CHOOSE f : IsSearch(f, price, 1, Bits)
           W(i) == PowerOfTwo[i - 1]
<1>1. /\ Bits \in Nat \ {0} /\ One \in Nat \ {0} /\ LastTick \in Nat /\ Slack \in Nat
      /\ LastTick = W(Bits + 1) - 1
  <2>1. (Bits + 1) - 1 = Bits
    BY TableTypes
  <2>2. QED
    BY <2>1, TableTypes DEF Slack, LastTick
<1>2. /\ W(1) = 1 /\ \A i \in 1..(Bits + 1) : W(i) \in Nat \ {0}
      /\ \A i \in 1..Bits : W(i + 1) = 2 * W(i)
  <2>1. W(1) = 1
    BY <1>1, PowersAre DEF Bits
  <2>2. ASSUME NEW i \in 1..(Bits + 1) PROVE W(i) \in Nat \ {0}
    <3>1. i - 1 \in 0..Bits
      BY <1>1
    <3>2. QED
      BY <3>1, PowersPositive DEF Bits
  <2>3. ASSUME NEW i \in 1..Bits PROVE W(i + 1) = 2 * W(i)
    <3>1. i \in 0..Bits /\ (i + 1) - 1 = i /\ i # 0
      BY <1>1
    <3>2. QED
      BY <3>1, PowersAre DEF Bits
  <2>4. QED
    BY <2>1, <2>2, <2>3
<1>3. n = f[1].tick
  BY Zenon DEF DistanceBelowOne, VisitFrom, IsSearch, Bits
<1>4. IsSearch(f, price, 1, Bits)
  <2>1. Bits \in Nat
    BY <1>1
  <2>2. QED
    BY <2>1, SearchExists, Zenon
<1> HIDE DEF f
<1> DEFINE x == [i \in 1..(Bits + 1) |-> f[i].price]
           c == [i \in 1..(Bits + 1) |-> f[i].tick]
           y == [i \in 1..Bits |-> MulQ96(x[i + 1], PriceAtBit[i])]
<1>5. \A i \in 1..(Bits + 1) :
        f[i] = IF i = Bits + 1 THEN [tick |-> 0, price |-> One] ELSE VisitBit(price, i, f[i + 1])
  BY <1>4 DEF IsSearch
<1>6. x[Bits + 1] = One /\ c[Bits + 1] = 0
  <2>1. Bits + 1 \in 1..(Bits + 1)
    BY <1>1
  <2>2. f[Bits + 1] = [tick |-> 0, price |-> One]
    BY <1>5, <2>1
  <2>3. QED
    BY <2>1, <2>2
<1>7. ASSUME NEW i \in 1..Bits
      PROVE  \/ price <= y[i] /\ x[i] = y[i] /\ c[i] = c[i + 1] + W(i)
             \/ ~(price <= y[i]) /\ x[i] = x[i + 1] /\ c[i] = c[i + 1]
  <2>1. i \in 1..(Bits + 1) /\ i + 1 \in 1..(Bits + 1) /\ i # Bits + 1
    BY <1>1
  <2>2. f[i] = VisitBit(price, i, f[i + 1])
    BY <1>5, <2>1
  <2>3. y[i] = MulQ96(f[i + 1].price, PriceAtBit[i])
    BY <2>1
  <2>4. CASE price <= y[i]
    <3>1. f[i] = [tick |-> f[i + 1].tick + PowerOfTwo[i - 1], price |-> y[i]]
      BY <2>2, <2>3, <2>4 DEF VisitBit
    <3>2. QED
      BY <2>1, <2>4, <3>1
  <2>5. CASE ~(price <= y[i])
    <3>1. f[i] = f[i + 1]
      BY <2>2, <2>3, <2>5 DEF VisitBit
    <3>2. QED
      BY <2>1, <2>5, <3>1
  <2>6. QED
    BY <2>4, <2>5
<1>8. n = c[1]
  BY <1>1, <1>3
<1>9. \A i \in 1..Bits : y[i] = MulQ96(x[i + 1], PriceAtBit[i])
  OBVIOUS
<1> HIDE DEF x, c, y, W
\* The ticks reached are multiples of the power of the last bit visited, and the price
\* searched for is never passed.
<1> DEFINE S == {j \in Nat : j <= Bits =>
                   LET i == Bits + 1 - j
                   IN  /\ x[i] \in Nat /\ price <= x[i]
                       /\ \E q \in Nat : c[i] = W(i) * q}
<1>10. 0 \in S
  <2>1. Bits + 1 - 0 = Bits + 1 /\ Bits + 1 \in 1..(Bits + 1)
    BY <1>1
  <2>2. W(Bits + 1) * 0 = 0
    BY <1>2, <2>1
  <2>3. QED
    BY <1>1, <1>6, <2>1, <2>2
<1>11. ASSUME NEW j \in S PROVE j + 1 \in S
  <2> DEFINE i == Bits + 1 - (j + 1)
  <2> SUFFICES ASSUME j + 1 <= Bits
               PROVE  /\ x[i] \in Nat /\ price <= x[i]
                      /\ \E q \in Nat : c[i] = W(i) * q
    OBVIOUS
  <2>1. i \in 1..Bits /\ i \in 1..(Bits + 1) /\ i + 1 = Bits + 1 - j /\ j <= Bits
    BY <1>1
  <2>2. x[i + 1] \in Nat /\ price <= x[i + 1] /\ \E q \in Nat : c[i + 1] = W(i + 1) * q
    BY <2>1
  <2> HIDE DEF i
  <2>3. PICK q \in Nat : c[i + 1] = W(i + 1) * q
    BY <2>2
  <2>4. W(i + 1) = 2 * W(i) /\ W(i) \in Nat
    BY <1>2, <2>1
  <2>5. c[i + 1] = W(i) * (2 * q) /\ c[i + 1] + W(i) = W(i) * (2 * q + 1)
    BY <2>3, <2>4
  <2>6. \E r \in Nat : c[i] = W(i) * r
    <3>1. 2 * q \in Nat /\ 2 * q + 1 \in Nat
      OBVIOUS
    <3>2. c[i] = c[i + 1] \/ c[i] = c[i + 1] + W(i)
      BY <1>7, <2>1
    <3>3. QED
      BY <2>5, <3>1, <3>2
  <2>7. y[i] \in Nat
    <3>1. PriceAtBit[i] \in 1..One
      BY <2>1, TableTypes
    <3>2. QED
      BY <1>9, <2>1, <2>2, <3>1, MulFacts
  <2>8. x[i] \in Nat /\ price <= x[i]
    BY <1>7, <2>1, <2>2, <2>7
  <2>9. QED
    BY <2>6, <2>8
<1>12. S = Nat
  <2> HIDE DEF S
  <2>1. S \subseteq Nat
    BY DEF S
  <2>2. QED
    BY <1>10, <1>11, <2>1, SetOfAllNaturals
<1>13. ASSUME NEW i \in 1..(Bits + 1)
       PROVE  x[i] \in Nat /\ price <= x[i] /\ \E q \in Nat : c[i] = W(i) * q
  <2> DEFINE j == Bits + 1 - i
  <2>1. j \in Nat /\ j <= Bits /\ Bits + 1 - j = i
    BY <1>1
  <2> HIDE DEF j
  <2>2. j \in S
    BY ONLY <1>12, <2>1
  <2>3. QED
    BY <2>1, <2>2
<1> HIDE DEF S
<1>14. \A i \in 1..(Bits + 1) : c[i] \in Nat
  <2>1. ASSUME NEW i \in 1..(Bits + 1) PROVE c[i] \in Nat
    <3>1. PICK q \in Nat : c[i] = W(i) * q
      BY <1>13
    <3>2. W(i) \in Nat
      BY <1>2
    <3>3. QED
      BY <3>1, <3>2
  <2>2. QED
    BY <2>1
\* What is added after bit i is less than its power.
<1> DEFINE R == {j \in Nat : j <= Bits => c[j + 1] <= n /\ n < c[j + 1] + W(j + 1)}
<1>15. 0 \in R
  <2>1. c[1] \in Nat
    BY <1>1, <1>14
  <2>2. QED
    BY <1>2, <1>8, <2>1
<1>16. ASSUME NEW j \in R PROVE j + 1 \in R
  <2> SUFFICES ASSUME j + 1 <= Bits
               PROVE  c[(j + 1) + 1] <= n /\ n < c[(j + 1) + 1] + W((j + 1) + 1)
    OBVIOUS
  <2> DEFINE i == j + 1
  <2>1. i \in 1..Bits /\ i \in 1..(Bits + 1) /\ i + 1 \in 1..(Bits + 1) /\ j <= Bits /\ 1 \in 1..(Bits + 1)
    BY <1>1
  <2>2. c[i] <= n /\ n < c[i] + W(i)
    BY <2>1
  <2> HIDE DEF i
  <2>3. c[i] = c[i + 1] \/ c[i] = c[i + 1] + W(i)
    BY <1>7, <2>1
  <2>4. W(i + 1) = 2 * W(i) /\ W(i) \in Nat
    BY <1>2, <2>1
  <2>5. c[i] \in Nat /\ c[i + 1] \in Nat /\ n \in Nat
    BY <1>8, <1>14, <2>1
  <2>6. c[i + 1] <= n /\ n < c[i + 1] + W(i + 1)
    BY <2>2, <2>3, <2>4, <2>5
  <2>7. QED
    BY <2>6 DEF i
<1>17. R = Nat
  <2> HIDE DEF R
  <2>1. R \subseteq Nat
    BY DEF R
  <2>2. QED
    BY <1>15, <1>16, <2>1, SetOfAllNaturals
<1>18. ASSUME NEW i \in 1..(Bits + 1) PROVE c[i] <= n /\ n < c[i] + W(i)
  <2> DEFINE j == i - 1
  <2>1. j \in Nat /\ j <= Bits /\ j + 1 = i
    BY <1>1
  <2> HIDE DEF j
  <2>2. j \in R
    BY ONLY <1>17, <2>1
  <2>3. QED
    BY <2>1, <2>2
<1> HIDE DEF R
<1>19. n \in 0..LastTick
  <2>1. 1 \in 1..(Bits + 1) /\ Bits + 1 \in 1..(Bits + 1)
    BY <1>1
  <2>2. n \in Nat
    BY <1>8, <1>14, <2>1
  <2>3. n < 0 + W(Bits + 1) /\ W(Bits + 1) \in Nat
    BY <1>2, <1>6, <1>18, <2>1
  <2>4. QED
    BY <1>1, <2>2, <2>3
<1>20. n \in Nat
  BY <1>1, <1>19
\* The bits of the result are the entries taken.
<1>21. \A i \in 1..(Bits + 1) : c[i] = W(i) * Shift(n, i - 1) /\ Shift(n, i - 1) \in Nat
  <2>1. ASSUME NEW i \in 1..(Bits + 1)
        PROVE  c[i] = W(i) * Shift(n, i - 1) /\ Shift(n, i - 1) \in Nat
    <3> DEFINE w == W(i)
               r == n \div w
    <3>1. w \in Nat \ {0}
      BY <1>2
    <3>2. PICK q \in Nat : c[i] = w * q
      BY <1>13
    <3>3. w * q <= n /\ n < w * q + w
      BY <1>18, <3>2
    <3>4. Shift(n, i - 1) = r
      BY DEF Shift, W
    <3> HIDE DEF w
    <3>5. q \in Int
      OBVIOUS
    <3>6. q <= r /\ r <= q /\ r \in Nat
      BY <1>20, <3>1, <3>3, <3>5, DivGeq, DivLeq, DivBounds
    <3>7. r = q
      BY <3>5, <3>6
    <3>8. QED
      BY <3>2, <3>4, <3>7 DEF w
  <2>2. QED
    BY <2>1
<1>22. ASSUME NEW i \in 1..Bits
       PROVE  i \in BitsOf(n) <=> price <= y[i]
  <2> DEFINE a == Shift(n, i - 1)
             b == Shift(n, i)
             w == W(i)
  <2>1. i \in 1..(Bits + 1) /\ i + 1 \in 1..(Bits + 1) /\ (i + 1) - 1 = i
    BY <1>1
  <2>2. c[i] = w * a /\ a \in Nat /\ c[i + 1] = W(i + 1) * b /\ b \in Nat
    BY <1>21, <2>1
  <2>3. W(i + 1) = 2 * w /\ w \in Nat \ {0}
    BY <1>2, <2>1
  <2>4. i \in BitsOf(n) <=> a % 2 = 1
    BY DEF BitsOf, BitSet, Shift
  <2>5. b = a \div 2
    BY <1>20, ShiftHalves
  <2> HIDE DEF a, b, w
  <2>6. w * a = 2 * (w * b) + w \/ w * a = 2 * (w * b)
    BY <1>7, <2>2, <2>3 DEF w
  <2>7. CASE price <= y[i]
    <3>1. c[i] = c[i + 1] + w
      BY <1>7, <2>7 DEF w
    <3>2. w * a = w * (2 * b + 1)
      BY <2>2, <2>3, <3>1
    <3>3. a = 2 * b + 1
      <4>1. 2 * b + 1 \in Int /\ a \in Int
        BY <2>2
      <4>2. QED
        BY ONLY <2>3, <3>2, <4>1
    <3>4. a % 2 = 1
      BY <2>2, <3>3
    <3>5. QED
      BY <2>4, <2>7, <3>4
  <2>8. CASE ~(price <= y[i])
    <3>1. c[i] = c[i + 1]
      BY <1>7, <2>8
    <3>2. w * a = w * (2 * b)
      BY <2>2, <2>3, <3>1
    <3>3. a = 2 * b
      <4>1. 2 * b \in Int /\ a \in Int
        BY <2>2
      <4>2. QED
        BY ONLY <2>3, <3>2, <4>1
    <3>4. a % 2 # 1
      BY <2>2, <3>3
    <3>5. QED
      BY <2>4, <2>8, <3>4
  <2>9. QED
    BY <2>7, <2>8
<1>23. IsDown(x, BitsOf(n))
  <2>1. ASSUME NEW i \in 1..Bits PROVE x[i] = MulQ96(x[i + 1], Entry(BitsOf(n), i))
    <3>1. i + 1 \in 1..(Bits + 1)
      BY <1>1
    <3>2. MulQ96(x[i + 1], One) = x[i + 1]
      BY <1>13, <3>1, MulOne
    <3>3. QED
      BY <1>7, <1>9, <1>22, <3>2 DEF Entry
  <2>2. QED
    BY <1>6, <2>1 DEF IsDown
<1>24. price < PriceBelowOne(n) + Slack
  <2>1. PICK p : IsUp(p, BitsOf(n)) /\ PriceBelowOne(n) = p[Bits]
    BY PriceIsProduct
  <2>2. x[1] < p[Bits] + Slack
    BY <1>23, <2>1, OrderOfFactors
  <2>3. x[1] \in Nat /\ price <= x[1]
    BY <1>1, <1>13
  <2>4. p[Bits] \in Nat
    BY <1>1, <2>1, PriceType
  <2>5. QED
    BY <1>1, <2>1, <2>2, <2>3, <2>4
\* The entry of the carry was not taken.
<1>25. ASSUME n < LastTick PROVE PriceBelowOne(n + 1) < price + Slack
  <2>1. PICK k \in 1..Bits :
          /\ k \notin BitsOf(n) /\ k \in BitsOf(n + 1)
          /\ \A i \in 1..(k - 1) : i \in BitsOf(n) /\ i \notin BitsOf(n + 1)
          /\ \A i \in (k + 1)..Bits : i \in BitsOf(n) <=> i \in BitsOf(n + 1)
    BY <1>20, <1>25, Carry
  <2> DEFINE t == [i \in 1..(Bits + 1) |-> IF i <= k THEN y[k] ELSE x[i]]
  <2>2. ~(price <= y[k])
    BY <1>22, <2>1
  <2>3. x[k + 1] \in Nat /\ y[k] = MulQ96(x[k + 1], PriceAtBit[k]) /\ y[k] \in Nat
    <3>1. k + 1 \in 1..(Bits + 1) /\ PriceAtBit[k] \in 1..One
      BY <1>1, TableTypes
    <3>2. QED
      BY <1>9, <1>13, <3>1, MulFacts
  <2>4. ASSUME NEW i \in 1..Bits PROVE t[i] = MulQ96(t[i + 1], Entry(BitsOf(n + 1), i))
    <3>1. i \in 1..(Bits + 1) /\ i + 1 \in 1..(Bits + 1) /\ k \in Nat /\ i \in Nat
      BY <1>1
    <3>2. CASE i < k
      <4>1. i \in 1..(k - 1) /\ i <= k /\ i + 1 <= k
        BY <3>1, <3>2
      <4>2. Entry(BitsOf(n + 1), i) = One
        BY <2>1, <4>1 DEF Entry
      <4>3. t[i] = y[k] /\ t[i + 1] = y[k]
        BY <3>1, <4>1
      <4>4. MulQ96(y[k], One) = y[k]
        BY <2>3, MulOne
      <4>5. QED
        BY <4>2, <4>3, <4>4
    <3>3. CASE i = k
      <4>1. t[i] = y[k] /\ t[i + 1] = x[k + 1]
        BY <3>1, <3>3
      <4>2. Entry(BitsOf(n + 1), i) = PriceAtBit[k]
        BY <2>1, <3>3 DEF Entry
      <4>3. QED
        BY <2>3, <4>1, <4>2
    <3>4. CASE i > k
      <4>1. i \in (k + 1)..Bits /\ ~(i <= k) /\ ~(i + 1 <= k)
        BY <3>1, <3>4
      <4>2. Entry(BitsOf(n + 1), i) = Entry(BitsOf(n), i)
        BY <2>1, <4>1 DEF Entry
      <4>3. t[i] = x[i] /\ t[i + 1] = x[i + 1]
        BY <3>1, <4>1
      <4>4. QED
        BY <1>23, <4>2, <4>3 DEF IsDown
    <3>5. QED
      BY <3>1, <3>2, <3>3, <3>4
  <2>5. t[Bits + 1] = One /\ t[1] = y[k]
    <3>1. Bits + 1 \in 1..(Bits + 1) /\ ~(Bits + 1 <= k) /\ 1 \in 1..(Bits + 1) /\ 1 <= k
      BY <1>1
    <3>2. QED
      BY <1>6, <3>1
  <2> HIDE DEF t
  <2>6. IsDown(t, BitsOf(n + 1))
    BY <2>4, <2>5 DEF IsDown
  <2>7. PICK p : IsUp(p, BitsOf(n + 1)) /\ PriceBelowOne(n + 1) = p[Bits]
    BY PriceIsProduct
  <2>8. p[Bits] < t[1] + Slack
    BY <2>6, <2>7, OrderOfFactors
  <2>9. p[Bits] \in Nat
    BY <1>1, <2>7, PriceType
  <2>10. QED
    BY <1>1, <2>2, <2>3, <2>5, <2>7, <2>8, <2>9
<1>26. QED
  BY <1>19, <1>24, <1>25

\* No entry is taken for a price above one.
LEMMA SearchAboveOne ==
    ASSUME NEW price \in Nat, price > One PROVE DistanceBelowOne(price) = 0
<1> DEFINE f == CHOOSE f : IsSearch(f, price, 1, Bits)
<1>1. Bits \in Nat \ {0} /\ One \in Nat \ {0}
  BY TableTypes
<1>2. DistanceBelowOne(price) = f[1].tick
  BY Zenon DEF DistanceBelowOne, VisitFrom, IsSearch, Bits
<1>3. IsSearch(f, price, 1, Bits)
  <2>1. Bits \in Nat
    BY <1>1
  <2>2. QED
    BY <2>1, SearchExists, Zenon
<1> HIDE DEF f
<1>4. \A i \in 1..(Bits + 1) :
        f[i] = IF i = Bits + 1 THEN [tick |-> 0, price |-> One] ELSE VisitBit(price, i, f[i + 1])
  BY <1>3 DEF IsSearch
<1> DEFINE S == {j \in Nat : j <= Bits => f[Bits + 1 - j] = [tick |-> 0, price |-> One]}
<1>5. 0 \in S
  <2>1. Bits + 1 - 0 = Bits + 1 /\ Bits + 1 \in 1..(Bits + 1)
    BY <1>1
  <2>2. f[Bits + 1] = [tick |-> 0, price |-> One]
    BY <1>4, <2>1
  <2>3. QED
    BY <2>1, <2>2
<1>6. ASSUME NEW j \in S PROVE j + 1 \in S
  <2> DEFINE i == Bits + 1 - (j + 1)
  <2> SUFFICES ASSUME j + 1 <= Bits PROVE f[i] = [tick |-> 0, price |-> One]
    OBVIOUS
  <2>1. i \in 1..Bits /\ i \in 1..(Bits + 1) /\ i # Bits + 1 /\ i + 1 = Bits + 1 - j /\ j <= Bits
    BY <1>1
  <2>2. f[i + 1] = [tick |-> 0, price |-> One]
    BY <2>1
  <2> HIDE DEF i
  <2>3. f[i] = VisitBit(price, i, f[i + 1])
    BY <1>4, <2>1
  <2>4. PriceAtBit[i] \in 1..One
    BY <2>1, TableTypes
  <2>5. MulQ96(One, PriceAtBit[i]) = PriceAtBit[i]
    BY <1>1, <2>4, MulOne
  <2>6. ~(price <= PriceAtBit[i])
    BY <1>1, <2>4
  <2>7. QED
    BY <2>2, <2>3, <2>5, <2>6 DEF VisitBit
<1>7. S = Nat
  <2> HIDE DEF S
  <2>1. S \subseteq Nat
    BY DEF S
  <2>2. QED
    BY <1>5, <1>6, <2>1, SetOfAllNaturals
<1>8. f[1] = [tick |-> 0, price |-> One]
  <2>1. Bits \in Nat /\ Bits <= Bits /\ Bits + 1 - Bits = 1
    BY <1>1
  <2>2. Bits \in S
    BY ONLY <1>7, <2>1
  <2>3. QED
    BY <2>1, <2>2
<1>9. QED
  BY <1>2, <1>8

-----------------------------------------------------------------------------
(* The tick of a price *)

\* The number found for a price from the lowest price to one: the price is at that number
\* or between the prices of its neighbours.
LEMMA SearchFinds ==
    ASSUME PricesFall, NEW price \in Nat, Lowest <= price, price <= One,
           NEW n, n = DistanceBelowOne(price)
    PROVE  /\ n \in 0..MaxTick
           /\ price < PriceBelowOne(n) + Slack
           /\ n < MaxTick => PriceBelowOne(n + 1) < price + Slack
<1>1. MaxTick \in Nat /\ LastTick \in Nat /\ MaxTick <= LastTick /\ Slack > 0 /\ Slack \in Nat
  BY TableTypes DEF PricesFall, Slack
<1>2. /\ n \in 0..LastTick
      /\ price < PriceBelowOne(n) + Slack
      /\ n < LastTick => PriceBelowOne(n + 1) < price + Slack
  BY <1>1, SearchBrackets
<1>3. PriceBelowOne(n) \in Nat /\ Lowest \in Nat
  <2>1. \A j \in 0..One : j \in Nat
    BY TableTypes
  <2>2. QED
    BY <2>1, PriceType DEF Lowest
<1>4. n <= MaxTick
  <2> SUFFICES ASSUME n > MaxTick PROVE FALSE
    BY <1>1, <1>2
  <2>1. n \in (MaxTick + 1)..LastTick
    BY <1>1, <1>2
  <2>2. PriceBelowOne(n) + Slack < Lowest
    BY <2>1 DEF PricesFall
  <2>3. QED
    BY <1>1, <1>2, <1>3, <2>2
<1>5. QED
  BY <1>1, <1>2, <1>4

\* Up to tick 0 priceToTick undoes tickToPrice.
LEMMA RoundTrip ==
    ASSUME PricesFall, NEW t \in Ticks, t <= 0 PROVE PriceToTick(TickToPrice(t)) = t
<1> DEFINE m == -t
           P(i) == PriceBelowOne(i)
           price == P(m)
           n == DistanceBelowOne(price)
<1>1. /\ MaxTick \in Nat \ {0} /\ Slack \in Nat \ {0} /\ One \in Nat \ {0}
      /\ m \in 0..MaxTick /\ -m = t
  BY TableTypes DEF PricesFall, Slack, Ticks
<1>2. \A i : P(i) \in 0..One
  BY PriceType
<1>3. Lowest \in Nat /\ Lowest > 0
  <2>1. Lowest \in 0..One
    BY PriceType DEF Lowest
  <2>2. QED
    BY <1>1, <2>1 DEF PricesFall
<1> HIDE DEF m
<1>4. /\ \A i \in 0..MaxTick : P(i) >= Lowest
      /\ \A i \in 0..(MaxTick - 1) : P(i) >= P(i + 1) + Slack
  BY DEF PricesFall
<1>5. TickToPrice(t) = price
  BY <1>1, PricesOfTicks
<1>6. \A i \in 0..MaxTick : TickToPrice(-i) = P(i)
  BY PricesOfTicks
<1>7. price \in Nat /\ price <= One /\ Lowest <= price
  <2>1. price \in 0..One /\ price >= Lowest
    BY <1>1, <1>2, <1>4
  <2>2. QED
    BY <1>1, <1>3, <2>1
<1>8. /\ n \in 0..MaxTick /\ price < P(n) + Slack
      /\ n < MaxTick => P(n + 1) < price + Slack
  BY <1>7, SearchFinds
<1>9. P(0) = One
  BY PriceOf0
\* Prices of numbers in order.
<1>10. ASSUME NEW i \in 0..MaxTick, NEW j \in 0..MaxTick, i < j PROVE P(i) >= P(j) + Slack
  <2> DEFINE S == {k \in Nat : i + 1 + k <= MaxTick => P(i) >= P(i + 1 + k) + Slack}
  <2>1. i \in 0..(MaxTick - 1) /\ i \in Nat
    BY <1>1, <1>10
  <2>2. 0 \in S
    <3>1. i + 1 + 0 = i + 1
      BY <2>1
    <3>2. QED
      BY <1>4, <2>1, <3>1
  <2>3. ASSUME NEW k \in S PROVE k + 1 \in S
    <3> SUFFICES ASSUME i + 1 + (k + 1) <= MaxTick PROVE P(i) >= P(i + 1 + (k + 1)) + Slack
      OBVIOUS
    <3> DEFINE l == i + 1 + k
    <3>1. l \in 0..(MaxTick - 1) /\ l <= MaxTick /\ i + 1 + (k + 1) = l + 1
      BY <1>1, <2>1
    <3>2. l <= MaxTick => P(i) >= P(l) + Slack
      OBVIOUS
    <3> HIDE DEF l
    <3>3. P(l) >= P(l + 1) + Slack
      BY <1>4, <3>1
    <3>4. P(i) \in 0..One /\ P(l) \in 0..One /\ P(l + 1) \in 0..One
      BY <1>2
    <3> HIDE DEF P
    <3>5. P(i) >= P(l + 1) + Slack
      BY <1>1, <3>1, <3>2, <3>3, <3>4
    <3>6. QED
      BY <3>1, <3>5
  <2>4. S = Nat
    <3> HIDE DEF S
    <3>1. S \subseteq Nat
      BY DEF S
    <3>2. QED
      BY <2>2, <2>3, <3>1, SetOfAllNaturals
  <2> DEFINE k == j - (i + 1)
  <2>5. k \in Nat /\ i + 1 + k = j /\ j <= MaxTick
    BY <1>1, <1>10
  <2> HIDE DEF k
  <2>6. k \in S
    BY ONLY <2>4, <2>5
  <2>7. QED
    BY <2>5, <2>6
<1> HIDE DEF P, price, n
<1>11. \A i : P(i) \in Nat
  BY <1>1, <1>2
<1>12. n <= m
  <2> SUFFICES ASSUME n > m PROVE FALSE
    BY <1>1, <1>8
  <2>1. m < n
    BY <1>1, <1>8
  <2>2. P(m) >= P(n) + Slack
    BY <1>1, <1>8, <1>10, <2>1
  <2>3. P(m) < P(n) + Slack /\ P(n) \in Nat /\ P(m) \in Nat
    BY <1>8, <1>11 DEF price
  <2>4. QED
    BY <1>1, <2>2, <2>3
<1>13. n = m \/ n + 1 = m
  <2> SUFFICES ASSUME n + 1 < m PROVE FALSE
    BY <1>1, <1>8, <1>12
  <2>1. n + 1 \in 0..MaxTick /\ n < MaxTick
    BY <1>1, <1>8
  <2>2. P(n + 1) >= P(m) + Slack
    BY <1>1, <1>10, <2>1
  <2>3. P(n + 1) < P(m) + Slack /\ P(n + 1) \in Nat /\ P(m) \in Nat
    BY <1>8, <1>11, <2>1 DEF price
  <2>4. QED
    BY <1>1, <2>2, <2>3
<1>14. CASE price >= PriceValueForTick1
  <2>1. price = One
    <3>1. PriceValueForTick1 \in Nat /\ PriceValueForTick1 >= One
      BY PriceForTick1
    <3>2. QED
      BY <1>1, <1>7, <1>14, <3>1
  <2>2. m = 0
    <3> SUFFICES ASSUME m # 0 PROVE FALSE
      OBVIOUS
    <3>1. 0 \in 0..MaxTick /\ 0 < m
      BY <1>1
    <3>2. P(0) >= P(m) + Slack
      BY <1>1, <1>10, <3>1
    <3>3. QED
      BY <1>1, <1>9, <2>1, <3>2 DEF price
  <2>3. n = 0 /\ t = 0
    BY <1>1, <1>8, <1>12, <2>2
  <2>4. InvQ96(One) = One
    BY <1>1, DivExact DEF InvQ96, DivQ96
  <2>5. DistanceBelowOne(InvQ96(price)) = 0
    BY <2>1, <2>3, <2>4 DEF n
  <2>6. ~(TickToPrice(0) > price)
    BY <1>1, <2>1, PriceOfTick0
  <2>7. PriceToTick(price) = 0
    BY <1>14, <2>5, <2>6 DEF PriceToTick
  <2>8. QED
    BY <1>5, <2>3, <2>7
<1>15. CASE ~(price >= PriceValueForTick1)
  <2>1. PriceToTick(price) = IF TickToPrice(-n) > price THEN (-n) - 1 ELSE -n
    BY <1>15 DEF PriceToTick, n
  <2>2. TickToPrice(-n) = P(n)
    BY <1>6, <1>8
  <2>3. CASE n = m
    <3>1. ~(P(n) > price)
      BY <1>7, <2>3 DEF price
    <3>2. QED
      BY <1>1, <1>5, <2>1, <2>2, <2>3, <3>1
  <2>4. CASE n + 1 = m
    <3>1. P(n) >= P(m) + Slack
      <4>1. n < m
        BY <1>8, <2>4
      <4>2. QED
        BY <1>1, <1>8, <1>10, <4>1
    <3>2. P(n) > price
      BY <1>1, <1>11, <3>1 DEF price
    <3>3. (-n) - 1 = -m
      BY <1>8, <2>4
    <3>4. QED
      BY <1>1, <1>5, <2>1, <2>2, <3>2, <3>3
  <2>5. QED
    BY <1>13, <2>3, <2>4
<1>16. QED
  BY <1>14, <1>15

\* The price of number 2 is at most the entry of its bit.
LEMMA PriceOf2 == ASSUME Slack > 0 PROVE PriceBelowOne(2) <= PriceAtBit[2]
<1> DEFINE e == PriceAtBit[2]
<1>1. Bits \in Nat /\ Bits >= 2 /\ One \in Nat \ {0}
  BY TableTypes DEF Slack
<1>2. e \in Nat /\ e <= One
  <2>1. 2 \in 1..Bits
    BY <1>1
  <2>2. e \in 1..One
    BY <2>1, TableTypes
  <2>3. QED
    BY <1>1, <2>2
<1>3. PICK f : IsUp(f, BitsOf(2)) /\ PriceBelowOne(2) = f[Bits]
  BY PriceIsProduct
<1>4. \A i \in 0..Bits : f[i] \in Nat
  <2>1. \A j \in 0..One : j \in Nat
    BY <1>1
  <2>2. QED
    BY <1>3, <2>1, UpTypes
<1>5. 1 \notin BitsOf(2) /\ 2 \in BitsOf(2)
  <2>1. \A n \in 0..Bits : PowerOfTwo[n] = IF n = 0 THEN 1 ELSE 2 * PowerOfTwo[n - 1]
    BY PowersAre DEF Bits
  <2>2. PowerOfTwo[0] = 1
    BY <1>1, <2>1
  <2>3. PowerOfTwo[1] = 2
    BY <1>1, <2>1, <2>2
  <2>4. ~BitSet(2, 1) /\ BitSet(2, 2)
    BY <2>2, <2>3 DEF BitSet
  <2>5. QED
    BY <1>1, <2>4 DEF BitsOf
<1>6. f[2] = e
  <2>1. Entry(BitsOf(2), 1) = One /\ Entry(BitsOf(2), 2) = e
    BY <1>5 DEF Entry
  <2>2. 1 \in 1..Bits /\ 2 \in 1..Bits /\ 1 - 1 = 0 /\ 2 - 1 = 1
    BY <1>1
  <2>3. f[0] = One /\ f[1] = MulQ96(f[0], One) /\ f[2] = MulQ96(f[1], e)
    BY <1>3, <2>1, <2>2 DEF IsUp
  <2> HIDE DEF e
  <2>4. QED
    BY <1>1, <1>2, <2>3, MulOne
<1> HIDE DEF e
<1> DEFINE S == {j \in Nat : j + 2 <= Bits => f[j + 2] <= e}
<1>7. 0 \in S
  BY <1>2, <1>6
<1>8. ASSUME NEW j \in S PROVE j + 1 \in S
  <2> SUFFICES ASSUME (j + 1) + 2 <= Bits PROVE f[(j + 1) + 2] <= e
    OBVIOUS
  <2> DEFINE i == j + 3
             g == Entry(BitsOf(2), i)
             x == f[j + 2]
  <2>1. i \in 1..Bits /\ i \in 0..Bits /\ i - 1 = j + 2 /\ j + 2 \in 0..Bits /\ (j + 1) + 2 = i /\ j + 2 <= Bits
    BY <1>1
  <2>2. f[i] = MulQ96(x, g) /\ g \in 1..One
    BY <1>3, <2>1, EntryType DEF IsUp
  <2>3. x <= e /\ x \in Nat /\ f[i] \in Nat
    BY <1>4, <2>1
  <2> HIDE DEF i, g, x
  <2>4. f[i] <= x
    BY <2>2, <2>3, MulFacts
  <2>5. f[i] <= e
    BY <1>2, <2>3, <2>4
  <2>6. QED
    BY <2>1, <2>5
<1>9. S = Nat
  <2> HIDE DEF S
  <2>1. S \subseteq Nat
    BY DEF S
  <2>2. QED
    BY <1>7, <1>8, <2>1, SetOfAllNaturals
<1>10. f[Bits] <= e
  <2> DEFINE j == Bits - 2
  <2>1. j \in Nat /\ j + 2 = Bits /\ Bits <= Bits
    BY <1>1
  <2> HIDE DEF j
  <2>2. j \in S
    BY ONLY <1>9, <2>1
  <2>3. QED
    BY <2>1, <2>2
<1>11. QED
  BY <1>3, <1>10 DEF e

\* From tick 2 on every price is inverted.
LEMMA InvertedFrom2 ==
    ASSUME TableFits, InversionFits, NEW t \in Ticks, t > 1
    PROVE  PriceValueForTick1 <= TickToPrice(t)
<1> DEFINE e == PriceAtBit[2]
           p == PriceBelowOne(2)
           c == One * One
<1>1. PricesFall /\ TableAscends
  BY FittingFalls, FittingAscends
<1>2. /\ One \in Nat \ {0} /\ MaxTick \in Nat /\ t \in Int /\ t <= MaxTick /\ Slack > 0
      /\ Bits \in Nat /\ Bits >= 2
  BY <1>1, TableTypes DEF PricesFall, Ticks, Slack
<1>3. 2 \in 0..MaxTick /\ 2 \in 1..Bits
  BY <1>2
<1>4. e \in Nat \ {0} /\ p \in Nat \ {0} /\ p <= e
  <2>1. e \in 1..One
    BY <1>3, TableTypes
  <2>2. p \in 0..One /\ Lowest \in 0..One /\ Lowest > 0 /\ p >= Lowest
    BY <1>1, <1>3, PriceType DEF PricesFall, Lowest
  <2>3. p <= e
    BY <1>2, PriceOf2
  <2> HIDE DEF e, p
  <2>4. QED
    BY <1>2, <2>1, <2>2, <2>3
<1>5. InvQ96(e) = c \div e /\ InvQ96(p) = c \div p /\ TickToPrice(2) = InvQ96(p) /\ c \in Nat
  BY <1>2, <1>3, PricesOfTicks, ProductNat DEF InvQ96, DivQ96
<1> HIDE DEF e, p, c
<1>6. c \div e <= c \div p
  <2> DEFINE q == c \div e
  <2>1. q \in Nat /\ e * q <= c
    BY <1>4, <1>5, DivBounds
  <2> HIDE DEF q
  <2>2. q * p <= q * e
    BY <1>4, <2>1, ScaleLeq
  <2>3. p * q <= c /\ q \in Int
    BY <1>4, <1>5, <2>1, <2>2
  <2>4. q <= c \div p
    BY <1>4, <1>5, <2>3, DivGeq
  <2>5. QED
    BY <2>4 DEF q
<1>7. PriceValueForTick1 \in Nat /\ PriceValueForTick1 <= c \div e
  BY <1>5, PriceForTick1 DEF InversionFits, e
<1>8. PriceValueForTick1 <= TickToPrice(2) /\ TickToPrice(2) \in Nat
  <2>1. c \div e \in Nat /\ c \div p \in Nat
    BY <1>4, <1>5, DivBounds
  <2>2. QED
    BY <1>5, <1>6, <1>7, <2>1
<1>9. CASE t = 2
  BY <1>8, <1>9
<1>10. CASE t > 2
  <2>1. 2 \in Ticks /\ 2 < t
    BY <1>2, <1>10 DEF Ticks
  <2>2. TickToPrice(2) < TickToPrice(t) /\ TickToPrice(t) \in Nat
    BY <1>1, <2>1, Ascending DEF TableAscends
  <2>3. QED
    BY <1>7, <1>8, <2>2
<1>11. QED
  BY <1>2, <1>9, <1>10

\* The tick found is the last one whose price is not above the given one, or a neighbour.
LEMMA TickFound ==
    ASSUME TableFits, InversionFits, NEW price \in Nat, NEW b \in Ticks,
           TickToPrice(-MaxTick) <= price, price <= TickToPrice(MaxTick),
           TickToPrice(b) <= price, \A u \in Ticks : u > b => TickToPrice(u) > price
    PROVE  PriceToTick(price) \in (b - 1)..(b + 1)
<1> DEFINE P(i) == PriceBelowOne(i)
<1>1. PricesFall /\ TableAscends
  BY FittingFalls, FittingAscends
<1>2. /\ MaxTick \in Nat \ {0} /\ Slack \in Nat \ {0} /\ One \in Nat \ {0}
      /\ b \in Int /\ b <= MaxTick /\ b >= -MaxTick
  BY <1>1, TableTypes DEF PricesFall, Slack, Ticks
<1>3. \A i : P(i) \in Nat /\ P(i) <= One
  <2>1. \A j \in 0..One : j \in Nat /\ j <= One
    BY <1>2
  <2>2. QED
    BY <2>1, PriceType
<1>4. /\ Lowest \in Nat /\ Lowest > 0 /\ Lowest = P(MaxTick)
      /\ \A i \in 0..MaxTick : P(i) >= Lowest
      /\ \A i \in 0..(MaxTick - 1) : P(i) >= P(i + 1) + Slack
  BY <1>1, <1>3 DEF PricesFall, Lowest
<1>5. \A i \in 0..MaxTick : /\ i \in Ticks /\ TickToPrice(i) = InvQ96(P(i))
                            /\ -i \in Ticks /\ TickToPrice(-i) = P(i)
  BY PricesOfTicks
<1>6. \A i \in 0..MaxTick : P(i) \in 1..One
  BY <1>2, <1>3, <1>4
<1>7. Lowest <= price /\ price <= InvQ96(Lowest)
  <2>1. MaxTick \in 0..MaxTick
    BY <1>2
  <2>2. QED
    BY <1>4, <1>5, <2>1
<1>8. ASSUME NEW t \in Ticks PROVE TickToPrice(t) <= price <=> t <= b
  <2>1. TickToPrice(t) \in Nat /\ TickToPrice(b) \in Nat /\ t \in Int
    BY <1>1, <1>2 DEF TableAscends, Ticks
  <2>2. CASE t > b
    BY <1>2, <2>1, <2>2
  <2>3. CASE t = b
    BY <1>2, <2>3
  <2>4. CASE t < b
    <3>1. TickToPrice(t) < TickToPrice(b)
      BY <1>1, <2>4, Ascending
    <3>2. QED
      BY <1>2, <2>1, <2>4, <3>1
  <2>5. QED
    BY <1>2, <2>1, <2>2, <2>3, <2>4
<1>9. 0 \in Ticks /\ TickToPrice(0) = One /\ (One <= price <=> 0 <= b)
  <2>1. 0 \in 0..MaxTick
    BY <1>2
  <2>2. QED
    BY <1>5, <1>8, <2>1, PriceOfTick0
<1>10. PriceValueForTick1 \in Nat /\ PriceValueForTick1 >= One
  BY PriceForTick1
<1> HIDE DEF P
<1>11. CASE price < PriceValueForTick1 /\ price <= One
  <2> DEFINE n == DistanceBelowOne(price)
             found == -n
  <2>1. /\ n \in 0..MaxTick /\ price < P(n) + Slack
        /\ n < MaxTick => P(n + 1) < price + Slack
    BY <1>1, <1>7, <1>11, SearchFinds DEF P
  <2>2. PriceToTick(price) = IF TickToPrice(found) > price THEN found - 1 ELSE found
    <3>1. ~(price >= PriceValueForTick1)
      BY <1>10, <1>11
    <3>2. QED
      BY <3>1 DEF PriceToTick
  <2> HIDE DEF n
  <2>3. TickToPrice(found) = P(n) /\ found \in Ticks /\ (P(n) <= price <=> found <= b)
    BY <1>5, <1>8, <2>1
  <2>4. found \in Int /\ n \in Nat /\ n <= MaxTick /\ found = -n
    BY <1>2, <2>1
  <2>5. CASE P(n) > price
    <3>1. n < MaxTick
      <4>1. n # MaxTick
        BY <1>3, <1>4, <1>7, <2>5
      <4>2. QED
        BY <1>2, <2>4, <4>1
    <3>2. b < found
      <4>1. ~(P(n) <= price)
        BY <1>3, <2>5
      <4>2. QED
        BY <1>2, <2>3, <2>4, <4>1
    <3>3. found - 2 <= b
      <4>1. CASE n + 1 < MaxTick
        <5>1. n + 1 \in 0..(MaxTick - 1) /\ (n + 1) + 1 = n + 2 /\ n + 2 \in 0..MaxTick
              /\ -(n + 2) = found - 2
          BY <1>2, <2>4, <4>1
        <5>2. P(n + 1) >= P(n + 2) + Slack /\ P(n + 1) < price + Slack
          BY <1>4, <2>1, <3>1, <5>1
        <5>3. P(n + 2) <= price
          BY <1>2, <1>3, <5>2
        <5>4. found - 2 \in Ticks /\ TickToPrice(found - 2) = P(n + 2)
          BY <1>5, <5>1
        <5>5. QED
          BY <1>8, <5>3, <5>4
      <4>2. CASE ~(n + 1 < MaxTick)
        BY <1>2, <2>4, <3>1, <4>2
      <4>3. QED
        BY <4>1, <4>2
    <3>4. PriceToTick(price) = found - 1
      BY <2>2, <2>3, <2>5
    <3> HIDE DEF found
    <3>5. QED
      BY <1>2, <2>4, <3>2, <3>3, <3>4
  <2>6. CASE ~(P(n) > price)
    <3>1. found <= b
      <4>1. P(n) <= price
        BY <1>3, <2>6
      <4>2. QED
        BY <2>3, <4>1
    <3>2. b <= found
      <4>1. CASE n > 0
        <5>1. n - 1 \in 0..(MaxTick - 1) /\ n - 1 \in 0..MaxTick /\ (n - 1) + 1 = n /\ -(n - 1) = found + 1
          BY <1>2, <2>4, <4>1
        <5>2. P(n - 1) >= P(n) + Slack /\ price < P(n) + Slack
          BY <1>4, <2>1, <5>1
        <5>3. ~(P(n - 1) <= price)
          BY <1>2, <1>3, <5>2
        <5>4. found + 1 \in Ticks /\ TickToPrice(found + 1) = P(n - 1)
          BY <1>5, <5>1
        <5>5. ~(found + 1 <= b)
          BY <1>8, <5>3, <5>4
        <5> HIDE DEF found
        <5>6. QED
          BY <1>2, <2>4, <5>5
      <4>2. CASE n = 0
        <5>1. 1 \in 0..MaxTick /\ 0 \in 0..(MaxTick - 1) /\ 0 + 1 = 1
          BY <1>2
        <5>2. 1 \in Ticks /\ TickToPrice(1) > TickToPrice(0) /\ TickToPrice(1) \in Nat
          <6>1. 1 \in Ticks /\ 0 \in Ticks /\ 0 < 1
            BY <1>5, <1>9, <5>1
          <6>2. TickToPrice(0) < TickToPrice(1) /\ TickToPrice(0) \in Nat /\ TickToPrice(1) \in Nat
            BY <1>1, <6>1, Ascending DEF TableAscends
          <6>3. QED
            BY <6>1, <6>2
        <5>3. ~(TickToPrice(1) <= price)
          BY <1>2, <1>9, <1>11, <5>2
        <5>4. ~(1 <= b)
          BY <1>8, <5>2, <5>3
        <5>5. found = 0
          <6>1. 0 \in Int /\ 0 <= 0
            OBVIOUS
          <6>2. QED
            BY <4>2, <6>1, Negated, Zenon
        <5> HIDE DEF found
        <5>6. QED
          BY <1>2, <5>4, <5>5
      <4>3. QED
        BY <2>4, <4>1, <4>2
    <3>3. PriceToTick(price) = found
      BY <2>2, <2>3, <2>6
    <3> HIDE DEF found
    <3>4. QED
      BY <1>2, <2>4, <3>1, <3>2, <3>3
  <2>7. QED
    BY <2>5, <2>6
<1>12. CASE price < PriceValueForTick1 /\ price > One
  <2>1. DistanceBelowOne(price) = 0
    BY <1>12, SearchAboveOne
  <2>2. -DistanceBelowOne(price) = 0
    <3>1. 0 \in Int /\ 0 <= 0
      OBVIOUS
    <3>2. QED
      BY <2>1, <3>1, Negated, Zenon
  <2>3. ~(price >= PriceValueForTick1) /\ ~(TickToPrice(0) > price)
    BY <1>2, <1>9, <1>10, <1>12
  <2>4. PriceToTick(price) = 0
    BY <2>2, <2>3 DEF PriceToTick
  <2>5. 0 <= b
    BY <1>2, <1>9, <1>12
  <2>6. b <= 1
    <3> SUFFICES ASSUME b > 1 PROVE FALSE
      BY <1>2
    <3>1. PriceValueForTick1 <= TickToPrice(b)
      BY InvertedFrom2
    <3>2. TickToPrice(b) \in Nat
      BY <1>1 DEF TableAscends
    <3>3. QED
      BY <1>10, <1>12, <3>1, <3>2
  <2>7. QED
    BY <1>2, <2>4, <2>5, <2>6
<1>13. CASE ~(price < PriceValueForTick1)
  <2> DEFINE q == InvQ96(price)
             n == DistanceBelowOne(q)
             c == One * One
  <2>1. price >= One /\ price >= PriceValueForTick1 /\ price \in Nat \ {0}
    BY <1>2, <1>10, <1>13
  <2>2. c \in Nat
    BY <1>2, ProductNat
  <2>3. q = c \div price
    BY DEF InvQ96, DivQ96
  <2> HIDE DEF c
  <2>4. q \in Nat /\ price * q <= c /\ c < price * q + price
    BY <2>1, <2>2, <2>3, DivBounds
  <2>5. q <= One
    <3>1. One * One <= One * price
      BY <1>2, <2>1, ScaleLeq
    <3>2. c < price * One + price
      BY <1>2, <2>1, <3>1 DEF c
    <3>3. One \in Int
      BY <1>2
    <3>4. QED
      BY <2>1, <2>2, <2>3, <3>2, <3>3, DivLeq
  <2>6. Lowest <= q
    <3>1. MaxTick \in 0..MaxTick
      BY <1>2
    <3>2. Lowest \in 1..One
      BY <1>4, <1>6, <3>1
    <3>3. InvQ96(Lowest) \in Nat /\ Lowest * InvQ96(Lowest) <= c
      BY <3>2, InverseBounds DEF c
    <3>4. Lowest * price <= Lowest * InvQ96(Lowest)
      BY <1>4, <1>7, <3>3, ScaleLeq
    <3>5. Lowest * price \in Int /\ Lowest * InvQ96(Lowest) \in Int /\ Lowest * price = price * Lowest
      BY <1>4, <3>3
    <3>6. price * Lowest <= c
      BY <2>2, <3>3, <3>4, <3>5
    <3>7. Lowest \in Int
      BY <1>4
    <3>8. QED
      BY <2>1, <2>2, <2>3, <3>6, <3>7, DivGeq
  <2>7. PriceToTick(price) = IF TickToPrice(n) > price THEN n - 1 ELSE n
    BY <2>1 DEF PriceToTick
  <2> HIDE DEF q
  <2>8. /\ n \in 0..MaxTick /\ q < P(n) + Slack
        /\ n < MaxTick => P(n + 1) < q + Slack
    BY <1>1, <2>4, <2>5, <2>6, SearchFinds DEF P
  <2> HIDE DEF n
  <2>9. n \in Nat /\ n <= MaxTick /\ n \in Int
    BY <1>2, <2>8
  <2>10. n - 1 <= b
    <3>1. CASE n = 0
      BY <1>2, <1>9, <2>1, <3>1
    <3>2. CASE n > 0
      <4> DEFINE p == P(n - 1)
                 x == InvQ96(p)
      <4>1. n - 1 \in 0..(MaxTick - 1) /\ n - 1 \in 0..MaxTick /\ (n - 1) + 1 = n
        BY <1>2, <2>9, <3>2
      <4>2. p >= P(n) + Slack /\ p \in 1..One /\ p \in Nat
        BY <1>3, <1>4, <1>6, <4>1
      <4>3. q + 1 <= p
        BY <1>2, <1>3, <2>4, <2>8, <4>2
      <4>4. n - 1 \in Ticks /\ TickToPrice(n - 1) = x
        BY <1>5, <4>1
      <4>5. x \in Nat /\ p * x <= c
        BY <4>2, InverseBounds DEF c
      <4> HIDE DEF p, x
      <4>6. x <= price
        <5> SUFFICES ASSUME x > price PROVE FALSE
          BY <4>5, <2>1
        <5>1. price <= x
          BY <4>5, <2>1
        <5>2. (q + 1) * price <= (q + 1) * x
          BY <2>1, <2>4, <4>5, <5>1, ScaleLeq
        <5>3. x * (q + 1) <= x * p
          BY <2>4, <4>2, <4>3, <4>5, ScaleLeq
        <5>4. (q + 1) * price = price * q + price /\ (q + 1) * x = x * (q + 1) /\ x * p = p * x
          BY <2>1, <2>4, <4>2, <4>5
        <5>5. (q + 1) * price \in Int /\ x * (q + 1) \in Int /\ p * x \in Int
          BY <2>1, <2>4, <4>2, <4>5
        <5>6. QED
          BY <2>2, <2>4, <4>5, <5>2, <5>3, <5>4, <5>5
      <4>7. QED
        BY <1>8, <4>4, <4>6
    <3>3. QED
      BY <2>9, <3>1, <3>2
  <2>11. b <= n + 1
    <3>1. CASE n + 2 <= MaxTick
      <4>1. n + 1 \in 0..(MaxTick - 1) /\ n < MaxTick /\ (n + 1) + 1 = n + 2 /\ n + 2 \in 0..MaxTick
        BY <1>2, <2>9, <3>1
      <4>2. P(n + 1) >= P(n + 2) + Slack /\ P(n + 1) < q + Slack /\ P(n + 2) \in 1..One
        BY <1>4, <1>6, <2>8, <4>1
      <4>3. P(n + 2) < q
        BY <1>2, <1>3, <2>4, <4>2
      <4>4. price * q <= One * One /\ price \in Nat
        BY <2>1, <2>4 DEF c
      <4>5. price < InvQ96(P(n + 2))
        BY <2>1, <2>4, <4>2, <4>3, <4>4, BelowInverse
      <4>6. n + 2 \in Ticks /\ TickToPrice(n + 2) = InvQ96(P(n + 2)) /\ TickToPrice(n + 2) \in Nat
        <5>1. n + 2 \in Ticks /\ TickToPrice(n + 2) = InvQ96(P(n + 2))
          BY <1>5, <4>1
        <5>2. QED
          BY <1>1, <5>1 DEF TableAscends
      <4>7. ~(TickToPrice(n + 2) <= price)
        BY <2>1, <4>5, <4>6
      <4>8. ~(n + 2 <= b)
        BY <1>8, <4>6, <4>7
      <4>9. QED
        BY <1>2, <2>9, <4>8
    <3>2. CASE ~(n + 2 <= MaxTick)
      BY <1>2, <2>9, <3>2
    <3>3. QED
      BY <3>1, <3>2
  <2>12. n \in Ticks /\ TickToPrice(n) \in Nat /\ (TickToPrice(n) <= price <=> n <= b)
    <3>1. n \in Ticks
      BY <1>5, <2>8
    <3>2. QED
      BY <1>1, <1>8, <3>1 DEF TableAscends
  <2>13. CASE TickToPrice(n) > price
    <3>1. PriceToTick(price) = n - 1
      BY <2>7, <2>13
    <3>2. ~(n <= b)
      BY <2>12, <2>13
    <3>3. QED
      BY <1>2, <2>9, <2>10, <3>1, <3>2
  <2>14. CASE ~(TickToPrice(n) > price)
    <3>1. PriceToTick(price) = n
      BY <2>7, <2>14
    <3>2. n <= b
      BY <2>12, <2>14
    <3>3. QED
      BY <1>2, <2>9, <2>11, <3>1, <3>2
  <2>15. QED
    BY <2>13, <2>14
<1>14. QED
  BY <1>2, <1>10, <1>11, <1>12, <1>13

\* Every price from the lowest on has a last tick whose price is not above it.
LEMMA LastBelow ==
    ASSUME TableAscends, NEW price \in Nat, TickToPrice(-MaxTick) <= price
    PROVE  \E b \in Ticks : /\ TickToPrice(b) <= price
                            /\ \A u \in Ticks : u > b => TickToPrice(u) > price
<1> DEFINE s == {k \in 0..(2 * MaxTick) : TickToPrice(k - MaxTick) <= price}
           m == Max(s)
           b == m - MaxTick
<1>1. MaxTick \in Nat \ {0} /\ 2 * MaxTick \in Nat
  BY TableTypes
<1>2. 0 \in s
  <2>1. 0 - MaxTick = -MaxTick /\ 0 \in 0..(2 * MaxTick)
    BY <1>1
  <2>2. QED
    BY <2>1
<1>3. s \in SUBSET (0..(2 * MaxTick)) /\ s # {}
  BY <1>2
<1>4. m \in s /\ \A k \in s : k <= m
  <2> HIDE DEF s
  <2>1. QED
    BY <1>1, <1>3, MaxOfSubset
<1> HIDE DEF m
<1>5. m \in 0..(2 * MaxTick) /\ TickToPrice(b) <= price
  BY <1>4
<1>6. b \in Ticks
  BY <1>1, <1>5 DEF Ticks
<1>7. ASSUME NEW u \in Ticks, u > b PROVE TickToPrice(u) > price
  <2> DEFINE k == u + MaxTick
  <2>1. u \in Int /\ k \in 0..(2 * MaxTick) /\ k - MaxTick = u /\ k > m
    BY <1>1, <1>5, <1>7 DEF Ticks
  <2>2. ~(k <= m)
    BY <1>1, <1>5, <2>1
  <2> HIDE DEF k
  <2>3. k \notin s
    BY <1>4, <2>2
  <2>4. ~(TickToPrice(u) <= price)
    BY <2>1, <2>3
  <2>5. TickToPrice(u) \in Nat
    BY DEF TableAscends
  <2>6. QED
    BY <2>4, <2>5
<1>8. QED
  BY <1>5, <1>6, <1>7

-----------------------------------------------------------------------------
(* The table of the code *)

\* Its entries (PRICE_VALUE_FOR_BIT_POSITION_IN_Q96), with the fraction, the last tick
\* and the ratio of prices of the code.
IsTableOfCode ==
    /\ One = 79228162514264337593543950336
    /\ MaxTick = 887272
    /\ TickBase = <<10001, 10000>>
    /\ PriceAtBit = <<
         79224201403219477170569942573, 79220240490215316061937756560,
         79212319258289487113226433916, 79196479170490597288862688490,
         79164808496886665658930780291, 79101505139923049997807806614,
         78975050245229982702767995059, 78722746600537056721934508529,
         78220554859095770638340573243, 77225761753129597550065289036,
         75273969370139069689486932537, 71517125791179246722882903167,
         64556580881331167221767657719, 52601903197458624361810746399,
         34923947901690145425342545398, 15394552875315951095595078917,
         2991262837734375505310244436, 112935262922445818024280873,
         160982827401375763736068, 327099227039063106 >>

\* The powers of two of the code.
LEMMA PowersOfCode ==
    ASSUME IsTableOfCode
    PROVE  /\ Bits = 20 /\ Slack = 19 /\ LastTick = 1048575
           /\ PowerOfTwo[0] = 1 /\ PowerOfTwo[1] = 2 /\ PowerOfTwo[2] = 4 /\ PowerOfTwo[3] = 8 /\ PowerOfTwo[4] = 16
           /\ PowerOfTwo[5] = 32 /\ PowerOfTwo[6] = 64 /\ PowerOfTwo[7] = 128 /\ PowerOfTwo[8] = 256 /\ PowerOfTwo[9] = 512
           /\ PowerOfTwo[10] = 1024 /\ PowerOfTwo[11] = 2048 /\ PowerOfTwo[12] = 4096 /\ PowerOfTwo[13] = 8192 /\ PowerOfTwo[14] = 16384
           /\ PowerOfTwo[15] = 32768 /\ PowerOfTwo[16] = 65536 /\ PowerOfTwo[17] = 131072 /\ PowerOfTwo[18] = 262144 /\ PowerOfTwo[19] = 524288
<1>1. Bits = 20
  BY DEF IsTableOfCode, Bits
<1>2. \A n \in 0..20 : PowerOfTwo[n] = IF n = 0 THEN 1 ELSE 2 * PowerOfTwo[n - 1]
  BY <1>1, PowersAre DEF Bits
<1>3. /\ PowerOfTwo[0] = 1 /\ PowerOfTwo[1] = 2 /\ PowerOfTwo[2] = 4 /\ PowerOfTwo[3] = 8 /\ PowerOfTwo[4] = 16 /\ PowerOfTwo[5] = 32
      /\ PowerOfTwo[6] = 64 /\ PowerOfTwo[7] = 128 /\ PowerOfTwo[8] = 256 /\ PowerOfTwo[9] = 512 /\ PowerOfTwo[10] = 1024
  BY <1>2
<1>4. /\ PowerOfTwo[11] = 2048 /\ PowerOfTwo[12] = 4096 /\ PowerOfTwo[13] = 8192 /\ PowerOfTwo[14] = 16384 /\ PowerOfTwo[15] = 32768
      /\ PowerOfTwo[16] = 65536 /\ PowerOfTwo[17] = 131072 /\ PowerOfTwo[18] = 262144 /\ PowerOfTwo[19] = 524288 /\ PowerOfTwo[20] = 1048576
  BY <1>2, <1>3
<1>5. QED
  BY <1>1, <1>3, <1>4 DEF Slack, LastTick

\* The entries of the code, one by one.
LEMMA EntriesOfCode ==
    ASSUME IsTableOfCode
    PROVE
      /\ PriceAtBit[1] = 79224201403219477170569942573 /\ PriceAtBit[2] = 79220240490215316061937756560
      /\ PriceAtBit[3] = 79212319258289487113226433916 /\ PriceAtBit[4] = 79196479170490597288862688490
      /\ PriceAtBit[5] = 79164808496886665658930780291 /\ PriceAtBit[6] = 79101505139923049997807806614
      /\ PriceAtBit[7] = 78975050245229982702767995059 /\ PriceAtBit[8] = 78722746600537056721934508529
      /\ PriceAtBit[9] = 78220554859095770638340573243 /\ PriceAtBit[10] = 77225761753129597550065289036
      /\ PriceAtBit[11] = 75273969370139069689486932537 /\ PriceAtBit[12] = 71517125791179246722882903167
      /\ PriceAtBit[13] = 64556580881331167221767657719 /\ PriceAtBit[14] = 52601903197458624361810746399
      /\ PriceAtBit[15] = 34923947901690145425342545398 /\ PriceAtBit[16] = 15394552875315951095595078917
      /\ PriceAtBit[17] = 2991262837734375505310244436 /\ PriceAtBit[18] = 112935262922445818024280873
      /\ PriceAtBit[19] = 160982827401375763736068 /\ PriceAtBit[20] = 327099227039063106
BY DEF IsTableOfCode

\* The products of the lowest entries of the code.
LEMMA LowPricesOfCode ==
    ASSUME IsTableOfCode
    PROVE
      /\ LowPrice[0] = 79228162514264337593543950336 /\ LowPrice[1] = 79224201403219477170569942573
      /\ LowPrice[2] = 79216279775241952975272415331 /\ LowPrice[3] = 79200438895458472326222447578
      /\ LowPrice[4] = 79168766638360446862420561983 /\ LowPrice[5] = 79105460116308108260506502937
      /\ LowPrice[6] = 78978998899028367027531285049 /\ LowPrice[7] = 78726682639468570188272613141
      /\ LowPrice[8] = 78224465789067920332153814863 /\ LowPrice[9] = 77229622944689878146998348943
      /\ LowPrice[10] = 75277732974519819259364841785 /\ LowPrice[11] = 71520701558076867987262718978
      /\ LowPrice[12] = 64559808629683542212613377062 /\ LowPrice[13] = 52604533226869405709693595529
      /\ LowPrice[14] = 34925694055432477665832863681 /\ LowPrice[15] = 15395322583717487898428864008
      /\ LowPrice[16] = 2991412397137370619161096367 /\ LowPrice[17] = 112940909544429919674934975
      /\ LowPrice[18] = 160990876341527359070452 /\ LowPrice[19] = 327115581591561468
<1>1. One = 79228162514264337593543950336 /\ Bits = 20
  BY PowersOfCode DEF IsTableOfCode
<1>2. LowPrice[0] = One /\ \A i \in 1..20 : LowPrice[i] = MulQ96(LowPrice[i - 1], PriceAtBit[i])
  BY <1>1, LowIsProduct DEF IsUp, Entry
<1>3. LowPrice[1] = 79224201403219477170569942573
  BY <1>1, <1>2, EntriesOfCode DEF MulQ96
<1>4. LowPrice[2] = 79216279775241952975272415331
  BY <1>1, <1>2, <1>3, EntriesOfCode DEF MulQ96
<1>5. LowPrice[3] = 79200438895458472326222447578
  BY <1>1, <1>2, <1>4, EntriesOfCode DEF MulQ96
<1>6. LowPrice[4] = 79168766638360446862420561983
  BY <1>1, <1>2, <1>5, EntriesOfCode DEF MulQ96
<1>7. LowPrice[5] = 79105460116308108260506502937
  BY <1>1, <1>2, <1>6, EntriesOfCode DEF MulQ96
<1>8. LowPrice[6] = 78978998899028367027531285049
  BY <1>1, <1>2, <1>7, EntriesOfCode DEF MulQ96
<1>9. LowPrice[7] = 78726682639468570188272613141
  BY <1>1, <1>2, <1>8, EntriesOfCode DEF MulQ96
<1>10. LowPrice[8] = 78224465789067920332153814863
  BY <1>1, <1>2, <1>9, EntriesOfCode DEF MulQ96
<1>11. LowPrice[9] = 77229622944689878146998348943
  BY <1>1, <1>2, <1>10, EntriesOfCode DEF MulQ96
<1>12. LowPrice[10] = 75277732974519819259364841785
  BY <1>1, <1>2, <1>11, EntriesOfCode DEF MulQ96
<1>13. LowPrice[11] = 71520701558076867987262718978
  BY <1>1, <1>2, <1>12, EntriesOfCode DEF MulQ96
<1>14. LowPrice[12] = 64559808629683542212613377062
  BY <1>1, <1>2, <1>13, EntriesOfCode DEF MulQ96
<1>15. LowPrice[13] = 52604533226869405709693595529
  BY <1>1, <1>2, <1>14, EntriesOfCode DEF MulQ96
<1>16. LowPrice[14] = 34925694055432477665832863681
  BY <1>1, <1>2, <1>15, EntriesOfCode DEF MulQ96
<1>17. LowPrice[15] = 15395322583717487898428864008
  BY <1>1, <1>2, <1>16, EntriesOfCode DEF MulQ96
<1>18. LowPrice[16] = 2991412397137370619161096367
  BY <1>1, <1>2, <1>17, EntriesOfCode DEF MulQ96
<1>19. LowPrice[17] = 112940909544429919674934975
  BY <1>1, <1>2, <1>18, EntriesOfCode DEF MulQ96
<1>20. LowPrice[18] = 160990876341527359070452
  BY <1>1, <1>2, <1>19, EntriesOfCode DEF MulQ96
<1>21. LowPrice[19] = 327115581591561468
  BY <1>1, <1>2, <1>20, EntriesOfCode DEF MulQ96
<1>22. QED
  BY <1>1, <1>2, <1>3, <1>4, <1>5, <1>6, <1>7, <1>8, <1>9, <1>10, <1>11, <1>12, <1>13, <1>14, <1>15, <1>16, <1>17, <1>18, <1>19, <1>20, <1>21

\* The bits of the last tick.
LEMMA LastBitsOfCode ==
    ASSUME IsTableOfCode
    PROVE  BitsOf(MaxTick) = {4, 6, 7, 8, 9, 12, 16, 17, 19, 20}
<1>1. MaxTick = 887272 /\ Bits = 20
  BY PowersOfCode DEF IsTableOfCode
<1>2. ~BitSet(887272, 1) /\ ~BitSet(887272, 2) /\ ~BitSet(887272, 3) /\ BitSet(887272, 4)
  BY PowersOfCode DEF BitSet
<1>3. ~BitSet(887272, 5) /\ BitSet(887272, 6) /\ BitSet(887272, 7) /\ BitSet(887272, 8)
  BY PowersOfCode DEF BitSet
<1>4. BitSet(887272, 9) /\ ~BitSet(887272, 10) /\ ~BitSet(887272, 11) /\ BitSet(887272, 12)
  BY PowersOfCode DEF BitSet
<1>5. ~BitSet(887272, 13) /\ ~BitSet(887272, 14) /\ ~BitSet(887272, 15) /\ BitSet(887272, 16)
  BY PowersOfCode DEF BitSet
<1>6. BitSet(887272, 17) /\ ~BitSet(887272, 18) /\ BitSet(887272, 19) /\ BitSet(887272, 20)
  BY PowersOfCode DEF BitSet
<1>7. QED
  BY <1>1, <1>2, <1>3, <1>4, <1>5, <1>6 DEF BitsOf

\* The lowest price of the code, MIN_SQRT_RATIO but for the rounding.
LEMMA LowestOfCode == ASSUME IsTableOfCode PROVE Lowest = 4295128738
<1>1. One = 79228162514264337593543950336 /\ Bits = 20
  BY PowersOfCode DEF IsTableOfCode
<1>2. PICK f : IsUp(f, BitsOf(MaxTick)) /\ Lowest = f[Bits]
  BY PriceIsProduct DEF Lowest
<1>3. f[0] = One /\ \A i \in 1..20 : f[i] = MulQ96(f[i - 1], Entry(BitsOf(MaxTick), i))
  BY <1>1, <1>2 DEF IsUp
<1>4. \A i \in 1..20 : Entry(BitsOf(MaxTick), i)
                         = IF i \in {4, 6, 7, 8, 9, 12, 16, 17, 19, 20} THEN PriceAtBit[i] ELSE One
  BY LastBitsOfCode DEF Entry
<1>5. f[1] = 79228162514264337593543950336
  BY <1>1, <1>3, <1>4, EntriesOfCode DEF MulQ96
<1>6. f[2] = 79228162514264337593543950336
  BY <1>1, <1>3, <1>4, <1>5, EntriesOfCode DEF MulQ96
<1>7. f[3] = 79228162514264337593543950336
  BY <1>1, <1>3, <1>4, <1>6, EntriesOfCode DEF MulQ96
<1>8. f[4] = 79196479170490597288862688490
  BY <1>1, <1>3, <1>4, <1>7, EntriesOfCode DEF MulQ96
<1>9. f[5] = 79196479170490597288862688490
  BY <1>1, <1>3, <1>4, <1>8, EntriesOfCode DEF MulQ96
<1>10. f[6] = 79069872446435841478293012701
  BY <1>1, <1>3, <1>4, <1>9, EntriesOfCode DEF MulQ96
<1>11. f[7] = 78817265870793359196090044607
  BY <1>1, <1>3, <1>4, <1>10, EntriesOfCode DEF MulQ96
<1>12. f[8] = 78314471167705287172360874486
  BY <1>1, <1>3, <1>4, <1>11, EntriesOfCode DEF MulQ96
<1>13. f[9] = 77318483653229601005254437604
  BY <1>1, <1>3, <1>4, <1>12, EntriesOfCode DEF MulQ96
<1>14. f[10] = 77318483653229601005254437604
  BY <1>1, <1>3, <1>4, <1>13, EntriesOfCode DEF MulQ96
<1>15. f[11] = 77318483653229601005254437604
  BY <1>1, <1>3, <1>4, <1>14, EntriesOfCode DEF MulQ96
<1>16. f[12] = 69793310180779496749291285088
  BY <1>1, <1>3, <1>4, <1>15, EntriesOfCode DEF MulQ96
<1>17. f[13] = 69793310180779496749291285088
  BY <1>1, <1>3, <1>4, <1>16, EntriesOfCode DEF MulQ96
<1>18. f[14] = 69793310180779496749291285088
  BY <1>1, <1>3, <1>4, <1>17, EntriesOfCode DEF MulQ96
<1>19. f[15] = 69793310180779496749291285088
  BY <1>1, <1>3, <1>4, <1>18, EntriesOfCode DEF MulQ96
<1>20. f[16] = 13561299035906507317830414685
  BY <1>1, <1>3, <1>4, <1>19, EntriesOfCode DEF MulQ96
<1>21. f[17] = 512007454801273506661918080
  BY <1>1, <1>3, <1>4, <1>20, EntriesOfCode DEF MulQ96
<1>22. f[18] = 512007454801273506661918080
  BY <1>1, <1>3, <1>4, <1>21, EntriesOfCode DEF MulQ96
<1>23. f[19] = 1040342286237565107335
  BY <1>1, <1>3, <1>4, <1>22, EntriesOfCode DEF MulQ96
<1>24. f[20] = 4295128738
  BY <1>1, <1>3, <1>4, <1>23, EntriesOfCode DEF MulQ96
<1>25. QED
  BY <1>1, <1>2, <1>24

\* The table of the code fits: at every carry the price falls by 4 in 100000 at least.
THEOREM TableOfCodeFits == ASSUME IsTableOfCode PROVE TableFits
<1> DEFINE a == 100004
           b == 100000
<1>1. One = 79228162514264337593543950336 /\ Bits = 20 /\ Slack = 19
  BY PowersOfCode DEF IsTableOfCode
<1>2. a \in 1..One /\ b \in 1..One
  <2>1. One >= a /\ One >= b /\ One \in Int
    BY <1>1
  <2>2. QED
    BY <2>1
<1>3. \A k \in 1..Bits : b * LowPrice[k - 1] >= a * PriceAtBit[k]
  <2> SUFFICES ASSUME NEW k \in 1..20 PROVE 100000 * LowPrice[k - 1] >= 100004 * PriceAtBit[k]
    BY <1>1
  <2>1. CASE k \in 1..10
    BY <2>1, EntriesOfCode, LowPricesOfCode
  <2>2. CASE k \in 11..20
    BY <2>2, EntriesOfCode, LowPricesOfCode
  <2>3. QED
    BY <2>1, <2>2
<1>4. (a - b) * Lowest >= b * (2 * Slack - 1) /\ (a - b) * Lowest >= (a + b) * Slack
  BY <1>1, LowestOfCode
<1> HIDE DEF a, b
<1>5. Slack > 0
  BY <1>1
<1>6. QED
  BY <1>2, <1>3, <1>4, <1>5, Zenon DEF TableFits, Slack, Bits, Lowest

\* The code starts to invert prices below tick 2.
THEOREM InversionOfCodeFits == ASSUME IsTableOfCode PROVE InversionFits
<1> DEFINE v == DivQ96(NumberToQ96(10001), NumberToQ96(10000)) * One
           r == FloorSqrt(v)
           y == InvQ96(PriceAtBit[2])
<1>1. One = 79228162514264337593543950336
  BY DEF IsTableOfCode
<1>2. v = 6277729445560219431912173002147325116483486398265337839616
  <2>1. DivQ96(NumberToQ96(10001), NumberToQ96(10000)) = 79236085330515764027303304731
    BY <1>1 DEF DivQ96, NumberToQ96
  <2>2. QED
    BY <1>1, <2>1
<1>3. PriceValueForTick1 = r
  <2>1. v \in Nat
    BY <1>2
  <2>2. TickBase[1] = 10001 /\ TickBase[2] = 10000
    BY DEF IsTableOfCode
  <2>3. PriceValueForTick1 = Sqrt(v)
    BY <2>2 DEF PriceValueForTick1
  <2> HIDE DEF v
  <2>4. QED
    BY <2>1, <2>3, SqrtExact
<1>4. y = 79236085330515764027303304731
  BY <1>1, EntriesOfCode DEF InvQ96, DivQ96
<1>5. r \in Nat /\ r * r <= v
  <2>1. v \in Nat
    BY <1>2
  <2> HIDE DEF v
  <2>2. QED
    BY <2>1, FloorSqrtIsRoot DEF IsRoot
<1> HIDE DEF v, r, y
<1>6. v < (y + 1) * (y + 1)
  BY <1>2, <1>4
<1>7. r <= y
  <2> SUFFICES ASSUME r >= y + 1 PROVE FALSE
    BY <1>4, <1>5
  <2> DEFINE z == y + 1
  <2>1. z \in Nat /\ r >= z
    BY <1>4
  <2>2. z * z <= v => FALSE
    BY <1>2, <1>6, <2>1
  <2> HIDE DEF z
  <2>3. z * z <= r * r
    BY <1>5, <2>1
  <2>4. z * z \in Int /\ r * r \in Int /\ v \in Int
    BY <1>2, <1>5, <2>1
  <2>5. QED
    BY <1>5, <2>2, <2>3, <2>4
<1>8. QED
  BY <1>3, <1>7 DEF InversionFits, y

\* So the prices of the code ascend, and what its tokens are exchanged for at the lowest
\* price is more than the roundings.
THEOREM TableOfCodeAscends ==
    ASSUME IsTableOfCode
    PROVE  TableAscends /\ One + 2 * TickToPrice(-MaxTick) <= One * TickToPrice(-MaxTick)
<1>1. TableAscends
  BY TableOfCodeFits, FittingAscends
<1>2. MaxTick \in 0..MaxTick
  BY TableTypes
<1>3. TickToPrice(-MaxTick) = Lowest
  BY <1>2, PricesOfTicks DEF Lowest
<1>4. One = 79228162514264337593543950336
  BY DEF IsTableOfCode
<1>5. One + 2 * Lowest <= One * Lowest
  BY <1>4, LowestOfCode
<1>6. QED
  BY <1>1, <1>3, <1>5
=============================================================================
