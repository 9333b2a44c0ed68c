------------------------ MODULE DexIncentivesProofs ------------------------
(***************************************************************************)
(* Proofs about DexIncentives.  For every bootstrap offset and length of   *)
(* an epoch, the closed formula for the incentives of a range of blocks is *)
(* the sum of what the block hooks of that range mint.  For every set of   *)
(* validators, weights, amounts and scale, the shares of a payout fit into *)
(* what it unlocks, and the token calls that pay them, in whatever order   *)
(* their reads and writes interleave, are never refused and all arrive.    *)
(***************************************************************************)
EXTENDS DexIncentives, FiniteSums, SequenceTheorems

\* The formula and the hooks are both compared with Total, the sum of the schedule
\* up to a height, which is a difference of ramps that start at the epochs.
Positive(x) == IF x > 0 THEN x ELSE 0

\* The sum of LiquidityIncentivesAtHeight over the heights 0..h.
Total(h) ==
    8 * Positive(h + 1 - EpochStart(0)) - Positive(h + 1 - EpochStart(1))
      - Positive(h + 1 - EpochStart(2)) - Positive(h + 1 - EpochStart(3))
      - Positive(h + 1 - EpochStart(4))

Epochs == 0..4

-----------------------------------------------------------------------------
(* The schedule *)

\* The epochs start one EpochLength after another.
LEMMA EpochStarts ==
    /\ EpochStart(0) \in Nat
    /\ EpochStart(1) \in Nat /\ EpochStart(0) < EpochStart(1)
    /\ EpochStart(2) \in Nat /\ EpochStart(1) < EpochStart(2)
    /\ EpochStart(3) \in Nat /\ EpochStart(2) < EpochStart(3)
    /\ EpochStart(4) \in Nat /\ EpochStart(3) < EpochStart(4)
BY ScheduleAssumption DEF EpochStart

\* The incentive of a height is a natural number.
LEMMA IncentiveType ==
    ASSUME NEW h \in Int
    PROVE  LiquidityIncentivesAtHeight(h) \in Nat
BY EpochStarts DEF LiquidityIncentivesAtHeight

\* The sum of the schedule is an integer, negative heights included.
LEMMA TotalType ==
    ASSUME NEW h \in Int
    PROVE  Total(h) \in Int
BY EpochStarts DEF Total, Positive

\* Within an epoch the sum grows by the same amount at every height.
LEMMA WithinEpoch ==
    ASSUME NEW a \in Nat, NEW b \in Nat, a <= b,
           \A k \in Epochs : EpochStart(k) <= a \/ EpochStart(k) >= b
    PROVE  (b - a) * LiquidityIncentivesAtHeight(a) = Total(b - 1) - Total(a - 1)
<1> DEFINE at == LiquidityIncentivesAtHeight(a)
<1>1. /\ EpochStart(0) <= a \/ EpochStart(0) >= b
      /\ EpochStart(1) <= a \/ EpochStart(1) >= b
      /\ EpochStart(2) <= a \/ EpochStart(2) >= b
      /\ EpochStart(3) <= a \/ EpochStart(3) >= b
      /\ EpochStart(4) <= a \/ EpochStart(4) >= b
  BY DEF Epochs
<1>2. CASE a < EpochStart(0)
  <2>1. at = 0
    BY <1>2, EpochStarts DEF LiquidityIncentivesAtHeight
  <2>2. Total(b - 1) - Total(a - 1) = 0
    BY <1>1, <1>2, EpochStarts DEF Total, Positive
  <2> QED BY <2>1, <2>2
<1>3. CASE EpochStart(0) <= a /\ a < EpochStart(1)
  <2>1. at = 8
    BY <1>3, EpochStarts DEF LiquidityIncentivesAtHeight
  <2>2. Total(b - 1) - Total(a - 1) = 8 * (b - a)
    BY <1>1, <1>3, EpochStarts DEF Total, Positive
  <2> QED BY <2>1, <2>2
<1>4. CASE EpochStart(1) <= a /\ a < EpochStart(2)
  <2>1. at = 7
    BY <1>4, EpochStarts DEF LiquidityIncentivesAtHeight
  <2>2. Total(b - 1) - Total(a - 1) = 7 * (b - a)
    BY <1>1, <1>4, EpochStarts DEF Total, Positive
  <2> QED BY <2>1, <2>2
<1>5. CASE EpochStart(2) <= a /\ a < EpochStart(3)
  <2>1. at = 6
    BY <1>5, EpochStarts DEF LiquidityIncentivesAtHeight
  <2>2. Total(b - 1) - Total(a - 1) = 6 * (b - a)
    BY <1>1, <1>5, EpochStarts DEF Total, Positive
  <2> QED BY <2>1, <2>2
<1>6. CASE EpochStart(3) <= a /\ a < EpochStart(4)
  <2>1. at = 5
    BY <1>6, EpochStarts DEF LiquidityIncentivesAtHeight
  <2>2. Total(b - 1) - Total(a - 1) = 5 * (b - a)
    BY <1>1, <1>6, EpochStarts DEF Total, Positive
  <2> QED BY <2>1, <2>2
<1>7. CASE EpochStart(4) <= a
  <2>1. at = 4
    BY <1>7, EpochStarts DEF LiquidityIncentivesAtHeight
  <2>2. Total(b - 1) - Total(a - 1) = 4 * (b - a)
    BY <1>1, <1>7, EpochStarts DEF Total, Positive
  <2> QED BY <2>1, <2>2
<1> QED BY <1>2, <1>3, <1>4, <1>5, <1>6, <1>7, EpochStarts

\* One more height adds its incentive to the sum.
LEMMA TotalStep ==
    ASSUME NEW h \in Nat
    PROVE  LiquidityIncentivesAtHeight(h) = Total(h) - Total(h - 1)
<1>1. \A k \in Epochs : EpochStart(k) \in Int
  BY ScheduleAssumption DEF Epochs, EpochStart
<1>2. \A k \in Epochs : EpochStart(k) <= h \/ EpochStart(k) >= h + 1
  BY <1>1
<1>3. ((h + 1) - h) * LiquidityIncentivesAtHeight(h) = Total((h + 1) - 1) - Total(h - 1)
  BY <1>2, WithinEpoch
<1> QED BY <1>3, IncentiveType

-----------------------------------------------------------------------------
(* The formula *)

\* What the loop over the epochs has reached when it visits epoch k: the sum of
\* the schedule below its height, with no epoch before k left inside the range.
Visited(sum, k, start, end) ==
    /\ sum.height \in Nat /\ start < sum.height /\ sum.height <= end
    /\ sum.incentives = Total(sum.height - 1) - Total(start)
    /\ \A j \in Epochs : j < k => EpochStart(j) <= sum.height \/ EpochStart(j) >= end
    /\ \A j \in Epochs : j >= k =>
          EpochStart(j) <= start \/ EpochStart(j) >= sum.height

\* A turn of the loop keeps what it has reached.
LEMMA VisitKeeps ==
    ASSUME NEW start \in Nat, NEW end \in Nat, start < end,
           NEW k \in Epochs, NEW sum, Visited(sum, k, start, end)
    PROVE  Visited(VisitEpoch(sum, k, start, end), k + 1, start, end)
<1> DEFINE next == VisitEpoch(sum, k, start, end)
<1>1. \A i, j \in Epochs : i < j => EpochStart(i) < EpochStart(j)
  BY EpochStarts DEF Epochs
<1>2. \A j \in Epochs : EpochStart(j) \in Nat
  BY EpochStarts DEF Epochs
<1>3. sum.height \in Nat /\ start < sum.height /\ sum.height <= end
  BY DEF Visited
<1>4. CASE EpochStart(k) > start /\ EpochStart(k) < end
  <2>1. next.height = EpochStart(k)
    BY <1>4 DEF VisitEpoch
  <2>2. sum.height <= EpochStart(k)
    BY <1>2, <1>3, <1>4 DEF Visited, Epochs
  <2>3. \A j \in Epochs : EpochStart(j) <= sum.height \/ EpochStart(j) >= EpochStart(k)
    BY <1>1, <1>2, <1>3, <1>4 DEF Visited, Epochs
  <2>4. (EpochStart(k) - sum.height) * LiquidityIncentivesAtHeight(sum.height)
          = Total(EpochStart(k) - 1) - Total(sum.height - 1)
    BY <1>2, <1>3, <2>2, <2>3, WithinEpoch
  <2>5. next.incentives = Total(EpochStart(k) - 1) - Total(start)
    <3>1. next.incentives = sum.incentives
            + (EpochStart(k) - sum.height) * LiquidityIncentivesAtHeight(sum.height)
      BY <1>4 DEF VisitEpoch
    <3>2. sum.incentives = Total(sum.height - 1) - Total(start)
      BY DEF Visited
    <3>3. /\ Total(sum.height - 1) \in Int /\ Total(start) \in Int
          /\ Total(EpochStart(k) - 1) \in Int
      BY <1>2, <1>3, TotalType
    <3> QED BY <2>4, <3>1, <3>2, <3>3
  <2>6. \A j \in Epochs : j < k + 1 => EpochStart(j) <= EpochStart(k)
    BY <1>1, <1>2 DEF Epochs
  <2>7. \A j \in Epochs : j >= k + 1 => EpochStart(j) >= EpochStart(k)
    BY <1>1, <1>2 DEF Epochs
  <2> QED BY <1>2, <1>4, <2>1, <2>5, <2>6, <2>7 DEF Visited
<1>5. CASE ~(EpochStart(k) > start /\ EpochStart(k) < end)
  <2>1. next = sum
    BY <1>5 DEF VisitEpoch
  <2>2. EpochStart(k) <= sum.height \/ EpochStart(k) >= end
    BY <1>2, <1>3, <1>5
  <2>3. \A j \in Epochs : j < k + 1 => EpochStart(j) <= sum.height \/ EpochStart(j) >= end
    <3> TAKE j \in Epochs
    <3> HAVE j < k + 1
    <3>1. j < k \/ j = k
      BY DEF Epochs
    <3> QED BY <2>2, <3>1 DEF Visited
  <2>4. \A j \in Epochs : j >= k + 1 => EpochStart(j) <= start \/ EpochStart(j) >= sum.height
    BY DEF Visited, Epochs
  <2> QED BY <2>1, <2>3, <2>4 DEF Visited
<1> QED BY <1>4, <1>5

\* The formula is the sum of the schedule over start + 1 .. end.
LEMMA RangeIsTotal ==
    ASSUME NEW start \in Nat, NEW end \in Nat, start < end
    PROVE  LPIncentivesInRange(start, end) = Total(end) - Total(start)
<1> DEFINE sum0 == [height |-> start + 1, incentives |-> 0]
           sum1 == VisitEpoch(sum0, 0, start, end)
           sum2 == VisitEpoch(sum1, 1, start, end)
           sum3 == VisitEpoch(sum2, 2, start, end)
           sum4 == VisitEpoch(sum3, 3, start, end)
           sum == VisitEpoch(sum4, 4, start, end)
<1>1. \A j \in Epochs : EpochStart(j) \in Nat
  BY EpochStarts DEF Epochs
<1>2. Visited(sum0, 0, start, end)
  <2>1. sum0.incentives = Total(sum0.height - 1) - Total(start)
    BY TotalType
  <2> QED BY <1>1, <2>1 DEF Visited, Epochs
<1> HIDE DEF sum0
<1>3. Visited(sum1, 1, start, end)
  BY <1>2, VisitKeeps, 0 + 1 = 1, 0 \in Epochs DEF Epochs
<1> HIDE DEF sum1
<1>4. Visited(sum2, 2, start, end)
  BY <1>3, VisitKeeps, 1 + 1 = 2, 1 \in Epochs DEF Epochs
<1> HIDE DEF sum2
<1>5. Visited(sum3, 3, start, end)
  BY <1>4, VisitKeeps, 2 + 1 = 3, 2 \in Epochs DEF Epochs
<1> HIDE DEF sum3
<1>6. Visited(sum4, 4, start, end)
  BY <1>5, VisitKeeps, 3 + 1 = 4, 3 \in Epochs DEF Epochs
<1> HIDE DEF sum4
<1>7. Visited(sum, 5, start, end)
  BY <1>6, VisitKeeps, 4 + 1 = 5, 4 \in Epochs DEF Epochs
<1> HIDE DEF sum
<1>8. BeforeLastEpoch(start, end) = sum
  BY DEF BeforeLastEpoch, sum, sum4, sum3, sum2, sum1, sum0
<1>9. /\ sum.height \in Nat /\ sum.height <= end
      /\ sum.incentives = Total(sum.height - 1) - Total(start)
      /\ \A j \in Epochs : EpochStart(j) <= sum.height \/ EpochStart(j) >= end
  BY <1>7 DEF Visited, Epochs
<1>10. (end - sum.height) * LiquidityIncentivesAtHeight(sum.height)
         = Total(end - 1) - Total(sum.height - 1)
  BY <1>9, WithinEpoch
<1>11. LiquidityIncentivesAtHeight(end) = Total(end) - Total(end - 1)
  BY TotalStep
<1>12. /\ Total(sum.height - 1) \in Int /\ Total(start) \in Int
       /\ Total(end - 1) \in Int /\ Total(end) \in Int
  BY <1>9, TotalType
<1>13. LPIncentivesInRange(start, end) = sum.incentives
         + (end - sum.height) * LiquidityIncentivesAtHeight(sum.height)
         + LiquidityIncentivesAtHeight(end)
  BY <1>8 DEF LPIncentivesInRange
<1> QED BY <1>9, <1>10, <1>11, <1>12, <1>13

-----------------------------------------------------------------------------
(* The chain *)

LastMinted == IF phase = "transactions" THEN height - 1 ELSE height

\* The inductive invariant: every block up to LastMinted has minted its entry
\* of the schedule.
MintedInv ==
    /\ height \in Nat /\ GenesisHeight <= LastMinted
    /\ phase \in Phases
    /\ DOMAIN minted = GenesisHeight..LastMinted
    /\ \A h \in DOMAIN minted : minted[h] = Total(h) - Total(GenesisHeight)

\* The invariant holds at genesis.
LEMMA MintedInit == Init => MintedInv
<1> SUFFICES ASSUME Init PROVE MintedInv
  OBVIOUS
<1>1. GenesisHeight \in Nat
  BY IncentivesAssumption
<1>2. phase = "done" /\ height = GenesisHeight /\ LastMinted = GenesisHeight
  BY DEF Init, LastMinted
<1>3. minted = [h \in {GenesisHeight} |-> 0] /\ GenesisHeight..GenesisHeight = {GenesisHeight}
  BY <1>1 DEF Init
<1>4. Total(GenesisHeight) - Total(GenesisHeight) = 0
  BY <1>1, TotalType
<1> QED BY <1>1, <1>2, <1>3, <1>4 DEF MintedInv, Phases

\* Every step keeps it; only two of them concern it.
LEMMA MintedNext == MintedInv /\ [Next]_vars => MintedInv'
<1> SUFFICES ASSUME MintedInv, [Next]_vars PROVE MintedInv'
  OBVIOUS
<1>0. GenesisHeight \in Nat
  BY IncentivesAssumption
<1>1. ASSUME UNCHANGED <<height, phase, minted>> PROVE MintedInv'
  BY <1>1 DEF MintedInv, LastMinted
<1>2. ASSUME NextBlock PROVE MintedInv'
  <2>1. LastMinted' = LastMinted
    BY <1>2 DEF NextBlock, LastMinted, MintedInv
  <2> QED BY <1>2, <2>1 DEF NextBlock, MintedInv, Phases
<1>3. ASSUME MintLiquidityIncentives PROVE MintedInv'
  <2>1. /\ height \in Nat /\ GenesisHeight <= height - 1
        /\ DOMAIN minted = GenesisHeight..(height - 1)
        /\ \A h \in DOMAIN minted : minted[h] = Total(h) - Total(GenesisHeight)
    BY <1>3 DEF MintLiquidityIncentives, MintedInv, LastMinted
  <2>2. LastMinted' = height /\ phase' \in Phases /\ height' = height
    BY <1>3 DEF MintLiquidityIncentives, LastMinted, Phases
  <2>3. minted' = [h \in DOMAIN minted \cup {height} |->
                    IF h = height
                    THEN minted[height - 1] + LiquidityIncentivesAtHeight(height)
                    ELSE minted[h]]
    BY <1>3 DEF MintLiquidityIncentives
  <2>4. DOMAIN minted' = GenesisHeight..height
    BY <1>0, <2>1, <2>3
  <2>5. minted[height - 1] + LiquidityIncentivesAtHeight(height)
          = Total(height) - Total(GenesisHeight)
    <3>1. minted[height - 1] = Total(height - 1) - Total(GenesisHeight)
      BY <1>0, <2>1
    <3>2. LiquidityIncentivesAtHeight(height) = Total(height) - Total(height - 1)
      BY <2>1, TotalStep
    <3>3. Total(height) \in Int /\ Total(height - 1) \in Int /\ Total(GenesisHeight) \in Int
      BY <1>0, <2>1, TotalType
    <3> QED BY <3>1, <3>2, <3>3
  <2>6. \A h \in DOMAIN minted' : minted'[h] = Total(h) - Total(GenesisHeight)
    BY <2>1, <2>3, <2>5
  <2>7. height' \in Nat /\ GenesisHeight <= LastMinted'
    BY <1>0, <2>1, <2>2
  <2>8. DOMAIN minted' = GenesisHeight..LastMinted'
    BY <2>2, <2>4
  <2> QED BY <2>2, <2>6, <2>7, <2>8, Zenon DEF MintedInv
<1>4. ASSUME PayOut \/ NothingToPay PROVE MintedInv'
  BY <1>4 DEF PayOut, NothingToPay, MintedInv, LastMinted, Phases
<1>5. ASSUME NEW fee \in Fees, TransferFeesFromPool(fee) PROVE MintedInv'
  BY <1>1, <1>5 DEF TransferFeesFromPool
<1>6. ASSUME NEW c \in getting, TokenGet(c) PROVE MintedInv'
  BY <1>1, <1>6 DEF TokenGet
<1>7. ASSUME NEW w \in setting, TokenSet(w) PROVE MintedInv'
  BY <1>1, <1>7 DEF TokenSet
<1>8. ASSUME BoundReached \/ UNCHANGED vars PROVE MintedInv'
  BY <1>1, <1>8 DEF BoundReached, vars
<1> QED BY <1>2, <1>3, <1>4, <1>5, <1>6, <1>7, <1>8 DEF Next

\* RangeIsMinted: for every schedule, the closed formula for a range of blocks
\* is what the hooks of those blocks minted.
THEOREM RangeIsMintedHolds == Spec => []RangeIsMinted
<1>1. MintedInv => RangeIsMinted
  <2> SUFFICES ASSUME MintedInv, NEW start \in DOMAIN minted, NEW end \in DOMAIN minted,
                      start < end
               PROVE  LPIncentivesInRange(start, end) = minted[end] - minted[start]
    BY DEF RangeIsMinted
  <2>1. GenesisHeight \in Nat
    BY IncentivesAssumption
  <2>2. start \in Nat /\ end \in Nat
    BY <2>1 DEF MintedInv, LastMinted
  <2>3. /\ minted[start] = Total(start) - Total(GenesisHeight)
        /\ minted[end] = Total(end) - Total(GenesisHeight)
    BY DEF MintedInv
  <2>4. Total(start) \in Int /\ Total(end) \in Int /\ Total(GenesisHeight) \in Int
    BY <2>1, <2>2, TotalType
  <2> QED BY <2>2, <2>3, <2>4, RangeIsTotal
<1> QED BY <1>1, MintedInit, MintedNext, PTL DEF Spec

-----------------------------------------------------------------------------
(* Validators and shares *)

ValidatorCount == Cardinality(Validators)

Shares(available) == [v \in Validators |-> Share(v, available)]

-----------------------------------------------------------------------------
(* Division *)

\* The quotient of natural numbers.
LEMMA Quotient ==
    ASSUME NEW a \in Nat, NEW b \in Nat \ {0}
    PROVE  a \div b \in Nat /\ b * (a \div b) <= a
OBVIOUS

\* A product of natural numbers is a natural number.
LEMMA Product == ASSUME NEW a \in Nat, NEW b \in Nat PROVE a * b \in Nat
OBVIOUS

\* Multiplying by a natural number keeps the order.
LEMMA ScaleLeq ==
    ASSUME NEW a \in Int, NEW b \in Int, NEW c \in Nat, a <= b
    PROVE  c * a <= c * b
OBVIOUS

\* A common positive factor can be cancelled.
LEMMA CancelLeq ==
    ASSUME NEW a \in Int, NEW b \in Int, NEW c \in Nat \ {0}, c * a <= c * b
    PROVE  a <= b
OBVIOUS

-----------------------------------------------------------------------------
(* The shares of a payout *)

\* There is a validator, and their weights do not add up to zero.
LEMMA WeightPositive == TotalWeight \in Nat \ {0} /\ ValidatorCount \in Nat \ {0}
<1>1. TotalWeight = SumOver(BftWeight, Validators)
  BY DEF TotalWeight, SumOver
<1>2. PICK v \in Validators : BftWeight[v] # 0
  BY IncentivesAssumption
<1>3. \A x \in Validators : BftWeight[x] \in Nat
  BY IncentivesAssumption
<1>4. SumOver(BftWeight, Validators) \in Nat
  BY <1>3, IncentivesAssumption, SumNat
<1>5. BftWeight[v] <= SumOver(BftWeight, Validators)
  BY <1>3, IncentivesAssumption, SumTerm
<1>6. ValidatorCount \in Nat /\ ValidatorCount # 0
  BY <1>2, IncentivesAssumption, FS_CardinalityType, FS_EmptySet DEF ValidatorCount
<1>7. QED
  BY <1>1, <1>2, <1>3, <1>4, <1>5, <1>6

\* A natural number as a number exceeds it at most by what rounding to the nearest
\* may add.
LEMMA AsNumberBound ==
    ASSUME NEW n \in Nat
    PROVE  AsNumber(n) \in Nat /\ ExactUpTo * (AsNumber(n) - n) <= n
<1>1. CASE HalfSteps(n) = {}
  BY <1>1, NumbersAssumption DEF AsNumber
<1>2. CASE HalfSteps(n) # {}
  <2> DEFINE h == CHOOSE half \in HalfSteps(n) : TRUE
             q == n \div (2 * h)
             r == n % (2 * h)
  <2>1. h \in HalfSteps(n)
    BY <1>2
  <2>2. h \in 1..n /\ n \div h >= ExactUpTo
    BY <2>1 DEF HalfSteps
  <2>3. AsNumber(n) = 2 * h * (IF r > h \/ (r = h /\ q % 2 = 1) THEN q + 1 ELSE q)
    BY <1>2 DEF AsNumber
  <2> HIDE DEF h
  <2>4. q \in Nat /\ r \in Nat /\ r < 2 * h /\ n = 2 * h * q + r
    <3> DEFINE d == 2 * h
    <3>1. d \in Nat \ {0}
      BY <2>2
    <3> HIDE DEF d
    <3>2. n \div d \in Nat /\ n % d \in Nat /\ n % d < d /\ n = d * (n \div d) + (n % d)
      BY <3>1
    <3>3. QED
      BY <3>2 DEF d
  <2> HIDE DEF q, r
  <2>5. AsNumber(n) \in Nat /\ AsNumber(n) - n <= h
    <3>1. CASE r > h \/ (r = h /\ q % 2 = 1)
      <4>1. AsNumber(n) = 2 * h * q + 2 * h /\ r >= h
        BY <2>2, <2>3, <2>4, <3>1
      <4>2. 2 * h * q \in Nat
        BY <2>2, <2>4
      <4>3. QED
        BY <2>2, <2>4, <4>1, <4>2
    <3>2. CASE ~(r > h \/ (r = h /\ q % 2 = 1))
      <4>1. AsNumber(n) = 2 * h * q
        BY <2>3, <3>2
      <4>2. 2 * h * q \in Nat
        BY <2>2, <2>4
      <4>3. QED
        BY <2>2, <2>4, <4>1, <4>2
    <3>3. QED
      BY <3>1, <3>2
  <2>6. h * ExactUpTo <= h * (n \div h) /\ h * (n \div h) <= n
    <3>1. n \div h \in Nat /\ h * (n \div h) <= n
      BY <2>2, Quotient
    <3>2. QED
      BY <2>2, <3>1, NumbersAssumption, ScaleLeq
  <2>7. ExactUpTo * (AsNumber(n) - n) <= ExactUpTo * h
    <3> DEFINE more == AsNumber(n) - n
    <3>1. more \in Int /\ more <= h
      BY <2>5
    <3> HIDE DEF more
    <3>2. ExactUpTo * more <= ExactUpTo * h
      BY <2>2, <3>1, NumbersAssumption
    <3>3. QED
      BY <3>2 DEF more
  <2>8. QED
    <3> DEFINE more == ExactUpTo * (AsNumber(n) - n)
    <3>1. more \in Int /\ ExactUpTo * h \in Nat /\ ExactUpTo * h = h * ExactUpTo
      BY <2>2, <2>5, NumbersAssumption
    <3>2. h * (n \div h) \in Nat
      BY <2>2, Quotient, Product
    <3>3. more <= ExactUpTo * h
      BY <2>7
    <3> HIDE DEF more
    <3>4. more <= n
      BY <2>6, <3>1, <3>2, <3>3
    <3>5. QED
      BY <2>5, <3>4 DEF more
<1>3. QED
  BY <1>1, <1>2

\* Of at most e recipients all but one may get a share that exceeds the exact one
\* by its e-th part.
LEMMA SharesOfOthers ==
    ASSUME NEW n \in Nat, NEW c \in Nat \ {0}, NEW e \in Nat \ {0}, NEW x \in Nat,
           NEW s \in Nat, NEW total \in Nat,
           n < c, c <= e, c * x <= total, e * (s - x) <= x
    PROVE  n * s <= total /\ n * s \in Nat
<1>1. n * s \in Nat /\ n * x \in Nat /\ c * x \in Nat
  OBVIOUS
<1>2. CASE s <= x
  <2>1. n * s <= n * x /\ n * x <= c * x
    BY <1>2, ScaleLeq
  <2>2. QED
    BY <1>1, <2>1
<1>3. CASE s > x
  <2> DEFINE more == s - x
  <2>1. more \in Nat /\ s = x + more
    BY <1>3
  <2>2. e * more <= x
    OBVIOUS
  <2> HIDE DEF more
  <2>3. n * s = n * x + n * more
    BY <2>1
  <2>4. n * more <= e * more
    BY <2>1, ScaleLeq
  <2>5. (n + 1) * x <= c * x /\ (n + 1) * x = n * x + x
    <3>1. (n + 1) * x <= c * x
      BY ScaleLeq
    <3>2. QED
      BY <3>1
  <2>6. n * more \in Nat /\ e * more \in Nat
    BY <2>1
  <2>7. QED
    BY <1>1, <2>2, <2>3, <2>4, <2>5, <2>6
<1>4. QED
  BY <1>2, <1>3

\* What is left for the active validators and the share of a standby one are
\* natural numbers, and each does not exceed what its divisor allows.
LEMMA ShareParts ==
    ASSUME NEW available \in Nat
    PROVE  /\ Cardinality(Standby) \in Nat
           /\ StandbyShare(available) \in Nat
           /\ LeftForActive(available) \in Nat
           /\ IncentivePerBFTWeight(available) \in Nat
           /\ TotalWeight * IncentivePerBFTWeight(available) <= LeftForActive(available) * Scale
<1> DEFINE n == Cardinality(Standby)
           s == StandbyShare(available)
           L == LeftForActive(available)
           exact == available \div ValidatorCount
<1>1. n \in Nat /\ n < ValidatorCount
  <2>1. PICK v \in Validators : v \notin Standby
    BY IncentivesAssumption DEF Standby
  <2>2. Standby \subseteq Validators \ {v}
    BY <2>1 DEF Standby
  <2>3. /\ IsFiniteSet(Validators \ {v})
        /\ Cardinality(Validators \ {v}) = ValidatorCount - 1
    BY IncentivesAssumption, FS_RemoveElement DEF ValidatorCount
  <2>4. n \in Nat /\ n <= ValidatorCount - 1
    BY <2>2, <2>3, FS_Subset, FS_CardinalityType
  <2>5. QED
    BY <2>4, WeightPositive
<1>2. /\ exact \in Nat /\ ValidatorCount * exact <= available
      /\ s \in Nat /\ ExactUpTo * (s - exact) <= exact
  <2>1. exact \in Nat /\ ValidatorCount * exact <= available
    BY WeightPositive, Quotient
  <2>2. s = AsNumber(exact)
    BY DEF StandbyShare, ValidatorCount
  <2> HIDE DEF exact, s
  <2>3. QED
    BY <2>1, <2>2, AsNumberBound
<1>3. n * s <= available /\ n * s \in Nat
  <2>1. ValidatorCount \in Nat \ {0} /\ ValidatorCount <= ExactUpTo /\ ExactUpTo \in Nat \ {0}
    BY WeightPositive, PrecisionAssumption, NumbersAssumption DEF ValidatorCount
  <2> HIDE DEF n, s, exact
  <2>2. QED
    BY <1>1, <1>2, <2>1, SharesOfOthers
<1>4. L = available - n * s
  BY DEF LeftForActive
<1>5. L \in Nat
  <2> HIDE DEF n, s, L
  <2>1. QED
    BY <1>2, <1>3, <1>4
<1>6. L * Scale \in Nat
  <2> HIDE DEF L
  <2>1. QED
    BY <1>5, IncentivesAssumption, Product
<1>7. (L * Scale) \div TotalWeight \in Nat /\ TotalWeight * ((L * Scale) \div TotalWeight) <= L * Scale
  <2> HIDE DEF L
  <2>1. QED
    BY <1>6, WeightPositive, Quotient
<1>8. QED
  BY <1>1, <1>2, <1>5, <1>7 DEF IncentivePerBFTWeight

\* A share is a natural number, at most the standby share or the validator's part
\* by weight of what is left for the active ones.
LEMMA ShareBound ==
    ASSUME NEW available \in Nat, NEW v \in Validators
    PROVE  /\ Share(v, available) \in Nat
           /\ TotalWeight * Share(v, available) <=
                (IF v \in Standby THEN TotalWeight * StandbyShare(available) ELSE 0)
                  + LeftForActive(available) * BftWeight[v]
<1> DEFINE L == LeftForActive(available)
           P == IncentivePerBFTWeight(available)
           W == TotalWeight
           w == BftWeight[v]
           h == Share(v, available)
<1>1. /\ L \in Nat /\ P \in Nat /\ W \in Nat \ {0} /\ w \in Nat /\ Scale \in Nat \ {0}
      /\ W * P <= L * Scale /\ StandbyShare(available) \in Nat
  BY ShareParts, WeightPositive, IncentivesAssumption
<1>2. CASE v \in Standby
  <2>1. h = StandbyShare(available) /\ w = 0
    BY <1>2 DEF Share, Standby
  <2> HIDE DEF L, P, W, w, h
  <2>2. L * w = 0 /\ W * StandbyShare(available) \in Nat
    BY <1>1, <2>1
  <2>3. QED
    BY <1>1, <1>2, <2>1, <2>2 DEF L, W, w, h
<1>3. CASE v \notin Standby
  <2>1. h = (P * w) \div Scale
    BY <1>3 DEF Share
  <2> HIDE DEF L, P, W, w, h
  <2>2. P * w \in Nat
    BY <1>1, Product
  <2>3. h \in Nat /\ Scale * h <= P * w
    BY <1>1, <2>1, <2>2, Quotient
  <2>4. W * (Scale * h) <= W * (P * w) /\ w * (W * P) <= w * (L * Scale)
    BY <1>1, <2>2, <2>3, ScaleLeq, Product
  <2>5. W * (Scale * h) = Scale * (W * h) /\ W * (P * w) = w * (W * P)
        /\ w * (L * Scale) = Scale * (L * w)
    BY <1>1, <2>3
  <2>6. W * h \in Nat /\ L * w \in Nat /\ Scale * (W * h) \in Nat /\ Scale * (L * w) \in Nat
        /\ w * (W * P) \in Nat
    BY <1>1, <2>3, Product
  <2>7. Scale * (W * h) <= Scale * (L * w)
    BY <2>4, <2>5, <2>6
  <2>8. W * h <= L * w
    BY <1>1, <2>6, <2>7, CancelLeq
  <2>9. QED
    BY <1>3, <2>3, <2>6, <2>8 DEF L, W, w, h
<1>4. QED
  BY <1>2, <1>3

\* The sum in the remainder is the sum of the function of the shares.
LEMMA SumOverShares ==
    ASSUME NEW available \in Nat
    PROVE  Remainder(available) = available - SumOver(Shares(available), Validators)
<1> DEFINE term(v) == Share(v, available)
           body(iter, s) == IF s = {} THEN 0 ELSE term(Pick(s)) + iter[s \ {Pick(s)}]
<1>1. Remainder(available) = available -
        (CHOOSE iter : iter = [s \in SUBSET Validators |->
            IF s = {} THEN 0 ELSE term(Pick(s)) + iter[s \ {Pick(s)}]])[Validators]
  BY DEF Remainder, MapThenSumSet, MapThenFoldSet, Pick
<1>2. \A s \in SUBSET Validators : s # {} => term(Pick(s)) = Shares(available)[Pick(s)]
  BY DEF Shares, Pick
<1> HIDE DEF term
<1>3. \A iter : [s \in SUBSET Validators |->
                   IF s = {} THEN 0 ELSE term(Pick(s)) + iter[s \ {Pick(s)}]]
              = [s \in SUBSET Validators |->
                   IF s = {} THEN 0 ELSE Shares(available)[Pick(s)] + iter[s \ {Pick(s)}]]
  BY <1>2
<1>4. (CHOOSE iter : iter = [s \in SUBSET Validators |->
            IF s = {} THEN 0 ELSE term(Pick(s)) + iter[s \ {Pick(s)}]])
        = Partial(Shares(available), Validators)
  BY <1>3 DEF Partial
<1>5. QED
  BY <1>1, <1>4, SumIsPartial

\* The shares of a payout do not exceed what it unlocks: what is left over, the
\* remainder, is never negative.
THEOREM SharesFit ==
    ASSUME NEW available \in Nat
    PROVE  /\ Shares(available) \in [Validators -> Nat]
           /\ Remainder(available) \in Nat
           /\ Remainder(available) + SumOver(Shares(available), Validators) = available
<1> DEFINE W == TotalWeight
           L == LeftForActive(available)
           s == StandbyShare(available)
           n == Cardinality(Standby)
           f == Shares(available)
           Wf == [v \in Validators |-> W * f[v]]
           standby == [v \in Validators |-> IF v \in Standby THEN W * s ELSE 0]
           active == [v \in Validators |-> L * BftWeight[v]]
           bound == [v \in Validators |-> standby[v] + active[v]]
<1>1. /\ W \in Nat \ {0} /\ L \in Nat /\ s \in Nat /\ n \in Nat /\ L = available - n * s
  BY WeightPositive, ShareParts DEF LeftForActive
<1>2. IsFiniteSet(Validators) /\ \A v \in Validators : BftWeight[v] \in Nat
  BY IncentivesAssumption
<1>3. f \in [Validators -> Nat]
  BY ShareBound DEF Shares
<1>4. SumOver(f, Validators) \in Nat
  BY <1>2, <1>3, SumNat
<1>5. SumOver(Wf, Validators) = W * SumOver(f, Validators)
  <2>1. \A v \in Validators : f[v] \in Int /\ Wf[v] = W * f[v]
    <3> HIDE DEF f
    <3>1. QED
      BY <1>1, <1>3
  <2>2. W \in Int
    BY <1>1
  <2> HIDE DEF f, Wf, W
  <2>3. QED
    BY <1>2, <2>1, <2>2, SumScale
<1>6. SumOver(standby, Validators) = (W * s) * n
  <2>1. Standby \in SUBSET Validators
    BY DEF Standby
  <2>2. \A v \in Validators : standby[v] = IF v \in Standby THEN W * s ELSE 0
    OBVIOUS
  <2>3. W * s \in Int
    BY <1>1
  <2> HIDE DEF standby, W, s
  <2>4. QED
    BY <1>2, <2>1, <2>2, <2>3, SumConstant
<1>7. SumOver(bound, Validators) = SumOver(standby, Validators) + L * W
  <2>1. L \in Int /\ W = SumOver(BftWeight, Validators)
    BY <1>1 DEF TotalWeight, SumOver
  <2>2. \A v \in Validators : BftWeight[v] \in Int /\ active[v] = L * BftWeight[v]
    BY <1>2
  <2>3. \A v \in Validators : standby[v] \in Int /\ active[v] \in Int
    <3> HIDE DEF L, W, s
    <3>1. QED
      BY <1>1, <1>2
  <2>4. \A v \in Validators : bound[v] = standby[v] + active[v]
    OBVIOUS
  <2> HIDE DEF bound, standby, active, L, W
  <2>5. SumOver(active, Validators) = L * W
    BY <1>2, <2>1, <2>2, SumScale
  <2>6. QED
    BY <1>2, <2>3, <2>4, <2>5, SumPlus
<1>8. SumOver(Wf, Validators) <= SumOver(bound, Validators)
  <2>1. \A v \in Validators : Wf[v] \in Int /\ bound[v] \in Int /\ Wf[v] <= bound[v]
    <3> TAKE v \in Validators
    <3>1. /\ f[v] \in Nat
          /\ W * f[v] <= (IF v \in Standby THEN W * s ELSE 0) + L * BftWeight[v]
      BY ShareBound DEF Shares
    <3> HIDE DEF f, W, s, L
    <3>2. /\ W * f[v] \in Int /\ L * BftWeight[v] \in Int
          /\ (IF v \in Standby THEN W * s ELSE 0) \in Int
      BY <1>1, <1>2, <3>1
    <3>3. Wf[v] = W * f[v]
      OBVIOUS
    <3>4. bound[v] = (IF v \in Standby THEN W * s ELSE 0) + L * BftWeight[v]
      BY <3>2
    <3>5. QED
      BY <3>1, <3>2, <3>3, <3>4
  <2> HIDE DEF Wf, bound
  <2>2. QED
    BY <1>2, <2>1, SumLeq
<1>9. Remainder(available) = available - SumOver(f, Validators)
  BY SumOverShares
<1> HIDE DEF f, W, L, s, n, Wf, standby, active, bound
<1>10. W * SumOver(f, Validators) <= (W * s) * n + L * W
  BY <1>5, <1>6, <1>7, <1>8
<1>11. (W * s) * n + L * W = W * available
  <2>1. L * W = W * available - W * (n * s) /\ (W * s) * n = W * (n * s) /\ W * (n * s) \in Int
        /\ W * available \in Int
    BY <1>1
  <2>2. QED
    BY <2>1
<1>12. SumOver(f, Validators) <= available
  BY <1>1, <1>4, <1>10, <1>11, CancelLeq
<1>13. QED
  BY <1>3, <1>4, <1>9, <1>12 DEF f

-----------------------------------------------------------------------------
(* The shape of the state *)

Ids == {"transfer", "lock", "share", "remainder"} \X (Nat \cup Validators)
Keys == Accounts \X Tokens
Steps == [key : Keys, available : Int, locked : Int]
Calls == [id : Ids, steps : Seq(Steps) \ {<<>>}]
Balances == [available : Nat, locked : Nat]
Writes == [call : Calls, account : Balances]

\* The inductive form of TypeOK: the calls under way have their shape too, and a
\* block that executes transactions is not the genesis block.
TypeInv ==
    /\ TypeOK
    /\ phase = "transactions" => GenesisHeight < height
    /\ getting \subseteq Calls
    /\ setting \subseteq Writes

\* The calls of the token module that the actions issue have their shape.
LEMMA CallTypes ==
    ASSUME NEW from \in Accounts, NEW to \in Accounts, NEW token \in Tokens,
           NEW amount \in Int, NEW id \in Ids
    PROVE  /\ [id |-> id, steps |-> Transfer(from, to, token, amount)] \in Calls
           /\ [id |-> id, steps |-> Lock(from, token, amount)] \in Calls
           /\ [id |-> id, steps |-> <<Credit(to, token, amount)>>] \in Calls
<1>1. /\ Debit(from, token, amount) \in Steps
      /\ Credit(to, token, amount) \in Steps
      /\ Locking(from, token, amount) \in Steps
  BY DEF Debit, Credit, Locking, Steps, Keys
<1>2. /\ Transfer(from, to, token, amount) \in Seq(Steps) \ {<<>>}
      /\ Lock(from, token, amount) \in Seq(Steps) \ {<<>>}
      /\ <<Credit(to, token, amount)>> \in Seq(Steps) \ {<<>>}
  BY <1>1 DEF Transfer, Lock
<1>3. QED
  BY <1>2 DEF Calls

\* Genesis has the shape.
LEMMA TypeInit == Init => TypeInv
<1> SUFFICES ASSUME Init PROVE TypeInv
  OBVIOUS
<1> USE IncentivesAssumption DEF Init
<1>1. ledger \in [Accounts \X Tokens -> Balances]
  <2>1. PICK amount \in GenesisLocked :
          ledger = [key \in Accounts \X Tokens |->
            [available |-> 0,
             locked |-> IF key = <<ValidatorIncentives, PayoutTokenLSK>> THEN amount ELSE 0]]
    OBVIOUS
  <2>2. amount \in Nat
    OBVIOUS
  <2>3. \A key \in Accounts \X Tokens :
          [available |-> 0,
           locked |-> IF key = <<ValidatorIncentives, PayoutTokenLSK>> THEN amount ELSE 0] \in Balances
    BY <2>2 DEF Balances
  <2>4. QED
    BY <2>1, <2>3
<1>2. minted \in [GenesisHeight..height -> Nat]
  BY GenesisHeight..GenesisHeight = {GenesisHeight}
<1>3. owed \in [Validators -> Nat]
  OBVIOUS
<1>4. QED
  BY <1>1, <1>2, <1>3 DEF TypeInv, TypeOK, Phases, Balances

\* A call of the token module keeps the shape.
LEMMA TypeTokenGet ==
    ASSUME TypeInv, NEW c \in getting, TokenGet(c)
    PROVE  TypeInv'
<1> DEFINE step == Head(c.steps)
           balance == ledger[step.key]
<1>1. c \in Calls /\ step \in Steps
  BY DEF TypeInv, Calls
<1>2. balance \in Balances
  BY <1>1 DEF TypeInv, TypeOK, Steps, Keys, Balances
<1>3. setting' \subseteq Writes
  <2>1. CASE Covered(step)
    <3>1. Moved(balance, step) \in Balances
      BY <1>1, <1>2, <2>1 DEF Covered, Covers, Moved, Balances, Steps
    <3>2. [call |-> c, account |-> Moved(balance, step)] \in Writes
      BY <1>1, <3>1 DEF Writes
    <3>3. QED
      BY <2>1, <3>2 DEF TokenGet, TypeInv
  <2>2. CASE ~Covered(step)
    BY <2>2 DEF TokenGet, TypeInv
  <2>3. QED
    BY <2>1, <2>2
<1>4. getting' \subseteq Calls
  BY DEF TokenGet, TypeInv
<1>5. QED
  BY <1>3, <1>4 DEF TokenGet, TypeInv, TypeOK

\* A write of an account preserves the type invariant.
LEMMA TypeTokenSet ==
    ASSUME TypeInv, NEW w \in setting, TokenSet(w)
    PROVE  TypeInv'
<1> DEFINE rest == Tail(w.call.steps)
           key == Head(w.call.steps).key
<1>1. w \in Writes /\ w.call \in Calls /\ w.account \in Balances
  BY DEF TypeInv, Writes
<1>2. Head(w.call.steps) \in Steps /\ rest \in Seq(Steps)
  BY <1>1 DEF Calls
<1>3. key \in Keys
  BY <1>2 DEF Steps
<1>4. ledger' \in [Accounts \X Tokens -> Balances]
  BY <1>1, <1>3 DEF TokenSet, TypeInv, TypeOK, Keys, Balances
<1>5. getting' \subseteq Calls
  <2>1. CASE rest = <<>>
    BY <2>1 DEF TokenSet, TypeInv
  <2>2. CASE rest # <<>>
    <3>1. [w.call EXCEPT !.steps = rest] \in Calls
      BY <1>1, <1>2, <2>2 DEF Calls
    <3>2. QED
      BY <2>2, <3>1 DEF TokenSet, TypeInv
  <2>3. QED
    BY <2>1, <2>2
<1>6. setting' \subseteq Writes
  BY DEF TokenSet, TypeInv
<1>7. QED
  BY <1>4, <1>5, <1>6 DEF TokenSet, TypeInv, TypeOK, Balances

\* So does the payout.
LEMMA TypePayOut == ASSUME TypeInv, PayOut PROVE TypeInv'
<1> DEFINE account == <<ValidatorIncentives, PayoutTokenLSK>>
           available == ledger[account].locked
           pay(v) == [id |-> <<"share", v>>,
                      steps |-> Transfer(ValidatorIncentives, v, PayoutTokenLSK, Share(v, available))]
           lock == [id |-> <<"remainder", height>>,
                    steps |-> Lock(ValidatorIncentives, PayoutTokenLSK, Remainder(available))]
<1>1. account \in Accounts \X Tokens /\ ValidatorIncentives \in Accounts
      /\ PayoutTokenLSK \in Tokens /\ Validators \subseteq Accounts
  BY DEF Accounts, Tokens
<1>2. available \in Nat
  BY <1>1 DEF TypeInv, TypeOK
<1>3. ledger' \in [Accounts \X Tokens -> Balances]
  <2>1. ledger[account] \in Balances
    BY <1>1 DEF TypeInv, TypeOK, Balances
  <2>2. Unlocked(ledger[account]) \in Balances
    BY <2>1 DEF Unlocked, Balances
  <2>3. QED
    BY <2>2 DEF PayOut, TypeInv, TypeOK, Balances
<1>4. \A v \in Validators : Share(v, available) \in Nat
  BY <1>2, ShareBound
<1>5. Remainder(available) \in Int
  BY <1>2, SharesFit
<1> HIDE DEF available
<1>6. \A v \in Validators : pay(v) \in Calls
  <2> TAKE v \in Validators
  <2>1. <<"share", v>> \in Ids /\ v \in Accounts
    BY <1>1 DEF Ids
  <2> DEFINE amount == Share(v, available)
  <2>2. amount \in Int
    BY <1>4
  <2> HIDE DEF amount
  <2>3. [id |-> <<"share", v>>, steps |-> Transfer(ValidatorIncentives, v, PayoutTokenLSK, amount)]
          \in Calls
    BY <1>1, <2>1, <2>2, CallTypes
  <2>4. QED
    BY <2>3 DEF amount
<1>7. lock \in Calls
  <2>1. <<"remainder", height>> \in Ids
    BY DEF TypeInv, TypeOK, Ids
  <2>2. QED
    BY <1>1, <1>5, <2>1, CallTypes
<1>8. getting' = getting \cup {pay(v) : v \in Validators} \cup {lock}
  BY DEF PayOut, available
<1>9. getting' \subseteq Calls
  BY <1>6, <1>7, <1>8 DEF TypeInv
<1>10. owed' \in [Validators -> Nat]
  <2>1. owed' = [v \in Validators |-> owed[v] + Share(v, available)]
    BY DEF PayOut, available
  <2>2. QED
    BY <1>4, <2>1 DEF TypeInv, TypeOK
<1>11. QED
  BY <1>3, <1>9, <1>10 DEF PayOut, TypeInv, TypeOK, Phases, Balances

\* And the blocks.
LEMMA TypeBlocks ==
    ASSUME TypeInv, NextBlock \/ MintLiquidityIncentives \/ NothingToPay
    PROVE  TypeInv'
<1> USE IncentivesAssumption
<1>1. CASE NextBlock
  BY <1>1 DEF NextBlock, TypeInv, TypeOK, Phases
<1>2. CASE MintLiquidityIncentives
  <2>1. /\ height \in Nat /\ GenesisHeight < height
        /\ minted \in [GenesisHeight..(height - 1) -> Nat]
    BY <1>2 DEF MintLiquidityIncentives, TypeInv, TypeOK
  <2>2. LiquidityIncentivesAtHeight(height) \in Nat
    BY <2>1, ScheduleAssumption DEF LiquidityIncentivesAtHeight, EpochStart
  <2>3. minted[height - 1] + LiquidityIncentivesAtHeight(height) \in Nat
    BY <2>1, <2>2
  <2>4. minted' \in [GenesisHeight..height -> Nat]
    <3>1. DOMAIN minted \cup {height} = GenesisHeight..height
      BY <2>1
    <3>2. QED
      BY <1>2, <2>1, <2>3, <3>1 DEF MintLiquidityIncentives
  <2>5. height' = height /\ phase' \in {"after", "done"}
    BY <1>2 DEF MintLiquidityIncentives
  <2>6. QED
    BY <1>2, <2>4, <2>5 DEF MintLiquidityIncentives, TypeInv, TypeOK, Phases
<1>3. CASE NothingToPay
  BY <1>3 DEF NothingToPay, TypeInv, TypeOK, Phases
<1>4. QED
  BY <1>1, <1>2, <1>3

\* And the fee of a swap.
LEMMA TypeFees ==
    ASSUME TypeInv, NEW fee \in Fees, TransferFeesFromPool(fee)
    PROVE  TypeInv'
<1>1. fee \in Int /\ swaps \in Nat
  BY IncentivesAssumption DEF TypeInv, TypeOK
<1>2. /\ ValidatorIncentives \in Accounts /\ DexTokenLSK \in Tokens
      /\ <<"transfer", swaps>> \in Ids /\ <<"lock", swaps>> \in Ids
  BY <1>1 DEF Accounts, Tokens, Ids
<1>3. getting' \subseteq Calls
  BY <1>1, <1>2, CallTypes DEF TransferFeesFromPool, TypeInv
<1>4. QED
  BY <1>1, <1>3 DEF TransferFeesFromPool, TypeInv, TypeOK

\* Every step preserves the type invariant.
LEMMA TypeNext == TypeInv /\ [Next]_vars => TypeInv'
<1> SUFFICES ASSUME TypeInv, [Next]_vars PROVE TypeInv'
  OBVIOUS
<1>1. CASE BoundReached \/ UNCHANGED vars
  BY <1>1 DEF BoundReached, vars, TypeInv, TypeOK
<1>2. QED
  BY <1>1, TypeTokenGet, TypeTokenSet, TypePayOut, TypeBlocks, TypeFees DEF Next

\* TypeOK: the state keeps its shape; no balance is ever negative, whatever the
\* order in which the reads and writes of the token calls interleave.
THEOREM TypeCorrect == Spec => []TypeOK
<1>1. TypeInv => TypeOK
  BY DEF TypeInv
<1>2. QED
  BY <1>1, TypeInit, TypeNext, PTL DEF Spec

-----------------------------------------------------------------------------
(* The calls of a payout *)

PayoutKey == <<ValidatorIncentives, PayoutTokenLSK>>
ShareKey(v) == <<v, PayoutTokenLSK>>
ShareId(v) == <<"share", v>>

\* The transfer of a share before its debit, the same call before its credit, and
\* the lock of the remainder of the payout after the block of height h.
DebitCall(v, share) ==
    [id |-> ShareId(v), steps |-> Transfer(ValidatorIncentives, v, PayoutTokenLSK, share[v])]
CreditCall(v, share) ==
    [id |-> ShareId(v), steps |-> <<Credit(v, PayoutTokenLSK, share[v])>>]
RemainderCall(h, rem) ==
    [id |-> <<"remainder", h>>, steps |-> Lock(ValidatorIncentives, PayoutTokenLSK, rem)]

\* A call for the fee of a swap is one update of an account in another token.
IsFeeCall(c) ==
    /\ c.id[1] \in {"transfer", "lock"}
    /\ Len(c.steps) = 1
    /\ Head(c.steps).key[2] = DexTokenLSK

IsPayoutCall(c, share, h, rem) ==
    \/ \E v \in Validators : c \in {DebitCall(v, share), CreditCall(v, share)}
    \/ c = RemainderCall(h, rem)

\* What the calls that have not read the account yet will take from it.
ToDebit(calls, share) == {v \in Validators : DebitCall(v, share) \in calls}
Due(calls, share, h, rem) ==
    SumOver(share, ToDebit(calls, share)) + (IF RemainderCall(h, rem) \in calls THEN rem ELSE 0)

\* A share is under way while a call with its name is.
UnderWay(v) ==
    \/ \E c \in getting : c.id = ShareId(v)
    \/ \E w \in setting : w.call.id = ShareId(v)

-----------------------------------------------------------------------------
(* The inductive invariant of a payout that gave the validators share and  *)
(* locks rem again.                                                        *)

\* Every call is of the payout or for a fee, and a block starts without any of
\* the payout.
CallShapes(share, rem) ==
    /\ \A c \in getting :
          IsFeeCall(c) \/ (phase = "done" /\ IsPayoutCall(c, share, height, rem))
    /\ \A w \in setting :
          IsFeeCall(w.call) \/ (phase = "done" /\ IsPayoutCall(w.call, share, height, rem))

\* The balance of the account, as recorded and as it is about to be written, is at
\* least what the reads to come will take from it.
DebitsCovered(share, rem) ==
    /\ ledger[PayoutKey].available >= Due(getting, share, height, rem)
    /\ \A w \in setting :
          Head(w.call.steps).key = PayoutKey =>
            w.account.available >= Due(getting, share, height, rem)

\* A share is paid by one call, which is at one place.
OneCallPerShare ==
    /\ \A v \in Validators : \A c, d \in getting :
          c.id = ShareId(v) /\ d.id = ShareId(v) => c = d
    /\ \A v \in Validators : \A w, x \in setting :
          w.call.id = ShareId(v) /\ x.call.id = ShareId(v) => w = x
    /\ \A v \in Validators : \A c \in getting, w \in setting :
          c.id = ShareId(v) => w.call.id # ShareId(v)

\* What a validator is owed is what it has and the share under way; a credit
\* about to be written adds the share to the balance it will replace.
OwedOrUnderWay(share) ==
    \A v \in Validators :
        /\ owed[v] = ledger[ShareKey(v)].available + (IF UnderWay(v) THEN share[v] ELSE 0)
        /\ \A w \in setting :
              w.call = CreditCall(v, share) =>
                w.account.available = ledger[ShareKey(v)].available + share[v]

PayoutInv(share, rem) ==
    /\ CallShapes(share, rem)
    /\ DebitsCovered(share, rem)
    /\ OneCallPerShare
    /\ OwedOrUnderWay(share)

IInv ==
    /\ TypeInv
    /\ \E share \in [Validators -> Nat], rem \in Nat : PayoutInv(share, rem)

-----------------------------------------------------------------------------
(* Facts about the calls *)

\* Calls are told apart by their names, and the accounts they use by their keys.
LEMMA NamesAndKeys ==
    /\ \A u, v : ShareId(u) = ShareId(v) => u = v
    /\ \A v : ShareId(v)[1] = "share"
    /\ \A v \in Validators : ShareKey(v) # PayoutKey
    /\ \A u, v \in Validators : ShareKey(u) = ShareKey(v) => u = v
    /\ PayoutKey \in Accounts \X Tokens
    /\ \A v \in Validators : ShareKey(v) \in Accounts \X Tokens
    /\ PayoutKey[2] = PayoutTokenLSK /\ PayoutTokenLSK # DexTokenLSK
    /\ \A v : ShareKey(v)[2] = PayoutTokenLSK
BY AddressAssumption DEF ShareId, ShareKey, PayoutKey, Accounts, Tokens, PayoutTokenLSK, DexTokenLSK

\* What each call of a payout does next, and what is left of it.
LEMMA DebitCallFacts ==
    ASSUME NEW share, NEW v
    PROVE  /\ DebitCall(v, share).id = ShareId(v)
           /\ Head(DebitCall(v, share).steps)
                = [key |-> PayoutKey, available |-> -share[v], locked |-> 0]
           /\ Len(DebitCall(v, share).steps) = 2
           /\ Tail(DebitCall(v, share).steps) # <<>>
           /\ [DebitCall(v, share) EXCEPT !.steps = Tail(DebitCall(v, share).steps)]
                = CreditCall(v, share)
BY DEF DebitCall, CreditCall, Transfer, Debit, Credit, PayoutKey

\* The call that credits a validator is a single step.
LEMMA CreditCallFacts ==
    ASSUME NEW share, NEW v
    PROVE  /\ CreditCall(v, share).id = ShareId(v)
           /\ Head(CreditCall(v, share).steps)
                = [key |-> ShareKey(v), available |-> share[v], locked |-> 0]
           /\ Len(CreditCall(v, share).steps) = 1
           /\ Tail(CreditCall(v, share).steps) = <<>>
BY DEF CreditCall, Credit, ShareKey

\* The call that locks the remainder is a single step.
LEMMA RemainderCallFacts ==
    ASSUME NEW h, NEW rem
    PROVE  /\ RemainderCall(h, rem).id[1] = "remainder"
           /\ Head(RemainderCall(h, rem).steps)
                = [key |-> PayoutKey, available |-> -rem, locked |-> rem]
           /\ Tail(RemainderCall(h, rem).steps) = <<>>
BY DEF RemainderCall, Lock, Locking, PayoutKey

\* The kinds of calls exclude one another.
LEMMA CallKinds ==
    ASSUME NEW share, NEW h, NEW rem, NEW v
    PROVE  /\ \A u : CreditCall(u, share) # DebitCall(v, share)
           /\ \A u : DebitCall(u, share) = DebitCall(v, share) => u = v
           /\ \A u : CreditCall(u, share) = CreditCall(v, share) => u = v
           /\ RemainderCall(h, rem) # DebitCall(v, share)
           /\ RemainderCall(h, rem) # CreditCall(v, share)
           /\ RemainderCall(h, rem).id # ShareId(v)
           /\ \A c : IsFeeCall(c) =>
                /\ c # DebitCall(v, share) /\ c # CreditCall(v, share)
                /\ c # RemainderCall(h, rem) /\ c.id # ShareId(v)
<1>1. \A u : CreditCall(u, share) # DebitCall(v, share)
  BY DEF DebitCall, CreditCall, Transfer
<1>2. \A u : DebitCall(u, share) = DebitCall(v, share) => u = v
  BY NamesAndKeys DEF DebitCall
<1>3. \A u : CreditCall(u, share) = CreditCall(v, share) => u = v
  BY NamesAndKeys DEF CreditCall
<1>4. RemainderCall(h, rem).id # ShareId(v)
  BY RemainderCallFacts, NamesAndKeys
<1>5. RemainderCall(h, rem) # DebitCall(v, share) /\ RemainderCall(h, rem) # CreditCall(v, share)
  BY <1>4 DEF DebitCall, CreditCall
<1>6. ASSUME NEW c, IsFeeCall(c)
      PROVE  /\ c # DebitCall(v, share) /\ c # CreditCall(v, share)
             /\ c # RemainderCall(h, rem) /\ c.id # ShareId(v)
  <2>1. c.id[1] # "share" /\ c.id[1] # "remainder"
    BY <1>6 DEF IsFeeCall
  <2>2. c.id # ShareId(v)
    BY <2>1, NamesAndKeys
  <2>3. QED
    BY <2>1, <2>2 DEF DebitCall, CreditCall, RemainderCall
<1>7. QED
  BY <1>1, <1>2, <1>3, <1>4, <1>5, <1>6

-----------------------------------------------------------------------------
(* What a payout has still to take from the account *)

\* It is a natural number.
LEMMA DueNat ==
    ASSUME NEW share \in [Validators -> Nat], NEW h, NEW rem \in Nat, NEW calls
    PROVE  Due(calls, share, h, rem) \in Nat
<1>1. ToDebit(calls, share) \subseteq Validators
  BY DEF ToDebit
<1>2. IsFiniteSet(ToDebit(calls, share))
  BY <1>1, FS_Subset, IncentivesAssumption
<1>3. SumOver(share, ToDebit(calls, share)) \in Nat
  BY <1>1, <1>2, SumNat
<1>4. QED
  BY <1>3 DEF Due

\* A debit that has read the account is no longer due.
LEMMA DueWithoutDebit ==
    ASSUME NEW share \in [Validators -> Nat], NEW h, NEW rem \in Nat, NEW calls,
           NEW v \in Validators, DebitCall(v, share) \in calls
    PROVE  Due(calls \ {DebitCall(v, share)}, share, h, rem) = Due(calls, share, h, rem) - share[v]
<1> DEFINE left == calls \ {DebitCall(v, share)}
           T == ToDebit(calls, share)
<1>1. ToDebit(left, share) = T \ {v}
  BY CallKinds DEF ToDebit
<1>2. T \subseteq Validators /\ v \in T
  BY DEF ToDebit
<1>3. IsFiniteSet(T)
  BY <1>2, FS_Subset, IncentivesAssumption
<1>4. \A x \in T : share[x] \in Int
  BY <1>2
<1>5. SumOver(share, T) = share[v] + SumOver(share, T \ {v})
  BY <1>2, <1>3, <1>4, SumRemove
<1>6. SumOver(share, T \ {v}) \in Int
  BY <1>3, <1>4, FS_Subset, SumInt
<1>7. RemainderCall(h, rem) \in left <=> RemainderCall(h, rem) \in calls
  BY CallKinds
<1>8. share[v] \in Nat
  OBVIOUS
<1> HIDE DEF left, T
<1>9. /\ Due(left, share, h, rem) =
           SumOver(share, T \ {v}) + (IF RemainderCall(h, rem) \in calls THEN rem ELSE 0)
      /\ Due(calls, share, h, rem) =
           SumOver(share, T) + (IF RemainderCall(h, rem) \in calls THEN rem ELSE 0)
  BY <1>1, <1>7 DEF Due, T
<1>10. QED
  BY <1>5, <1>6, <1>8, <1>9 DEF left

\* Nor is a remainder that has.
LEMMA DueWithoutRemainder ==
    ASSUME NEW share \in [Validators -> Nat], NEW h, NEW rem \in Nat, NEW calls,
           RemainderCall(h, rem) \in calls
    PROVE  Due(calls \ {RemainderCall(h, rem)}, share, h, rem) = Due(calls, share, h, rem) - rem
<1> DEFINE left == calls \ {RemainderCall(h, rem)}
           T == ToDebit(calls, share)
<1>1. ToDebit(left, share) = T
  BY CallKinds DEF ToDebit
<1>2. T \subseteq Validators
  BY DEF ToDebit
<1>3. SumOver(share, T) \in Int
  BY <1>2, FS_Subset, IncentivesAssumption, SumInt
<1>4. RemainderCall(h, rem) \notin left
  OBVIOUS
<1> HIDE DEF left, T
<1>5. /\ Due(left, share, h, rem) = SumOver(share, T)
      /\ Due(calls, share, h, rem) = SumOver(share, T) + rem
  BY <1>1, <1>3, <1>4 DEF Due, T
<1>6. QED
  BY <1>3, <1>5 DEF left

\* Other calls do not count, whether one has read or some are added.
IsOther(c, share, h, rem) ==
    c # RemainderCall(h, rem) /\ \A v \in Validators : c # DebitCall(v, share)

\* The end of a call that is none of the payout's changes nothing that is due.
LEMMA DueWithoutOther ==
    ASSUME NEW share, NEW h, NEW rem, NEW calls, NEW c, IsOther(c, share, h, rem)
    PROVE  Due(calls \ {c}, share, h, rem) = Due(calls, share, h, rem)
<1>1. ToDebit(calls \ {c}, share) = ToDebit(calls, share)
  BY DEF ToDebit, IsOther
<1>2. RemainderCall(h, rem) \in calls \ {c} <=> RemainderCall(h, rem) \in calls
  BY DEF IsOther
<1>3. QED
  BY <1>1, <1>2 DEF Due

\* Calls that are none of the payout's change nothing that is due.
LEMMA DueWithOthers ==
    ASSUME NEW share, NEW h, NEW rem, NEW calls, NEW more,
           \A c \in more : IsOther(c, share, h, rem)
    PROVE  Due(calls \cup more, share, h, rem) = Due(calls, share, h, rem)
<1>1. ToDebit(calls \cup more, share) = ToDebit(calls, share)
  BY DEF ToDebit, IsOther
<1>2. RemainderCall(h, rem) \in calls \cup more <=> RemainderCall(h, rem) \in calls
  BY DEF IsOther
<1>3. QED
  BY <1>1, <1>2 DEF Due

\* A credit takes nothing from the account.
LEMMA CreditIsOther ==
    ASSUME NEW share, NEW h, NEW rem, NEW v
    PROVE  IsOther(CreditCall(v, share), share, h, rem)
<1>1. \A u : CreditCall(v, share) # DebitCall(u, share)
  BY DEF CreditCall, DebitCall, Transfer
<1>2. CreditCall(v, share) # RemainderCall(h, rem)
  BY CallKinds
<1>3. QED
  BY <1>1, <1>2 DEF IsOther

-----------------------------------------------------------------------------
(* The calls of a payout keep the invariant *)

\* No call of a payout is refused.
LEMMA PayoutCallCovered ==
    ASSUME TypeInv, NEW share \in [Validators -> Nat], NEW rem \in Nat,
           PayoutInv(share, rem), NEW c \in getting, IsPayoutCall(c, share, height, rem)
    PROVE  Covered(Head(c.steps))
<1> DEFINE balance(key) == ledger[key]
           D(calls) == Due(calls, share, height, rem)
<1>1. \A key \in Accounts \X Tokens : balance(key).available \in Nat /\ balance(key).locked \in Nat
  BY DEF TypeInv, TypeOK
<1>2. D(getting) \in Nat /\ ledger[PayoutKey].available >= D(getting)
  BY DueNat DEF PayoutInv, DebitsCovered
<1>3. ASSUME NEW v \in Validators, c = DebitCall(v, share)
      PROVE  Covered(Head(c.steps))
  <2>1. D(getting \ {c}) \in Nat /\ D(getting \ {c}) = D(getting) - share[v]
    BY <1>3, DueNat, DueWithoutDebit
  <2>2. Head(c.steps) = [key |-> PayoutKey, available |-> -share[v], locked |-> 0]
    BY <1>3, DebitCallFacts
  <2>3. share[v] \in Nat
    OBVIOUS
  <2> HIDE DEF D
  <2>4. QED
    BY <1>1, <1>2, <2>1, <2>2, <2>3, NamesAndKeys DEF Covered, Covers
<1>4. ASSUME NEW v \in Validators, c = CreditCall(v, share)
      PROVE  Covered(Head(c.steps))
  <2>1. Head(c.steps) = [key |-> ShareKey(v), available |-> share[v], locked |-> 0]
    BY <1>4, CreditCallFacts
  <2>2. QED
    BY <1>1, <2>1, NamesAndKeys DEF Covered, Covers
<1>5. ASSUME c = RemainderCall(height, rem) PROVE Covered(Head(c.steps))
  <2>1. D(getting \ {c}) \in Nat /\ D(getting \ {c}) = D(getting) - rem
    BY <1>5, DueNat, DueWithoutRemainder
  <2>2. Head(c.steps) = [key |-> PayoutKey, available |-> -rem, locked |-> rem]
    BY <1>5, RemainderCallFacts
  <2> HIDE DEF D
  <2>3. QED
    BY <1>1, <1>2, <2>1, <2>2, NamesAndKeys DEF Covered, Covers
<1>6. QED
  BY <1>3, <1>4, <1>5 DEF IsPayoutCall

\* A read never makes more due, and lowers what is due by what it takes from the
\* account.
LEMMA DueAfterRead ==
    ASSUME NEW share \in [Validators -> Nat], NEW h, NEW rem \in Nat, NEW calls, NEW c \in calls,
           IsFeeCall(c) \/ IsPayoutCall(c, share, h, rem)
    PROVE  /\ Due(calls \ {c}, share, h, rem) <= Due(calls, share, h, rem)
           /\ Head(c.steps).key = PayoutKey =>
                /\ Head(c.steps).available \in Int
                /\ Due(calls \ {c}, share, h, rem)
                     = Due(calls, share, h, rem) + Head(c.steps).available
<1>1. Due(calls, share, h, rem) \in Nat
  BY DueNat
<1>2. CASE IsFeeCall(c)
  <2>1. IsOther(c, share, h, rem)
    BY <1>2, CallKinds DEF IsOther
  <2>2. Due(calls \ {c}, share, h, rem) = Due(calls, share, h, rem)
    BY <2>1, DueWithoutOther
  <2>3. Head(c.steps).key # PayoutKey
    BY <1>2, NamesAndKeys DEF IsFeeCall
  <2>4. QED
    BY <1>1, <2>2, <2>3
<1>3. ASSUME NEW v \in Validators, c = DebitCall(v, share)
      PROVE  /\ Due(calls \ {c}, share, h, rem) <= Due(calls, share, h, rem)
             /\ Head(c.steps).available \in Int
             /\ Due(calls \ {c}, share, h, rem)
                  = Due(calls, share, h, rem) + Head(c.steps).available
  <2>1. Due(calls \ {c}, share, h, rem) = Due(calls, share, h, rem) - share[v]
    BY <1>3, DueWithoutDebit
  <2>2. Head(c.steps) = [key |-> PayoutKey, available |-> -share[v], locked |-> 0]
    BY <1>3, DebitCallFacts
  <2>3. share[v] \in Nat
    OBVIOUS
  <2>4. QED
    BY <1>1, <2>1, <2>2, <2>3
<1>4. ASSUME NEW v \in Validators, c = CreditCall(v, share)
      PROVE  /\ Due(calls \ {c}, share, h, rem) <= Due(calls, share, h, rem)
             /\ Head(c.steps).key # PayoutKey
  <2>1. IsOther(c, share, h, rem)
    BY <1>4, CallKinds DEF IsOther
  <2>2. Due(calls \ {c}, share, h, rem) = Due(calls, share, h, rem)
    BY <2>1, DueWithoutOther
  <2>3. Head(c.steps) = [key |-> ShareKey(v), available |-> share[v], locked |-> 0]
    BY <1>4, CreditCallFacts
  <2>4. QED
    BY <1>1, <2>2, <2>3, NamesAndKeys
<1>5. ASSUME c = RemainderCall(h, rem)
      PROVE  /\ Due(calls \ {c}, share, h, rem) <= Due(calls, share, h, rem)
             /\ Head(c.steps).available \in Int
             /\ Due(calls \ {c}, share, h, rem)
                  = Due(calls, share, h, rem) + Head(c.steps).available
  <2>1. Due(calls \ {c}, share, h, rem) = Due(calls, share, h, rem) - rem
    BY <1>5, DueWithoutRemainder
  <2>2. Head(c.steps) = [key |-> PayoutKey, available |-> -rem, locked |-> rem]
    BY <1>5, RemainderCallFacts
  <2>3. QED
    BY <1>1, <2>1, <2>2
<1>6. QED
  BY <1>2, <1>3, <1>4, <1>5 DEF IsPayoutCall

\* A read of any call keeps the invariant.
LEMMA PayoutTokenGet ==
    ASSUME TypeInv, NEW share \in [Validators -> Nat], NEW rem \in Nat,
           PayoutInv(share, rem), NEW c \in getting, TokenGet(c)
    PROVE  PayoutInv(share, rem)'
<1> DEFINE step == Head(c.steps)
           new == [call |-> c, account |-> Moved(ledger[step.key], step)]
<1>1. /\ getting' = getting \ {c}
      /\ setting' = IF Covered(step) THEN setting \cup {new} ELSE setting
      /\ height' = height /\ phase' = phase /\ ledger' = ledger /\ owed' = owed
  BY DEF TokenGet
<1>2. \A w \in setting' : w \in setting \/ (Covered(step) /\ w = new)
  BY <1>1
<1>3. new.call = c /\ new.account = Moved(ledger[step.key], step)
  OBVIOUS
<1>4. IsFeeCall(c) \/ (phase = "done" /\ IsPayoutCall(c, share, height, rem))
  BY DEF PayoutInv, CallShapes
<1> HIDE DEF new
<1>5. CallShapes(share, rem)'
  BY <1>1, <1>2, <1>3, <1>4 DEF PayoutInv, CallShapes
<1>6. DebitsCovered(share, rem)'
  <2> DEFINE due == Due(getting, share, height, rem)
             due2 == Due(getting', share, height, rem)
  <2>1. due \in Nat /\ due2 \in Nat
    BY DueNat
  <2>2. /\ due2 <= due
        /\ step.key = PayoutKey => step.available \in Int /\ due2 = due + step.available
    BY <1>1, <1>4, DueAfterRead
  <2>3. ledger[PayoutKey].available \in Nat /\ ledger[PayoutKey].available >= due
    BY NamesAndKeys DEF TypeInv, TypeOK, PayoutInv, DebitsCovered
  <2>4. \A w \in setting : w.account.available \in Nat
    BY DEF TypeInv, Writes, Balances
  <2>5. \A w \in setting : Head(w.call.steps).key = PayoutKey => w.account.available >= due
    BY DEF PayoutInv, DebitsCovered
  <2>6. ASSUME NEW w \in setting', Head(w.call.steps).key = PayoutKey
        PROVE  w.account.available >= due2
    <3> HIDE DEF due, due2
    <3>1. CASE w \in setting
      BY <2>1, <2>2, <2>4, <2>5, <2>6, <3>1
    <3>2. CASE w = new
      <4>1. step.key = PayoutKey
        BY <1>3, <2>6, <3>2
      <4>2. w.account.available = ledger[PayoutKey].available + step.available
        BY <1>3, <3>2, <4>1 DEF Moved
      <4>3. QED
        BY <2>1, <2>2, <2>3, <4>1, <4>2
    <3>3. QED
      BY <1>2, <3>1, <3>2
  <2>7. ledger[PayoutKey].available >= due2
    <3> HIDE DEF due, due2
    <3>1. QED
      BY <2>1, <2>2, <2>3
  <2>8. QED
    BY <1>1, <2>6, <2>7 DEF DebitsCovered
<1>7. OneCallPerShare'
  BY <1>1, <1>2, <1>3 DEF PayoutInv, OneCallPerShare
<1>8. ASSUME NEW v \in Validators PROVE UnderWay(v)' <=> UnderWay(v)
  <2>1. CASE c.id = ShareId(v)
    <3>1. Covered(step)
      BY <1>4, <2>1, CallKinds, PayoutCallCovered
    <3>2. new \in setting' /\ new.call.id = ShareId(v)
      BY <1>1, <1>3, <2>1, <3>1
    <3>3. QED
      BY <2>1, <3>2 DEF UnderWay
  <2>2. CASE c.id # ShareId(v)
    BY <1>1, <1>2, <1>3, <2>2 DEF UnderWay
  <2>3. QED
    BY <2>1, <2>2
<1>9. OwedOrUnderWay(share)'
  <2> SUFFICES ASSUME NEW v \in Validators
               PROVE  /\ owed'[v] = ledger'[ShareKey(v)].available
                            + (IF UnderWay(v)' THEN share[v] ELSE 0)
                      /\ \A w \in setting' : w.call = CreditCall(v, share) =>
                            w.account.available = ledger'[ShareKey(v)].available + share[v]
    BY DEF OwedOrUnderWay
  <2>1. owed'[v] = ledger'[ShareKey(v)].available + (IF UnderWay(v)' THEN share[v] ELSE 0)
    BY <1>1, <1>8 DEF PayoutInv, OwedOrUnderWay
  <2>2. ASSUME NEW w \in setting', w.call = CreditCall(v, share)
        PROVE  w.account.available = ledger[ShareKey(v)].available + share[v]
    <3>1. CASE w \in setting
      BY <2>2, <3>1 DEF PayoutInv, OwedOrUnderWay
    <3>2. CASE w = new
      <4>1. step = [key |-> ShareKey(v), available |-> share[v], locked |-> 0]
        BY <1>3, <2>2, <3>2, CreditCallFacts
      <4>2. QED
        BY <1>3, <3>2, <4>1 DEF Moved
    <3>3. QED
      BY <1>2, <3>1, <3>2
  <2>3. QED
    BY <1>1, <2>1, <2>2
<1>10. QED
  BY <1>5, <1>6, <1>7, <1>9 DEF PayoutInv

\* What a write of a call does to the account and to the calls under way.
LEMMA WriteFacts ==
    ASSUME TypeInv, NEW share \in [Validators -> Nat], NEW rem \in Nat,
           NEW w \in setting, TokenSet(w),
           IsFeeCall(w.call) \/ IsPayoutCall(w.call, share, height, rem)
    PROVE  \/ /\ Head(w.call.steps).key[2] = DexTokenLSK
              /\ getting' = getting
              /\ \A v \in Validators : w.call.id # ShareId(v)
              /\ \A v \in Validators : w.call # CreditCall(v, share)
           \/ \E v \in Validators :
                /\ w.call = DebitCall(v, share)
                /\ Head(w.call.steps).key = PayoutKey
                /\ getting' = getting \cup {CreditCall(v, share)}
           \/ \E v \in Validators :
                /\ w.call = CreditCall(v, share)
                /\ Head(w.call.steps).key = ShareKey(v)
                /\ getting' = getting
           \/ /\ w.call = RemainderCall(height, rem)
              /\ Head(w.call.steps).key = PayoutKey
              /\ getting' = getting
<1>1. /\ Tail(w.call.steps) = <<>> => getting' = getting
      /\ Tail(w.call.steps) # <<>> =>
           getting' = getting \cup {[w.call EXCEPT !.steps = Tail(w.call.steps)]}
  BY DEF TokenSet
<1>2. CASE IsFeeCall(w.call)
  <2> DEFINE steps == w.call.steps
  <2>1. steps \in Seq(Steps) /\ steps # <<>> /\ Len(steps) = 1
    BY <1>2 DEF TypeInv, Writes, Calls, IsFeeCall
  <2>2. Tail(steps) = <<>>
    <3> HIDE DEF steps
    <3>1. Tail(steps) \in Seq(Steps) /\ Len(Tail(steps)) = 0
      BY <2>1, HeadTailProperties
    <3>2. QED
      BY <3>1, EmptySeq
  <2>3. Head(w.call.steps).key[2] = DexTokenLSK
    BY <1>2 DEF IsFeeCall
  <2>4. QED
    BY <1>1, <1>2, <2>2, <2>3, CallKinds
<1>3. ASSUME NEW v \in Validators, w.call = DebitCall(v, share)
      PROVE  /\ Head(w.call.steps).key = PayoutKey
             /\ getting' = getting \cup {CreditCall(v, share)}
  <2>1. /\ Head(w.call.steps) = [key |-> PayoutKey, available |-> -share[v], locked |-> 0]
        /\ Tail(w.call.steps) # <<>>
        /\ [w.call EXCEPT !.steps = Tail(w.call.steps)] = CreditCall(v, share)
    BY <1>3, DebitCallFacts
  <2>2. getting' = getting \cup {CreditCall(v, share)}
    BY <1>1, <2>1, Zenon
  <2>3. QED
    BY <2>1, <2>2
<1>4. ASSUME NEW v \in Validators, w.call = CreditCall(v, share)
      PROVE  Head(w.call.steps).key = ShareKey(v) /\ getting' = getting
  <2>1. /\ Head(w.call.steps) = [key |-> ShareKey(v), available |-> share[v], locked |-> 0]
        /\ Tail(w.call.steps) = <<>>
    BY <1>4, CreditCallFacts
  <2>2. QED
    BY <1>1, <2>1
<1>5. ASSUME w.call = RemainderCall(height, rem)
      PROVE  Head(w.call.steps).key = PayoutKey /\ getting' = getting
  <2>1. /\ Head(w.call.steps) = [key |-> PayoutKey, available |-> -rem, locked |-> rem]
        /\ Tail(w.call.steps) = <<>>
    BY <1>5, RemainderCallFacts
  <2>2. QED
    BY <1>1, <2>1
<1>6. QED
  BY <1>2, <1>3, <1>4, <1>5 DEF IsPayoutCall

\* A write of any call keeps the invariant.
LEMMA PayoutTokenSet ==
    ASSUME TypeInv, NEW share \in [Validators -> Nat], NEW rem \in Nat,
           PayoutInv(share, rem), NEW w \in setting, TokenSet(w)
    PROVE  PayoutInv(share, rem)'
<1> DEFINE key == Head(w.call.steps).key
           due == Due(getting, share, height, rem)
<1>1. /\ setting' = setting \ {w}
      /\ ledger' = [ledger EXCEPT ![key] = w.account]
      /\ height' = height /\ phase' = phase /\ owed' = owed
  BY DEF TokenSet
<1>2. IsFeeCall(w.call) \/ (phase = "done" /\ IsPayoutCall(w.call, share, height, rem))
  BY DEF PayoutInv, CallShapes
<1>3. /\ \A k \in Accounts \X Tokens : k # key => ledger'[k] = ledger[k]
      /\ key \in Accounts \X Tokens => ledger'[key] = w.account
  BY <1>1 DEF TypeInv, TypeOK
<1>4. ledger'[PayoutKey] = IF key = PayoutKey THEN w.account ELSE ledger[PayoutKey]
  BY <1>3, NamesAndKeys
<1>5. \A v \in Validators :
        ledger'[ShareKey(v)] = IF key = ShareKey(v) THEN w.account ELSE ledger[ShareKey(v)]
  BY <1>3, NamesAndKeys
<1>6. /\ ledger[PayoutKey].available >= due
      /\ key = PayoutKey => w.account.available >= due
      /\ \A x \in setting : Head(x.call.steps).key = PayoutKey => x.account.available >= due
  BY DEF PayoutInv, DebitsCovered
<1>7. ledger'[PayoutKey].available >= due
  BY <1>4, <1>6
<1>8. ASSUME getting' = getting PROVE CallShapes(share, rem)' /\ DebitsCovered(share, rem)'
  <2>1. CallShapes(share, rem)'
    BY <1>1, <1>8 DEF PayoutInv, CallShapes
  <2>2. Due(getting', share, height', rem) = due
    BY <1>1, <1>8
  <2> HIDE DEF due
  <2>3. QED
    BY <1>1, <1>6, <1>7, <2>1, <2>2 DEF DebitsCovered
<1>9. ASSUME getting' = getting, \A v \in Validators : w.call.id # ShareId(v)
      PROVE  /\ OneCallPerShare'
             /\ \A v \in Validators : UnderWay(v)' <=> UnderWay(v)
  BY <1>1, <1>9 DEF PayoutInv, OneCallPerShare, UnderWay
<1>10. ASSUME \A v \in Validators : UnderWay(v)' <=> UnderWay(v),
              \A v \in Validators : key # ShareKey(v)
       PROVE  OwedOrUnderWay(share)'
  <2>1. \A v \in Validators : ledger'[ShareKey(v)] = ledger[ShareKey(v)]
    BY <1>5, <1>10
  <2>2. QED
    BY <1>1, <1>10, <2>1 DEF PayoutInv, OwedOrUnderWay
<1>11. ASSUME key[2] = DexTokenLSK, getting' = getting,
              \A v \in Validators : w.call.id # ShareId(v)
       PROVE  PayoutInv(share, rem)'
  <2>1. \A v \in Validators : key # ShareKey(v)
    BY <1>11, NamesAndKeys
  <2>2. QED
    BY <1>8, <1>9, <1>10, <1>11, <2>1 DEF PayoutInv
<1>12. ASSUME NEW v \in Validators, w.call = DebitCall(v, share), key = PayoutKey,
              getting' = getting \cup {CreditCall(v, share)}
       PROVE  PayoutInv(share, rem)'
  <2> DEFINE more == {CreditCall(v, share)}
  <2>1. \A c \in more : IsOther(c, share, height, rem)
    BY CreditIsOther
  <2>2. Due(getting', share, height', rem) = due
    <3> HIDE DEF more
    <3>1. Due(getting \cup more, share, height, rem) = due
      BY <2>1, DueWithOthers
    <3>2. QED
      BY <1>1, <1>12, <3>1 DEF more
  <2>3. w.call.id = ShareId(v) /\ CreditCall(v, share).id = ShareId(v)
    <3>1. DebitCall(v, share).id = ShareId(v)
      BY DebitCallFacts
    <3>2. CreditCall(v, share).id = ShareId(v)
      BY CreditCallFacts
    <3>3. QED
      BY <1>12, <3>1, <3>2
  <2>4. CallShapes(share, rem)'
    <3>1. phase = "done"
      BY <1>2, <1>12, CallKinds
    <3>2. IsPayoutCall(CreditCall(v, share), share, height, rem)
      BY DEF IsPayoutCall
    <3>3. QED
      BY <1>1, <1>12, <3>1, <3>2 DEF PayoutInv, CallShapes
  <2>5. DebitsCovered(share, rem)'
    <3> HIDE DEF due
    <3>1. QED
      BY <1>1, <1>6, <1>7, <2>2 DEF DebitsCovered
  <2>6. OneCallPerShare'
    <3>1. \A u \in Validators : ShareId(u) = ShareId(v) => u = v
      BY NamesAndKeys
    <3>2. /\ \A c \in getting : c.id # ShareId(v)
          /\ \A x \in setting' : x.call.id # ShareId(v)
      BY <1>1, <2>3 DEF PayoutInv, OneCallPerShare
    <3>3. QED
      BY <1>1, <1>12, <2>3, <3>1, <3>2 DEF PayoutInv, OneCallPerShare
  <2>7. ASSUME NEW u \in Validators PROVE UnderWay(u)' <=> UnderWay(u)
    <3>1. CASE u = v
      <4>1. UnderWay(v) /\ UnderWay(v)'
        BY <1>12, <2>3 DEF UnderWay
      <4>2. QED
        BY <3>1, <4>1
    <3>2. CASE u # v
      <4>1. ShareId(u) # ShareId(v)
        BY <3>2, NamesAndKeys
      <4>2. QED
        BY <1>1, <1>12, <2>3, <4>1 DEF UnderWay
    <3>3. QED
      BY <3>1, <3>2
  <2>8. \A u \in Validators : key # ShareKey(u)
    BY <1>12, NamesAndKeys
  <2>9. QED
    BY <1>10, <2>4, <2>5, <2>6, <2>7, <2>8 DEF PayoutInv
<1>13. ASSUME NEW v \in Validators, w.call = CreditCall(v, share), key = ShareKey(v),
              getting' = getting
       PROVE  PayoutInv(share, rem)'
  <2>1. w.call.id = ShareId(v)
    BY <1>13, CreditCallFacts
  <2>2. OneCallPerShare'
    BY <1>1, <1>13 DEF PayoutInv, OneCallPerShare
  <2>3. UnderWay(v) /\ ~UnderWay(v)'
    BY <1>1, <1>13, <2>1 DEF PayoutInv, OneCallPerShare, UnderWay
  <2>4. \A u \in Validators : u # v => (UnderWay(u)' <=> UnderWay(u))
    <3>1. \A u \in Validators : u # v => w.call.id # ShareId(u)
      BY <2>1, NamesAndKeys
    <3>2. QED
      BY <1>1, <1>13, <3>1 DEF UnderWay
  <2>5. ASSUME NEW u \in Validators
        PROVE  /\ owed'[u] = ledger'[ShareKey(u)].available
                     + (IF UnderWay(u)' THEN share[u] ELSE 0)
               /\ \A x \in setting' : x.call = CreditCall(u, share) =>
                     x.account.available = ledger'[ShareKey(u)].available + share[u]
    <3>1. CASE u = v
      <4>1. ledger'[ShareKey(v)] = w.account
        BY <1>5, <1>13
      <4>2. /\ owed[v] = ledger[ShareKey(v)].available + share[v]
            /\ w.account.available = ledger[ShareKey(v)].available + share[v]
        BY <1>13, <2>3 DEF PayoutInv, OwedOrUnderWay
      <4>3. w.account.available \in Nat
        BY DEF TypeInv, Writes, Balances
      <4>4. \A x \in setting' : x.call # CreditCall(v, share)
        BY <1>1, <1>13, <2>1 DEF PayoutInv, OneCallPerShare
      <4>5. owed'[v] = ledger'[ShareKey(v)].available + 0
        BY <1>1, <4>1, <4>2, <4>3
      <4>6. QED
        BY <2>3, <3>1, <4>4, <4>5
    <3>2. CASE u # v
      <4>1. ledger'[ShareKey(u)] = ledger[ShareKey(u)]
        BY <1>5, <1>13, <3>2, NamesAndKeys
      <4>2. QED
        BY <1>1, <2>4, <3>2, <4>1 DEF PayoutInv, OwedOrUnderWay
    <3>3. QED
      BY <3>1, <3>2
  <2>6. OwedOrUnderWay(share)'
    BY <2>5 DEF OwedOrUnderWay
  <2>7. QED
    BY <1>8, <1>13, <2>2, <2>6 DEF PayoutInv
<1>14. ASSUME w.call = RemainderCall(height, rem), key = PayoutKey, getting' = getting
       PROVE  PayoutInv(share, rem)'
  <2>1. \A v \in Validators : w.call.id # ShareId(v) /\ key # ShareKey(v)
    <3>1. ASSUME NEW v \in Validators PROVE w.call.id # ShareId(v)
      <4>1. RemainderCall(height, rem).id # ShareId(v)
        BY CallKinds
      <4>2. QED
        BY <1>14, <4>1, Zenon
    <3>2. ASSUME NEW v \in Validators PROVE key # ShareKey(v)
      <4>1. PayoutKey # ShareKey(v)
        BY NamesAndKeys, Zenon
      <4>2. QED
        BY <1>14, <4>1, Zenon
    <3>3. QED
      BY <3>1, <3>2, Zenon
  <2>2. QED
    BY <1>8, <1>9, <1>10, <1>14, <2>1 DEF PayoutInv
<1>15. QED
  BY <1>2, <1>11, <1>12, <1>13, <1>14, WriteFacts

-----------------------------------------------------------------------------
(* The blocks keep the invariant *)

\* At genesis there is nothing to pay out.
LEMMA PayoutInit ==
    ASSUME Init, NEW share \in [Validators -> Nat], NEW rem \in Nat
    PROVE  PayoutInv(share, rem)
<1>1. getting = {} /\ setting = {} /\ owed = [v \in Validators |-> 0]
  BY DEF Init
<1>2. \A k \in Accounts \X Tokens : ledger[k].available = 0
  BY DEF Init
<1>3. ToDebit(getting, share) = {} /\ RemainderCall(height, rem) \notin getting
  BY <1>1 DEF ToDebit
<1>4. Due(getting, share, height, rem) = 0
  BY <1>3, SumEmpty DEF Due
<1>5. DebitsCovered(share, rem)
  BY <1>1, <1>2, <1>4, NamesAndKeys DEF DebitsCovered
<1>6. OwedOrUnderWay(share)
  BY <1>1, <1>2, NamesAndKeys DEF OwedOrUnderWay, UnderWay
<1>7. QED
  BY <1>1, <1>5, <1>6 DEF PayoutInv, CallShapes, OneCallPerShare

\* A block starts when no call is under way.
LEMMA PayoutNextBlock ==
    ASSUME TypeInv, NEW share \in [Validators -> Nat], NEW rem \in Nat,
           PayoutInv(share, rem), NextBlock
    PROVE  PayoutInv(share, rem)'
<1>1. /\ getting = {} /\ setting = {} /\ getting' = {} /\ setting' = {}
      /\ ledger' = ledger /\ owed' = owed
  BY DEF NextBlock
<1>2. ToDebit(getting', share) = {} /\ RemainderCall(height', rem) \notin getting'
  BY <1>1 DEF ToDebit
<1>3. Due(getting', share, height', rem) = 0
  BY <1>2, SumEmpty DEF Due
<1>4. ledger[PayoutKey].available \in Nat
  BY NamesAndKeys DEF TypeInv, TypeOK
<1>5. DebitsCovered(share, rem)'
  BY <1>1, <1>3, <1>4 DEF DebitsCovered
<1>6. OwedOrUnderWay(share)'
  BY <1>1 DEF PayoutInv, OwedOrUnderWay, UnderWay
<1>7. QED
  BY <1>1, <1>5, <1>6 DEF PayoutInv, CallShapes, OneCallPerShare

\* The hooks that pay nothing leave the calls alone.
LEMMA PayoutHooks ==
    ASSUME NEW share \in [Validators -> Nat], NEW rem \in Nat,
           PayoutInv(share, rem), MintLiquidityIncentives \/ NothingToPay
    PROVE  PayoutInv(share, rem)'
<1>1. /\ getting' = getting /\ setting' = setting /\ ledger' = ledger /\ owed' = owed
      /\ height' = height /\ phase # "done"
  BY DEF MintLiquidityIncentives, NothingToPay
<1>2. CallShapes(share, rem)'
  BY <1>1 DEF PayoutInv, CallShapes
<1>3. DebitsCovered(share, rem)'
  BY <1>1 DEF PayoutInv, DebitsCovered
<1>4. OneCallPerShare' /\ OwedOrUnderWay(share)'
  BY <1>1 DEF PayoutInv, OneCallPerShare, OwedOrUnderWay, UnderWay
<1>5. QED
  BY <1>2, <1>3, <1>4 DEF PayoutInv

\* The calls for the fee of a swap do not touch what a payout uses.
LEMMA PayoutFees ==
    ASSUME NEW share \in [Validators -> Nat], NEW rem \in Nat,
           PayoutInv(share, rem), NEW fee \in Fees, TransferFeesFromPool(fee)
    PROVE  PayoutInv(share, rem)'
<1> DEFINE transfer == [id |-> <<"transfer", swaps>>,
                        steps |-> <<Credit(ValidatorIncentives, DexTokenLSK, fee)>>]
           lock == [id |-> <<"lock", swaps>>,
                    steps |-> Lock(ValidatorIncentives, DexTokenLSK, fee)]
           new == {transfer, lock}
<1>1. /\ getting' = getting \cup new
      /\ setting' = setting /\ ledger' = ledger /\ owed' = owed
      /\ height' = height /\ phase' = phase
  BY DEF TransferFeesFromPool
<1>2. \A c \in new : IsFeeCall(c)
  <2>1. IsFeeCall(transfer)
    BY DEF IsFeeCall, Credit
  <2>2. IsFeeCall(lock)
    BY DEF IsFeeCall, Lock, Locking
  <2>3. QED
    BY <2>1, <2>2
<1>3. \A c \in new : IsOther(c, share, height, rem) /\ \A v \in Validators : c.id # ShareId(v)
  BY <1>2, CallKinds DEF IsOther
<1> HIDE DEF new
<1>4. Due(getting', share, height', rem) = Due(getting, share, height, rem)
  BY <1>1, <1>3, DueWithOthers
<1>5. CallShapes(share, rem)'
  BY <1>1, <1>2 DEF PayoutInv, CallShapes
<1>6. DebitsCovered(share, rem)'
  BY <1>1, <1>4 DEF PayoutInv, DebitsCovered
<1>7. OneCallPerShare'
  BY <1>1, <1>3 DEF PayoutInv, OneCallPerShare
<1>8. \A v \in Validators : UnderWay(v)' <=> UnderWay(v)
  BY <1>1, <1>3 DEF UnderWay
<1>9. OwedOrUnderWay(share)'
  BY <1>1, <1>8 DEF PayoutInv, OwedOrUnderWay
<1>10. QED
  BY <1>5, <1>6, <1>7, <1>9 DEF PayoutInv

\* A payout issues the calls of its own shares and remainder; none of an earlier
\* payout is under way.
LEMMA PayoutPayOut ==
    ASSUME TypeInv, NEW share \in [Validators -> Nat], NEW rem \in Nat,
           PayoutInv(share, rem), PayOut
    PROVE  \E share2 \in [Validators -> Nat], rem2 \in Nat : PayoutInv(share2, rem2)'
<1>1. ledger[PayoutKey] \in Balances
  BY NamesAndKeys DEF TypeInv, TypeOK, Balances
<1>2. PICK available \in Nat : available = ledger[PayoutKey].locked
  BY <1>1 DEF Balances
<1> DEFINE f == Shares(available)
           r == Remainder(available)
           debits == {DebitCall(v, f) : v \in Validators}
           lock == RemainderCall(height, r)
           new == debits \cup {lock}
<1>3. /\ ledger' = [ledger EXCEPT ![PayoutKey] = Unlocked(@)]
      /\ setting' = setting /\ height' = height
      /\ phase = "after" /\ phase' = "done"
  BY DEF PayOut, PayoutKey
<1>4. f \in [Validators -> Nat] /\ r \in Nat /\ r + SumOver(f, Validators) = available
  BY <1>2, SharesFit
<1>5. getting' = getting \cup new
  <2>1. \A v \in Validators : DebitCall(v, f) =
          [id |-> <<"share", v>>,
           steps |-> Transfer(ValidatorIncentives, v, PayoutTokenLSK, Share(v, available))]
    BY DEF DebitCall, ShareId, Shares
  <2>2. lock = [id |-> <<"remainder", height>>,
                steps |-> Lock(ValidatorIncentives, PayoutTokenLSK, Remainder(available))]
    BY DEF RemainderCall
  <2>3. getting' = getting \cup
          {[id |-> <<"share", v>>,
            steps |-> Transfer(ValidatorIncentives, v, PayoutTokenLSK, Share(v, available))]
             : v \in Validators} \cup
          {[id |-> <<"remainder", height>>,
            steps |-> Lock(ValidatorIncentives, PayoutTokenLSK, Remainder(available))]}
    BY <1>2 DEF PayOut, PayoutKey
  <2> HIDE DEF f
  <2>4. QED
    BY <2>1, <2>2, <2>3
<1>6. \A v \in Validators : owed'[v] = owed[v] + f[v]
  BY <1>2 DEF PayOut, PayoutKey, Shares
<1>7. /\ \A c \in getting : IsFeeCall(c)
      /\ \A w \in setting : IsFeeCall(w.call)
  BY <1>3 DEF PayoutInv, CallShapes
<1> HIDE DEF f, r, debits, lock, new
<1>8. \A c \in new : IsPayoutCall(c, f, height, r)
  BY DEF new, debits, lock, IsPayoutCall
<1>9. CallShapes(f, r)'
  BY <1>3, <1>5, <1>7, <1>8 DEF CallShapes
<1>10. Due(getting', f, height', r) = available
  <2>1. ToDebit(getting', f) = Validators
    BY <1>5 DEF new, debits, ToDebit
  <2>2. RemainderCall(height', r) \in getting'
    BY <1>3, <1>5 DEF new, lock
  <2>3. SumOver(f, Validators) \in Nat
    BY <1>4, IncentivesAssumption, SumNat
  <2>4. QED
    BY <1>4, <2>1, <2>2, <2>3 DEF Due
<1>11. DebitsCovered(f, r)'
  <2>1. ledger'[PayoutKey] = Unlocked(ledger[PayoutKey])
    BY <1>3, NamesAndKeys DEF TypeInv, TypeOK
  <2>2. ledger'[PayoutKey].available >= available
    BY <1>1, <1>2, <2>1 DEF Unlocked, Balances
  <2>3. \A w \in setting' : Head(w.call.steps).key # PayoutKey
    BY <1>3, <1>7, NamesAndKeys DEF IsFeeCall
  <2>4. QED
    BY <1>10, <2>2, <2>3 DEF DebitsCovered
<1>12. \A v \in Validators : \A c \in getting' : c.id = ShareId(v) => c = DebitCall(v, f)
  <2> SUFFICES ASSUME NEW v \in Validators, NEW c \in getting', c.id = ShareId(v)
               PROVE  c = DebitCall(v, f)
    OBVIOUS
  <2>1. c \notin getting
    BY <1>7, CallKinds
  <2>2. c # lock
    BY CallKinds DEF lock
  <2>3. PICK u \in Validators : c = DebitCall(u, f)
    BY <1>5, <2>1, <2>2 DEF new, debits
  <2>4. ShareId(u) = ShareId(v)
    BY <2>3, DebitCallFacts
  <2>5. QED
    BY <2>3, <2>4, NamesAndKeys
<1>13. \A v \in Validators : \A w \in setting' : w.call.id # ShareId(v)
  BY <1>3, <1>7, CallKinds
<1>14. OneCallPerShare'
  BY <1>12, <1>13 DEF OneCallPerShare
<1>15. ASSUME NEW v \in Validators
       PROVE  /\ owed'[v] = ledger'[ShareKey(v)].available + (IF UnderWay(v)' THEN f[v] ELSE 0)
              /\ \A w \in setting' : w.call # CreditCall(v, f)
  <2>1. ~UnderWay(v)
    BY <1>7, CallKinds DEF UnderWay
  <2>2. UnderWay(v)'
    <3>1. DebitCall(v, f) \in getting' /\ DebitCall(v, f).id = ShareId(v)
      BY <1>5, DebitCallFacts DEF new, debits
    <3>2. QED
      BY <3>1 DEF UnderWay
  <2>3. ledger'[ShareKey(v)] = ledger[ShareKey(v)]
    BY <1>3, NamesAndKeys DEF TypeInv, TypeOK
  <2>4. owed[v] = ledger[ShareKey(v)].available + 0 /\ ledger[ShareKey(v)].available \in Nat
    BY <2>1, NamesAndKeys DEF PayoutInv, OwedOrUnderWay, TypeInv, TypeOK
  <2>5. f[v] \in Nat
    BY <1>4
  <2>6. owed'[v] = ledger'[ShareKey(v)].available + f[v]
    BY <1>6, <2>3, <2>4, <2>5
  <2>7. \A w \in setting' : w.call # CreditCall(v, f)
    BY <1>3, <1>7, CallKinds
  <2>8. QED
    BY <2>2, <2>6, <2>7
<1>16. OwedOrUnderWay(f)'
  BY <1>15 DEF OwedOrUnderWay
<1>17. PayoutInv(f, r)'
  BY <1>9, <1>11, <1>14, <1>16 DEF PayoutInv
<1>18. QED
  BY <1>4, <1>17

\* The genesis block establishes the invariant of the payout.
LEMMA IInvInit == Init => IInv
<1> SUFFICES ASSUME Init PROVE IInv
  OBVIOUS
<1>1. [v \in Validators |-> 0] \in [Validators -> Nat] /\ 0 \in Nat
  OBVIOUS
<1>2. QED
  BY <1>1, TypeInit, PayoutInit DEF IInv

\* Every step preserves the invariant of the payout.
LEMMA IInvNext == IInv /\ [Next]_vars => IInv'
<1> SUFFICES ASSUME IInv, [Next]_vars PROVE IInv'
  OBVIOUS
<1>1. TypeInv /\ TypeInv'
  BY TypeNext DEF IInv
<1>2. PICK share \in [Validators -> Nat], rem \in Nat : PayoutInv(share, rem)
  BY DEF IInv
<1>3. ASSUME PayoutInv(share, rem)' PROVE IInv'
  BY <1>1, <1>3 DEF IInv
<1>4. CASE NextBlock
  BY <1>1, <1>2, <1>3, <1>4, PayoutNextBlock
<1>5. CASE MintLiquidityIncentives \/ NothingToPay
  BY <1>2, <1>3, <1>5, PayoutHooks
<1>6. CASE PayOut
  BY <1>1, <1>2, <1>6, PayoutPayOut DEF IInv
<1>7. ASSUME NEW fee \in Fees, TransferFeesFromPool(fee) PROVE IInv'
  BY <1>2, <1>3, <1>7, PayoutFees
<1>8. ASSUME NEW c \in getting, TokenGet(c) PROVE IInv'
  BY <1>1, <1>2, <1>3, <1>8, PayoutTokenGet
<1>9. ASSUME NEW w \in setting, TokenSet(w) PROVE IInv'
  BY <1>1, <1>2, <1>3, <1>9, PayoutTokenSet
<1>10. CASE BoundReached \/ UNCHANGED vars
  <2>1. UNCHANGED vars
    BY <1>10 DEF BoundReached
  <2>2. CallShapes(share, rem)' /\ DebitsCovered(share, rem)'
    BY <1>2, <2>1 DEF PayoutInv, CallShapes, DebitsCovered, vars
  <2>3. OneCallPerShare' /\ OwedOrUnderWay(share)'
    BY <1>2, <2>1 DEF PayoutInv, OneCallPerShare, OwedOrUnderWay, UnderWay, vars
  <2>4. QED
    BY <1>3, <2>2, <2>3 DEF PayoutInv
<1>11. QED
  BY <1>4, <1>5, <1>6, <1>7, <1>8, <1>9, <1>10 DEF Next

-----------------------------------------------------------------------------
(* Theorems *)

\* SharesCovered: for every set of validators, weights and amounts, no call of a
\* payout is refused, in whatever order the reads and writes interleave.
THEOREM SharesCoveredHolds == Spec => []SharesCovered
<1>1. IInv => SharesCovered
  <2> SUFFICES ASSUME IInv, NEW c \in getting, Head(c.steps).key[2] = PayoutTokenLSK
               PROVE  Covered(Head(c.steps))
    BY DEF SharesCovered
  <2>1. PICK share \in [Validators -> Nat], rem \in Nat : PayoutInv(share, rem)
    BY DEF IInv
  <2>2. ~IsFeeCall(c)
    BY NamesAndKeys DEF IsFeeCall
  <2>3. IsPayoutCall(c, share, height, rem)
    BY <2>1, <2>2 DEF PayoutInv, CallShapes
  <2>4. QED
    BY <2>1, <2>3, PayoutCallCovered DEF IInv
<1>2. QED
  BY <1>1, IInvInit, IInvNext, PTL DEF Spec

\* OwedIsPaid: for every set of validators, weights and amounts, each validator has
\* all its shares once the calls have settled.
THEOREM OwedIsPaidHolds == Spec => []OwedIsPaid
<1>1. IInv => OwedIsPaid
  <2> SUFFICES ASSUME IInv, getting \cup setting = {}, NEW v \in Validators
               PROVE  ledger[<<v, PayoutTokenLSK>>].available = owed[v]
    BY DEF OwedIsPaid
  <2>1. PICK share \in [Validators -> Nat], rem \in Nat : PayoutInv(share, rem)
    BY DEF IInv
  <2>2. ~UnderWay(v)
    BY DEF UnderWay
  <2>3. ledger[ShareKey(v)].available \in Nat
    BY NamesAndKeys DEF IInv, TypeInv, TypeOK
  <2>4. owed[v] = ledger[ShareKey(v)].available
    BY <2>1, <2>2, <2>3 DEF PayoutInv, OwedOrUnderWay
  <2>5. QED
    BY <2>4 DEF ShareKey
<1>2. QED
  BY <1>1, IInvInit, IInvNext, PTL DEF Spec
=============================================================================
