------------------------- MODULE DexPositionsProofs -------------------------
(***************************************************************************)
(* Invariants of the liquidity positions, for every table of increasing    *)
(* prices, every genesis block that passes verification and any number of  *)
(* positions.                                                              *)
(***************************************************************************)
EXTENDS DexPositions, LiquidityMathProofs

-----------------------------------------------------------------------------
(* Awaited calls of the token module *)

\* The ledgers after one more update of an account.
Updated(ledgers, step) ==
    {[l EXCEPT ![step.key] = Moved(@, step)] : l \in {l \in ledgers : Covers(l[step.key], step)}}

\* The fold of Performed over the updates with the numbers T.
LedgersAfter(base, steps, T) ==
    MapThenFoldSet(LAMBDA x, y : Updated(y, x), base, LAMBDA i : steps[i], LAMBDA S : Max(S), T)

\* Performing steps is performing them on the ledger.
LEMMA PerformedIsFold ==
    ASSUME NEW s, NEW steps
    PROVE  Performed(s, steps) =
             {[s EXCEPT !.ledger = l] : l \in LedgersAfter({s.ledger}, steps, DOMAIN steps)}
BY DEF Performed, FoldLeft, LedgersAfter, Updated

IsFold(iter, base, steps, T) ==
    iter = [s \in SUBSET T |-> IF s = {} THEN base
                               ELSE Updated(iter[s \ {Max(s)}], steps[Max(s)])]

Fold(base, steps, T) ==
    CHOOSE iter : iter = [s \in SUBSET T |-> IF s = {} THEN base
                               ELSE Updated(iter[s \ {Max(s)}], steps[Max(s)])]

\* The ledgers after a sequence of steps are given by a fold.
LEMMA LedgersAreFold ==
    ASSUME NEW base, NEW steps, NEW T
    PROVE  LedgersAfter(base, steps, T) = Fold(base, steps, T)[T]
BY DEF LedgersAfter, Fold, MapThenFoldSet

\* The function exists, is unique, and its values are the ledgers after the updates.
LEMMA FoldIsLedgers ==
    ASSUME NEW base, NEW steps, NEW S, IsFiniteSet(S),
           \A s \in SUBSET S : s # {} => Max(s) \in s
    PROVE  IsFold([s \in SUBSET S |-> LedgersAfter(base, steps, s)], base, steps, S)
<1> DEFINE ledgers(T) == [s \in SUBSET T |-> LedgersAfter(base, steps, s)]
           G == {T \in SUBSET S : /\ IsFold(ledgers(T), base, steps, T)
                                  /\ \A h : IsFold(h, base, steps, T) => h = ledgers(T)}
<1>1. ASSUME NEW T \in SUBSET S, \A U \in SUBSET T : U # T => U \in G
      PROVE  T \in G
  <2> DEFINE below == IF T = {} THEN base ELSE Updated(LedgersAfter(base, steps, T \ {Max(T)}), steps[Max(T)])
             g == [s \in SUBSET T |-> IF s = T THEN below ELSE LedgersAfter(base, steps, s)]
  <2>1. \A s \in SUBSET T : s # {} => Max(s) \in s
    OBVIOUS
  <2>2. \A s \in SUBSET T : s # T =>
           LedgersAfter(base, steps, s) = IF s = {} THEN base ELSE Updated(LedgersAfter(base, steps, s \ {Max(s)}), steps[Max(s)])
    <3> SUFFICES ASSUME NEW s \in SUBSET T, s # T
                 PROVE  LedgersAfter(base, steps, s) = IF s = {} THEN base
                                        ELSE Updated(LedgersAfter(base, steps, s \ {Max(s)}), steps[Max(s)])
      OBVIOUS
    <3>1. IsFold(ledgers(s), base, steps, s)
      BY <1>1
    <3>2. ledgers(s)[s] = IF s = {} THEN base ELSE Updated(ledgers(s)[s \ {Max(s)}], steps[Max(s)])
      BY <3>1 DEF IsFold
    <3>3. QED
      BY <3>2
  <2>3. IsFold(g, base, steps, T)
    <3>1. \A s \in SUBSET T : g[s] = IF s = {} THEN base ELSE Updated(g[s \ {Max(s)}], steps[Max(s)])
      <4> SUFFICES ASSUME NEW s \in SUBSET T
                   PROVE  g[s] = IF s = {} THEN base ELSE Updated(g[s \ {Max(s)}], steps[Max(s)])
        OBVIOUS
      <4>1. CASE s = {}
        BY <2>2, <4>1
      <4>2. CASE s # {}
        <5>1. Max(s) \in s /\ s \ {Max(s)} \in SUBSET T /\ s \ {Max(s)} # T
          BY <2>1, <4>2
        <5>2. g[s \ {Max(s)}] = LedgersAfter(base, steps, s \ {Max(s)})
          BY <5>1
        <5>3. QED
          BY <2>2, <4>2, <5>2
      <4>3. QED
        BY <4>1, <4>2
    <3>2. QED
      BY <3>1, Zenon DEF IsFold
  <2>4. ASSUME NEW h, IsFold(h, base, steps, T) PROVE h = g
    <3>0. /\ h = [s \in SUBSET T |-> h[s]]
          /\ \A s \in SUBSET T : h[s] = IF s = {} THEN base ELSE Updated(h[s \ {Max(s)}], steps[Max(s)])
      BY <2>4 DEF IsFold
    <3>1. \A s \in SUBSET T : s # T => h[s] = LedgersAfter(base, steps, s)
      <4> SUFFICES ASSUME NEW s \in SUBSET T, s # T
                   PROVE  h[s] = LedgersAfter(base, steps, s)
        OBVIOUS
      <4> DEFINE k == [u \in SUBSET s |-> h[u]]
      <4>1. IsFold(k, base, steps, s)
        <5>1. \A u \in SUBSET s : h[u] = IF u = {} THEN base ELSE Updated(k[u \ {Max(u)}], steps[Max(u)])
          BY <3>0
        <5>2. QED
          BY <5>1 DEF IsFold
      <4>2. k = ledgers(s)
        BY <1>1, <4>1
      <4>3. QED
        BY <4>2
    <3>2. h[T] = below
      <4>1. CASE T = {}
        BY <3>0, <4>1
      <4>2. CASE T # {}
        <5>1. T \ {Max(T)} \in SUBSET T /\ T \ {Max(T)} # T
          BY <2>1, <4>2
        <5>2. QED
          BY <3>0, <3>1, <4>2, <5>1
      <4>3. QED
        BY <4>1, <4>2
    <3>3. QED
      BY <3>0, <3>1, <3>2
  <2>5. Fold(base, steps, T) = g
    <3>1. \A h : h = [s \in SUBSET T |-> IF s = {} THEN base ELSE Updated(h[s \ {Max(s)}], steps[Max(s)])]
                   <=> h = g
      BY <2>3, <2>4, Zenon DEF IsFold
    <3>2. Fold(base, steps, T) = CHOOSE h : h = g
      BY <3>1, Zenon DEF Fold
    <3>3. QED
      BY <3>2, Zenon
  <2>6. LedgersAfter(base, steps, T) = below
    BY <2>5, LedgersAreFold
  <2>7. g = ledgers(T)
    BY <2>6
  <2>8. QED
    BY <2>3, <2>4, <2>7
<1>2. \A T \in SUBSET S : T \in G
  <2>1. \A T \in SUBSET S : (\A U \in SUBSET T : U # T => U \in G) => T \in G
    BY <1>1
  <2> HIDE DEF G
  <2>2. QED
    BY <2>1, SetOfAllSubsets
<1>3. QED
  BY <1>2


\* The updates are made in their order.
LEMMA LedgersStep ==
    ASSUME NEW base, NEW steps, NEW n \in Nat
    PROVE  /\ LedgersAfter(base, steps, {}) = base
           /\ n > 0 => LedgersAfter(base, steps, 1..n)
                         = Updated(LedgersAfter(base, steps, 1..(n - 1)), steps[n])
<1>1. IsFold([s \in SUBSET (1..n) |-> LedgersAfter(base, steps, s)], base, steps, 1..n)
  <2>1. IsFiniteSet(1..n)
    BY FS_Interval
  <2>2. \A s \in SUBSET (1..n) : s # {} => Max(s) \in s
    BY MaxOfSubset
  <2>3. QED
    BY <2>1, <2>2, FoldIsLedgers
<1>2. \A s \in SUBSET (1..n) :
        LedgersAfter(base, steps, s) =
          IF s = {} THEN base ELSE Updated(LedgersAfter(base, steps, s \ {Max(s)}), steps[Max(s)])
  <2>1. SUFFICES ASSUME NEW s \in SUBSET (1..n)
                 PROVE  LedgersAfter(base, steps, s) =
                          IF s = {} THEN base
                          ELSE Updated(LedgersAfter(base, steps, s \ {Max(s)}), steps[Max(s)])
    OBVIOUS
  <2> DEFINE ledgers == [t \in SUBSET (1..n) |-> LedgersAfter(base, steps, t)]
  <2>2. ledgers[s] = IF s = {} THEN base ELSE Updated(ledgers[s \ {Max(s)}], steps[Max(s)])
    <3>1. ledgers = [t \in SUBSET (1..n) |->
                       IF t = {} THEN base ELSE Updated(ledgers[t \ {Max(t)}], steps[Max(t)])]
      BY <1>1 DEF IsFold
    <3> HIDE DEF ledgers
    <3>2. QED
      BY <3>1
  <2>3. s \ {Max(s)} \in SUBSET (1..n)
    OBVIOUS
  <2>4. QED
    BY <2>2, <2>3
<1>3. ASSUME n > 0
      PROVE  LedgersAfter(base, steps, 1..n)
               = Updated(LedgersAfter(base, steps, 1..(n - 1)), steps[n])
  <2>1. /\ 1..n \in SUBSET (1..n) /\ 1..n \in SUBSET (0..n)
        /\ 1..n # {} /\ n \in 1..n
    BY <1>3
  <2>2. Max(1..n) \in 1..n /\ n <= Max(1..n)
    BY <2>1, MaxOfSubset
  <2>3. Max(1..n) = n
    BY <2>2
  <2>4. (1..n) \ {n} = 1..(n - 1)
    OBVIOUS
  <2>5. QED
    BY <1>2, <2>1, <2>3, <2>4
<1>4. QED
  BY <1>2, <1>3

LedgerType == [Addresses \X Tokens -> [available : Nat, locked : Nat]]
StepType == [key : Addresses \X Tokens, available : Int, locked : Int]

\* What an update adds to the balances of an account.
LockedBy(step, key) == IF step.key = key THEN step.locked ELSE 0
AvailableBy(step, key) == IF step.key = key THEN step.available ELSE 0

\* An update of a ledger is one of that ledger's accounts, and no balance gets
\* negative.
LEMMA UpdatedOnce ==
    ASSUME NEW ledgers \in SUBSET LedgerType, NEW step \in StepType, NEW l \in Updated(ledgers, step)
    PROVE  /\ l \in LedgerType
           /\ \E k \in ledgers :
                /\ \A key \in Addresses \X Tokens :
                     /\ l[key].locked = k[key].locked + LockedBy(step, key)
                     /\ l[key].available = k[key].available + AvailableBy(step, key)
                /\ step.available = 0 /\ step.locked = 0 => l = k
<1>1. PICK k \in ledgers : Covers(k[step.key], step)
                           /\ l = [k EXCEPT ![step.key] = Moved(k[step.key], step)]
  BY DEF Updated
<1>2. k \in LedgerType /\ step.key \in Addresses \X Tokens
  BY DEF StepType
<1>3. /\ step.available \in Int /\ step.locked \in Int
      /\ k[step.key] \in [available : Nat, locked : Nat]
  BY <1>2 DEF StepType, LedgerType
<1> DEFINE m == Moved(k[step.key], step)
<1>4. /\ m \in [available : Nat, locked : Nat]
      /\ m.locked = k[step.key].locked + step.locked
      /\ m.available = k[step.key].available + step.available
      /\ step.available = 0 /\ step.locked = 0 => m = k[step.key]
  BY <1>1, <1>3 DEF Covers, Moved
<1> HIDE DEF m
<1>5. l = [k EXCEPT ![step.key] = m]
  BY <1>1 DEF m
<1>6. l \in LedgerType
  BY <1>2, <1>4, <1>5 DEF LedgerType
<1>7. ASSUME NEW key \in Addresses \X Tokens
      PROVE  /\ l[key].locked = k[key].locked + LockedBy(step, key)
             /\ l[key].available = k[key].available + AvailableBy(step, key)
  <2>1. k[key].locked \in Nat /\ k[key].available \in Nat
    BY <1>2 DEF LedgerType
  <2>2. CASE key = step.key
    BY <1>2, <1>4, <1>5, <2>2 DEF LockedBy, AvailableBy, LedgerType
  <2>3. CASE key # step.key
    BY <1>2, <1>5, <2>1, <2>3 DEF LockedBy, AvailableBy, LedgerType
  <2>4. QED
    BY <2>2, <2>3
<1>8. step.available = 0 /\ step.locked = 0 => l = k
  BY <1>2, <1>4, <1>5 DEF LedgerType
<1>9. QED
  BY <1>6, <1>7, <1>8

\* A command makes up to six updates; the locked balances change by what each
\* adds.
LEMMA PerformedSix ==
    ASSUME NEW s, s.ledger \in LedgerType, NEW steps, DOMAIN steps = 1..6,
           \A i \in 1..6 : steps[i] \in StepType, NEW t \in Performed(s, steps)
    PROVE  \E l \in LedgerType :
             /\ t = [s EXCEPT !.ledger = l]
             /\ \A key \in Addresses \X Tokens :
                  l[key].locked = s.ledger[key].locked
                    + LockedBy(steps[1], key) + LockedBy(steps[2], key) + LockedBy(steps[3], key)
                    + LockedBy(steps[4], key) + LockedBy(steps[5], key) + LockedBy(steps[6], key)
             /\ \A key \in Addresses \X Tokens :
                  l[key].available = s.ledger[key].available
                    + AvailableBy(steps[1], key) + AvailableBy(steps[2], key) + AvailableBy(steps[3], key)
                    + AvailableBy(steps[4], key) + AvailableBy(steps[5], key) + AvailableBy(steps[6], key)
             /\ (\A i \in 1..6 : steps[i].available = 0 /\ steps[i].locked = 0) => l = s.ledger
<1> DEFINE after(n) == LedgersAfter({s.ledger}, steps, 1..n)
<1>1. \A n \in Nat : n > 0 => after(n) = Updated(after(n - 1), steps[n])
  BY LedgersStep
<1>2. after(0) = {s.ledger}
  <2>1. 1..0 = {}
    OBVIOUS
  <2>2. LedgersAfter({s.ledger}, steps, {}) = {s.ledger}
    BY LedgersStep
  <2>3. QED
    BY <2>1, <2>2
<1>3. PICK l \in after(6) : t = [s EXCEPT !.ledger = l]
  BY PerformedIsFold
<1> HIDE DEF after
<1>4. /\ after(1) = Updated(after(0), steps[1]) /\ after(2) = Updated(after(1), steps[2])
      /\ after(3) = Updated(after(2), steps[3]) /\ after(4) = Updated(after(3), steps[4])
      /\ after(5) = Updated(after(4), steps[5]) /\ after(6) = Updated(after(5), steps[6])
  BY <1>1
<1>5. ASSUME NEW ledgers \in SUBSET LedgerType, NEW step \in StepType
      PROVE  Updated(ledgers, step) \in SUBSET LedgerType
  BY UpdatedOnce
<1>6. /\ after(0) \in SUBSET LedgerType /\ after(1) \in SUBSET LedgerType
      /\ after(2) \in SUBSET LedgerType /\ after(3) \in SUBSET LedgerType
      /\ after(4) \in SUBSET LedgerType /\ after(5) \in SUBSET LedgerType
      /\ after(6) \in SUBSET LedgerType
  BY <1>2, <1>4, <1>5
<1> DEFINE Follows(new, old, step) ==
             /\ \A key \in Addresses \X Tokens :
                  /\ new[key].locked = old[key].locked + LockedBy(step, key)
                  /\ new[key].available = old[key].available + AvailableBy(step, key)
             /\ step.available = 0 /\ step.locked = 0 => new = old
<1>7. ASSUME NEW ledgers \in SUBSET LedgerType, NEW step \in StepType, NEW new \in Updated(ledgers, step)
      PROVE  \E old \in ledgers : Follows(new, old, step)
  BY UpdatedOnce
<1> HIDE DEF Follows
<1>8. PICK l5 \in after(5) : Follows(l, l5, steps[6])
  BY <1>3, <1>4, <1>6, <1>7
<1>9. PICK l4 \in after(4) : Follows(l5, l4, steps[5])
  BY <1>4, <1>6, <1>7, <1>8
<1>10. PICK l3 \in after(3) : Follows(l4, l3, steps[4])
  BY <1>4, <1>6, <1>7, <1>9
<1>11. PICK l2 \in after(2) : Follows(l3, l2, steps[3])
  BY <1>4, <1>6, <1>7, <1>10
<1>12. PICK l1 \in after(1) : Follows(l2, l1, steps[2])
  BY <1>4, <1>6, <1>7, <1>11
<1>13. Follows(l1, s.ledger, steps[1])
  BY <1>2, <1>4, <1>6, <1>7, <1>12
<1>14. ASSUME NEW key \in Addresses \X Tokens
       PROVE  l[key].locked = s.ledger[key].locked
                + LockedBy(steps[1], key) + LockedBy(steps[2], key) + LockedBy(steps[3], key)
                + LockedBy(steps[4], key) + LockedBy(steps[5], key) + LockedBy(steps[6], key)
  BY <1>8, <1>9, <1>10, <1>11, <1>12, <1>13 DEF Follows
<1>17. ASSUME NEW key \in Addresses \X Tokens
       PROVE  l[key].available = s.ledger[key].available
                + AvailableBy(steps[1], key) + AvailableBy(steps[2], key) + AvailableBy(steps[3], key)
                + AvailableBy(steps[4], key) + AvailableBy(steps[5], key) + AvailableBy(steps[6], key)
  BY <1>8, <1>9, <1>10, <1>11, <1>12, <1>13 DEF Follows
<1>15. (\A i \in 1..6 : steps[i].available = 0 /\ steps[i].locked = 0) => l = s.ledger
  BY <1>8, <1>9, <1>10, <1>11, <1>12, <1>13 DEF Follows
<1>16. QED
  BY <1>3, <1>6, <1>14, <1>15, <1>17

-----------------------------------------------------------------------------
(* The stores *)

IsState(s) ==
    s = [pools |-> s.pools, ticks |-> s.ticks, positions |-> s.positions,
         positionCounter |-> s.positionCounter, ledger |-> s.ledger]

\* What holds of a pool before its encoding has been checked.
PoolShape ==
    [liquidity : Int, sqrtPrice : Int, feeGrowthGlobal : [Sides -> 0..(One * One - 1)],
     tickSpacing : Nat]

\* A tick under its index is as it was initialized: an update writes it under
\* its price.
TicksFresh(s) ==
    \A key \in DOMAIN s.ticks : \E p \in DOMAIN s.pools, tick \in Ticks :
        \/ key = TickKey(p, tick) /\ s.ticks[key] = EmptyTick(s.pools[p], tick)
        \/ key = PriceKey(p, tick) /\ s.ticks[key] \in TickType

PositionOK(s, id) ==
    /\ id = <<PoolIDOf(id), s.positionCounter>>
    /\ PoolIDOf(id) \in DOMAIN s.pools
    /\ s.positions[id] \in PositionType(Accounts)
    /\ s.positions[id].tickLower < s.positions[id].tickUpper
    /\ TickKey(PoolIDOf(id), s.positions[id].tickLower) \in DOMAIN s.ticks
    /\ TickKey(PoolIDOf(id), s.positions[id].tickUpper) \in DOMAIN s.ticks

StoresOK(s) ==
    /\ IsState(s)
    /\ DOMAIN s.pools \subseteq Pools
    /\ s.pools \in [DOMAIN s.pools -> PoolShape]
    /\ TicksFresh(s)
    /\ \A id \in DOMAIN s.positions : PositionOK(s, id)
    /\ s.ledger \in LedgerType

EmptyPosition(sender, lower, upper) ==
    [tickLower |-> lower, tickUpper |-> upper, liquidity |-> 0,
     feeGrowthInsideLast |-> [side \in Sides |-> 0], ownerAddress |-> sender]

\* Keys of different kinds differ.
LEMMA Keys ==
    ASSUME NEW p, NEW q, NEW tick, NEW other
    PROVE  /\ TickKey(p, tick) # PriceKey(q, other)
           /\ TickKey(p, tick) = TickKey(q, other) => p = q /\ tick = other
           /\ TickKey(p, tick)[1] = p
BY DEF TickKey, PriceKey

\* The stores with the ticks and an empty position.
LEMMA FreshPosition ==
    ASSUME NEW s, StoresOK(s), NEW sender \in Accounts, NEW p \in DOMAIN s.pools,
           NEW lower \in Ticks, NEW upper \in Ticks, lower < upper,
           NEW w, w = WithPosition(s, sender, p, lower, upper)
    PROVE  /\ IsState(w) /\ w.pools = s.pools /\ w.positionCounter = s.positionCounter
           /\ w.ledger = s.ledger
           /\ w.positions = Put(NewPositionID(s, p), EmptyPosition(sender, lower, upper), s.positions)
           /\ TicksFresh(w)
           /\ DOMAIN s.ticks \subseteq DOMAIN w.ticks
           /\ TickKey(p, lower) \in DOMAIN w.ticks /\ TickKey(p, upper) \in DOMAIN w.ticks
<1> DEFINE initialized(tick, ticks) ==
             IF TickKey(p, tick) \in DOMAIN ticks THEN ticks
             ELSE Put(TickKey(p, tick), EmptyTick(s.pools[p], tick), ticks)
           once == initialized(lower, s.ticks)
           twice == initialized(upper, once)
<1>1. s = [pools |-> s.pools, ticks |-> s.ticks, positions |-> s.positions,
           positionCounter |-> s.positionCounter, ledger |-> s.ledger]
  BY DEF StoresOK, IsState
<1>2. w = [s EXCEPT !.ticks = twice,
                    !.positions = Put(NewPositionID(s, p), EmptyPosition(sender, lower, upper), s.positions)]
  BY DEF WithPosition, EmptyPosition
<1>3. /\ w.pools = s.pools /\ w.positionCounter = s.positionCounter /\ w.ledger = s.ledger
      /\ w.positions = Put(NewPositionID(s, p), EmptyPosition(sender, lower, upper), s.positions)
      /\ w.ticks = twice
      /\ IsState(w)
  <2> HIDE DEF twice
  <2>1. QED
    BY <1>1, <1>2 DEF IsState
<1> DEFINE Fresh(ticks) == \A key \in DOMAIN ticks : \E q \in DOMAIN s.pools, tick \in Ticks :
              \/ key = TickKey(q, tick) /\ ticks[key] = EmptyTick(s.pools[q], tick)
              \/ key = PriceKey(q, tick) /\ ticks[key] \in TickType
<1>4. ASSUME NEW ticks, Fresh(ticks), NEW tick \in Ticks
      PROVE  /\ Fresh(initialized(tick, ticks))
             /\ DOMAIN ticks \subseteq DOMAIN initialized(tick, ticks)
             /\ TickKey(p, tick) \in DOMAIN initialized(tick, ticks)
  <2> DEFINE put == Put(TickKey(p, tick), EmptyTick(s.pools[p], tick), ticks)
  <2>1. /\ DOMAIN put = DOMAIN ticks \cup {TickKey(p, tick)}
        /\ \A key \in DOMAIN put : put[key] = IF key = TickKey(p, tick)
                                              THEN EmptyTick(s.pools[p], tick) ELSE ticks[key]
    BY DEF Put
  <2>2. Fresh(put)
    <3>1. ASSUME NEW key \in DOMAIN put
          PROVE  \E q \in DOMAIN s.pools, t \in Ticks :
                   \/ key = TickKey(q, t) /\ put[key] = EmptyTick(s.pools[q], t)
                   \/ key = PriceKey(q, t) /\ put[key] \in TickType
      <4> HIDE DEF put
      <4>1. CASE key = TickKey(p, tick)
        BY <2>1, <4>1
      <4>2. CASE key # TickKey(p, tick)
        <5>1. key \in DOMAIN ticks /\ put[key] = ticks[key]
          BY <2>1, <4>2
        <5>2. QED
          BY <1>4, <5>1
      <4>3. QED
        BY <4>1, <4>2
    <3>2. QED
      BY <3>1
  <2>3. QED
    <3> HIDE DEF put, Fresh
    <3>1. CASE TickKey(p, tick) \in DOMAIN ticks
      BY <1>4, <3>1
    <3>2. CASE TickKey(p, tick) \notin DOMAIN ticks
      <4>1. initialized(tick, ticks) = put
        BY <3>2 DEF put
      <4> HIDE DEF initialized
      <4>2. QED
        BY <2>1, <2>2, <4>1
    <3>3. QED
      BY <3>1, <3>2
<1>5. Fresh(s.ticks)
  BY DEF StoresOK, TicksFresh
<1> HIDE DEF Fresh, initialized
<1>6. Fresh(once) /\ DOMAIN s.ticks \subseteq DOMAIN once /\ TickKey(p, lower) \in DOMAIN once
  BY <1>4, <1>5
<1>7. Fresh(twice) /\ DOMAIN once \subseteq DOMAIN twice /\ TickKey(p, upper) \in DOMAIN twice
  <2> HIDE DEF once
  <2>1. QED
    BY <1>4, <1>6
<1> HIDE DEF once, twice
<1>8. TicksFresh(w)
  BY <1>3, <1>7 DEF TicksFresh, Fresh
<1>9. QED
  BY <1>3, <1>6, <1>7, <1>8

\* Prices have a positive range.
LEMMA OneSquare == One * One - 1 \in Nat
<1>1. One \in Nat /\ One >= 1
  BY OneAssumption
<1>2. One * One >= 1 /\ One * One \in Nat
  BY <1>1
<1>3. QED
  BY <1>2

\* A liquidity of 0 can be encoded.
LEMMA LiquidityBounds ==
    /\ LiquidityLimit - 1 \in Nat
    /\ 0 \in (-(LiquidityLimit \div 2))..(LiquidityLimit \div 2 - 1)
<1>1. LiquidityLimit \in Nat /\ LiquidityLimit >= 2
  BY StoresAssumption
<1>2. QED
  BY <1>1

\* The stores with a position that was just created are in order.
LEMMA FreshStoresOK ==
    ASSUME NEW s, StoresOK(s), NEW sender \in Accounts, NEW p \in DOMAIN s.pools,
           NEW lower \in Ticks, NEW upper \in Ticks, lower < upper,
           NEW w, w = WithPosition(s, sender, p, lower, upper)
    PROVE  StoresOK(w)
<1>1. /\ IsState(w) /\ w.pools = s.pools /\ w.positionCounter = s.positionCounter
      /\ w.ledger = s.ledger
      /\ w.positions = Put(NewPositionID(s, p), EmptyPosition(sender, lower, upper), s.positions)
      /\ TicksFresh(w)
      /\ DOMAIN s.ticks \subseteq DOMAIN w.ticks
      /\ TickKey(p, lower) \in DOMAIN w.ticks /\ TickKey(p, upper) \in DOMAIN w.ticks
  BY FreshPosition
<1> DEFINE new == NewPositionID(s, p)
<1>2. /\ DOMAIN w.positions = DOMAIN s.positions \cup {new}
      /\ \A id \in DOMAIN w.positions :
           w.positions[id] = IF id = new THEN EmptyPosition(sender, lower, upper) ELSE s.positions[id]
  BY <1>1 DEF Put
<1>3. PoolIDOf(new) = p /\ new = <<p, s.positionCounter>>
  BY DEF NewPositionID, PoolIDOf
<1>4. EmptyPosition(sender, lower, upper) \in PositionType(Accounts)
  <2>1. 0 \in 0..(LiquidityLimit - 1) /\ 0 \in 0..(One * One - 1)
    BY LiquidityBounds, OneSquare
  <2>2. [side \in Sides |-> 0] \in [Sides -> 0..(One * One - 1)]
    BY <2>1
  <2>3. QED
    BY <2>1, <2>2 DEF EmptyPosition, PositionType
<1>5. /\ EmptyPosition(sender, lower, upper).tickLower = lower
      /\ EmptyPosition(sender, lower, upper).tickUpper = upper
  BY DEF EmptyPosition
<1> HIDE DEF new
<1>6. ASSUME NEW id \in DOMAIN w.positions PROVE PositionOK(w, id)
  <2>1. CASE id = new
    BY <1>1, <1>2, <1>3, <1>4, <1>5, <2>1 DEF PositionOK
  <2>2. CASE id # new
    <3>1. id \in DOMAIN s.positions /\ w.positions[id] = s.positions[id]
      BY <1>2, <2>2
    <3>2. PositionOK(s, id)
      BY <3>1 DEF StoresOK
    <3>3. QED
      BY <1>1, <3>1, <3>2 DEF PositionOK
  <2>3. QED
    BY <2>1, <2>2
<1>7. QED
  BY <1>1, <1>6 DEF StoresOK

\* What a tick says of the fees outside it.
LEMMA FreshTick ==
    ASSUME NEW s, StoresOK(s), NEW p \in DOMAIN s.pools, NEW tick,
           TickKey(p, tick) \in DOMAIN s.ticks
    PROVE  s.ticks[TickKey(p, tick)] = EmptyTick(s.pools[p], tick)
BY Keys DEF StoresOK, TicksFresh

\* A tick is initialized with all of the fee growth outside, or none.
LEMMA EmptyTickType ==
    ASSUME NEW pool \in PoolShape, NEW tick
    PROVE  /\ EmptyTick(pool, tick) \in TickType
           /\ \A side \in Sides :
                EmptyTick(pool, tick).feeGrowthOutside[side] \in {0, pool.feeGrowthGlobal[side]}
<1>1. 0 \in 0..(LiquidityLimit - 1) /\ 0 \in 0..(One * One - 1)
      /\ 0 \in (-(LiquidityLimit \div 2))..(LiquidityLimit \div 2 - 1)
  BY LiquidityBounds, OneSquare
<1> DEFINE outside == IF Reached(pool.sqrtPrice, tick) THEN pool.feeGrowthGlobal
                      ELSE [side \in Sides |-> 0]
<1>2. outside \in [Sides -> 0..(One * One - 1)]
      /\ \A side \in Sides : outside[side] \in {0, pool.feeGrowthGlobal[side]}
  BY <1>1 DEF PoolShape
<1> HIDE DEF outside
<1>3. EmptyTick(pool, tick) = [liquidityNet |-> 0, liquidityGross |-> 0, feeGrowthOutside |-> outside]
  BY DEF EmptyTick, outside
<1>4. QED
  BY <1>1, <1>2, <1>3 DEF TickType

\* The fees inside a range are at most all fees.
LEMMA InsideBounded ==
    ASSUME NEW s, StoresOK(s), NEW id \in DOMAIN s.positions
    PROVE  \A side \in Sides : /\ FeeGrowthInside(s, id)[side] \in Int
                               /\ FeeGrowthInside(s, id)[side] <= One * One - 1
<1> SUFFICES ASSUME NEW side \in Sides
             PROVE  /\ FeeGrowthInside(s, id)[side] \in Int
                    /\ FeeGrowthInside(s, id)[side] <= One * One - 1
  OBVIOUS
<1> DEFINE p == PoolIDOf(id)
           position == s.positions[id]
           global == s.pools[p].feeGrowthGlobal[side]
           lower == s.ticks[TickKey(p, position.tickLower)].feeGrowthOutside[side]
           upper == s.ticks[TickKey(p, position.tickUpper)].feeGrowthOutside[side]
           below == IF PriceToTick(s.pools[p].sqrtPrice) >= position.tickLower THEN lower ELSE global - lower
           above == IF PriceToTick(s.pools[p].sqrtPrice) < position.tickUpper THEN upper ELSE global - upper
<1>1. PositionOK(s, id)
  BY DEF StoresOK
<1>2. p \in DOMAIN s.pools /\ s.pools[p] \in PoolShape
  BY <1>1 DEF PositionOK, StoresOK
<1>3. global \in 0..(One * One - 1)
  BY <1>2 DEF PoolShape
<1>4. lower \in {0, global} /\ upper \in {0, global}
  BY <1>1, <1>2, FreshTick, EmptyTickType DEF PositionOK
<1>5. FeeGrowthInside(s, id)[side] = global - below - above
  BY DEF FeeGrowthInside
<1> HIDE DEF p, position, global, lower, upper
<1>6. below \in 0..global /\ above \in 0..global
  BY <1>3, <1>4, OneSquare
<1> HIDE DEF below, above
<1>7. QED
  BY <1>3, <1>5, <1>6, OneSquare

-----------------------------------------------------------------------------
(* updatePosition of a position that was just created *)

\* The tokens of a pool are keys of the ledger for every address.
LEMMA TokensOf ==
    ASSUME NEW p \in Pools, NEW side \in Sides, NEW a \in Addresses
    PROVE  <<p, TokenOf(p, side)>> \in Addresses \X Tokens
           /\ <<a, TokenOf(p, side)>> \in Addresses \X Tokens
<1>1. TokenOf(p, side) \in Tokens
  BY PositionsAssumption DEF TokenOf
<1>2. p \in Addresses
  BY DEF Addresses
<1>3. QED
  BY <1>1, <1>2

\* A position without liquidity has no fees to collect: its balances stay.
LEMMA NothingCollected ==
    ASSUME NEW s, StoresOK(s), NEW id \in DOMAIN s.positions, s.positions[id].liquidity = 0,
           NEW t \in CollectFeesAndIncentives(s, id)
    PROVE  /\ t = [s EXCEPT !.positions[id].feeGrowthInsideLast = FeeGrowthInside(s, id)]
           /\ \A side \in Sides :
                FeeGrowthInside(s, id)[side] >= s.positions[id].feeGrowthInsideLast[side]
<1> DEFINE p == PoolIDOf(id)
           position == s.positions[id]
           owner == position.ownerAddress
           fees == CollectableFees(s, id)
           t0 == TokenOf(p, 0)
           t1 == TokenOf(p, 1)
           steps == TransferFromPool(p, owner, t0, fees[0]) \o TransferFromPool(p, owner, t1, fees[1])
<1>1. PositionOK(s, id)
  BY DEF StoresOK
<1>2. p \in Pools /\ owner \in Addresses
  BY <1>1 DEF PositionOK, StoresOK, PositionType, Addresses
<1>3. \A side \in Sides : fees[side] = 0
  <2>1. SUFFICES ASSUME NEW side \in Sides PROVE fees[side] = 0
    OBVIOUS
  <2> DEFINE growth == FeeGrowthInside(s, id)[side] - position.feeGrowthInsideLast[side]
  <2>2. fees[side] = RoundDownQ96(MulQ96(growth, 0))
    BY DEF CollectableFees
  <2>3. growth \in Int
    <3>1. position.feeGrowthInsideLast \in [Sides -> 0..(One * One - 1)]
      BY <1>1 DEF PositionOK, PositionType
    <3>2. position.feeGrowthInsideLast[side] \in Int
      BY <3>1, OneSquare
    <3>3. FeeGrowthInside(s, id)[side] \in Int
      BY InsideBounded
    <3>4. QED
      BY <3>2, <3>3
  <2> HIDE DEF growth
  <2>4. growth * 0 = 0
    BY <2>3
  <2>5. 0 \div One = 0
    BY OneAssumption
  <2>6. QED
    BY <2>2, <2>4, <2>5 DEF RoundDownQ96, MulQ96
<1>4. PICK u \in Performed(s, steps) :
        /\ t = [u EXCEPT !.positions[id].feeGrowthInsideLast = FeeGrowthInside(s, id)]
        /\ \A side \in Sides : FeeGrowthInside(s, id)[side] >= position.feeGrowthInsideLast[side]
  BY DEF CollectFeesAndIncentives
<1>5. /\ DOMAIN steps = 1..6
      /\ \A i \in 1..6 : steps[i] \in StepType /\ steps[i].available = 0 /\ steps[i].locked = 0
  <2>1. /\ <<p, t0>> \in Addresses \X Tokens /\ <<p, t1>> \in Addresses \X Tokens
        /\ <<owner, t0>> \in Addresses \X Tokens /\ <<owner, t1>> \in Addresses \X Tokens
    BY <1>2, TokensOf DEF Sides
  <2>2. fees[0] = 0 /\ fees[1] = 0
    BY <1>3 DEF Sides
  <2> HIDE DEF p, t0, t1, owner, fees
  <2> DEFINE none(key) == [key |-> key, available |-> 0, locked |-> 0]
  <2>3. steps = <<none(<<p, t0>>), none(<<p, t0>>), none(<<owner, t0>>),
                  none(<<p, t1>>), none(<<p, t1>>), none(<<owner, t1>>)>>
    <3>1. /\ -fees[0] = 0 /\ -(-fees[0]) = 0
          /\ -fees[1] = 0 /\ -(-fees[1]) = 0
      <4>1. /\ fees[0] \in Int /\ 0 <= fees[0] /\ fees[0] <= 0
            /\ fees[1] \in Int /\ 0 <= fees[1] /\ fees[1] <= 0
        BY <2>2
      <4>2. QED
        BY <4>1, Negated
    <3>2. QED
      BY <2>2, <3>1 DEF TransferFromPool, Unlock, Lock, Locking, Transfer, Debit, Credit
  <2>4. \A key \in Addresses \X Tokens : none(key) \in StepType
    BY DEF StepType
  <2>5. \A key : none(key).available = 0 /\ none(key).locked = 0
    OBVIOUS
  <2> HIDE DEF steps, none
  <2>6. DOMAIN steps = 1..6
    BY <2>3
  <2>7. ASSUME NEW i \in 1..6 PROVE \E key \in Addresses \X Tokens : steps[i] = none(key)
    <3>1. i \in {1, 2, 3, 4, 5, 6}
      OBVIOUS
    <3>2. QED
      BY <2>1, <2>3, <3>1
  <2>8. QED
    BY <2>4, <2>5, <2>6, <2>7
<1>6. s.ledger \in LedgerType
  BY DEF StoresOK
<1> HIDE DEF steps, fees, p, owner, t0, t1
<1>7. u = [s EXCEPT !.ledger = s.ledger]
  BY <1>4, <1>5, <1>6, PerformedSix
<1>8. u = s
  <2>1. s = [pools |-> s.pools, ticks |-> s.ticks, positions |-> s.positions,
             positionCounter |-> s.positionCounter, ledger |-> s.ledger]
    BY DEF StoresOK, IsState
  <2>2. QED
    BY <1>7, <2>1
<1>9. QED
  BY <1>4, <1>8

\* The concatenations of short tuples.
LEMMA Concat21 ==
    ASSUME NEW S, NEW x \in S, NEW y \in S, NEW z \in S
    PROVE  <<x, y>> \o <<z>> = <<x, y, z>>
<1> DEFINE c == <<x, y>> \o <<z>>
<1>1. c \in Seq(S) /\ Len(c) = 3
  OBVIOUS
<1>2. c[1] = x /\ c[2] = y /\ c[3] = z
  OBVIOUS
<1> HIDE DEF c
<1>3. c = [i \in 1..3 |-> c[i]]
  BY <1>1
<1>4. c = <<x, y, z>>
  BY <1>2, <1>3
<1>5. QED
  BY <1>4, Zenon DEF c

\* The concatenation of two triples.
LEMMA Concat33 ==
    ASSUME NEW S, NEW x1 \in S, NEW x2 \in S, NEW x3 \in S,
           NEW y1 \in S, NEW y2 \in S, NEW y3 \in S
    PROVE  <<x1, x2, x3>> \o <<y1, y2, y3>> = <<x1, x2, x3, y1, y2, y3>>
<1> DEFINE c == <<x1, x2, x3>> \o <<y1, y2, y3>>
<1>1. c \in Seq(S) /\ Len(c) = 6
  OBVIOUS
<1>2. c[1] = x1 /\ c[2] = x2 /\ c[3] = x3 /\ c[4] = y1 /\ c[5] = y2 /\ c[6] = y3
  OBVIOUS
<1> HIDE DEF c
<1>3. c = [i \in 1..6 |-> c[i]]
  BY <1>1
<1>4. c = <<x1, x2, x3, y1, y2, y3>>
  BY <1>2, <1>3
<1>5. QED
  BY <1>4, Zenon DEF c

\* What the transfers of a deposit add to the locked balances.
DepositedTo(p, amount0, amount1, key) ==
    (IF key = <<p, TokenOf(p, 0)>> THEN amount0 ELSE 0)
    + (IF key = <<p, TokenOf(p, 1)>> THEN amount1 ELSE 0)

\* Paying two tokens into a pool adds to what it has locked, twice if the
\* tokens are the same, and takes from the owner's available balances only.
LEMMA Deposited ==
    ASSUME NEW s, s.ledger \in LedgerType, NEW p \in Pools, NEW owner \in Accounts,
           NEW a0 \in Nat, NEW a1 \in Nat,
           NEW t \in Performed(s, TransferToPool(owner, p, TokenOf(p, 0), a0)
                                  \o TransferToPool(owner, p, TokenOf(p, 1), a1))
    PROVE  \E l \in LedgerType :
             /\ t = [s EXCEPT !.ledger = l]
             /\ \A key \in Addresses \X Tokens :
                  l[key].locked = s.ledger[key].locked + DepositedTo(p, a0, a1, key)
             /\ \A key \in Addresses \X Tokens :
                  key[1] # owner => l[key].available = s.ledger[key].available
<1> DEFINE k0 == <<p, TokenOf(p, 0)>>
           k1 == <<p, TokenOf(p, 1)>>
           o0 == <<owner, TokenOf(p, 0)>>
           o1 == <<owner, TokenOf(p, 1)>>
           steps == TransferToPool(owner, p, TokenOf(p, 0), a0)
                    \o TransferToPool(owner, p, TokenOf(p, 1), a1)
           step(key, available, locked) == [key |-> key, available |-> available, locked |-> locked]
<1>1. /\ k0 \in Addresses \X Tokens /\ k1 \in Addresses \X Tokens
      /\ o0 \in Addresses \X Tokens /\ o1 \in Addresses \X Tokens
  BY TokensOf DEF Sides, Addresses
<1>2. steps = <<step(o0, -a0, 0), step(k0, a0, 0), step(k0, -a0, a0),
                step(o1, -a1, 0), step(k1, a1, 0), step(k1, -a1, a1)>>
  <2>1. ASSUME NEW token, NEW amount
        PROVE  TransferToPool(owner, p, token, amount)
                 = <<step(<<owner, token>>, -amount, 0), step(<<p, token>>, amount, 0),
                     step(<<p, token>>, -amount, amount)>>
    <3> DEFINE S == {step(<<owner, token>>, -amount, 0), step(<<p, token>>, amount, 0),
                     step(<<p, token>>, -amount, amount)}
    <3>1. TransferToPool(owner, p, token, amount)
            = <<step(<<owner, token>>, -amount, 0), step(<<p, token>>, amount, 0)>>
              \o <<step(<<p, token>>, -amount, amount)>>
      BY Zenon DEF TransferToPool, Transfer, Lock, Debit, Credit, Locking
    <3>2. /\ step(<<owner, token>>, -amount, 0) \in S /\ step(<<p, token>>, amount, 0) \in S
          /\ step(<<p, token>>, -amount, amount) \in S
      OBVIOUS
    <3> HIDE DEF step, S
    <3>3. QED
      BY <3>1, <3>2, Concat21
  <2>2. \A x1, x2, x3, y1, y2, y3 :
          <<x1, x2, x3>> \o <<y1, y2, y3>> = <<x1, x2, x3, y1, y2, y3>>
    <3> TAKE x1, x2, x3, y1, y2, y3
    <3> DEFINE S == {x1, x2, x3, y1, y2, y3}
    <3>1. x1 \in S /\ x2 \in S /\ x3 \in S /\ y1 \in S /\ y2 \in S /\ y3 \in S
      OBVIOUS
    <3> HIDE DEF S
    <3>2. QED
      BY <3>1, Concat33
  <2> HIDE DEF step
  <2>3. /\ TransferToPool(owner, p, TokenOf(p, 0), a0) = <<step(o0, -a0, 0), step(k0, a0, 0), step(k0, -a0, a0)>>
        /\ TransferToPool(owner, p, TokenOf(p, 1), a1) = <<step(o1, -a1, 0), step(k1, a1, 0), step(k1, -a1, a1)>>
    BY <2>1, Zenon
  <2> HIDE DEF k0, k1, o0, o1
  <2> DEFINE x1 == step(o0, -a0, 0)
             x2 == step(k0, a0, 0)
             x3 == step(k0, -a0, a0)
             y1 == step(o1, -a1, 0)
             y2 == step(k1, a1, 0)
             y3 == step(k1, -a1, a1)
  <2>4. steps = <<x1, x2, x3>> \o <<y1, y2, y3>>
    BY <2>3, Zenon
  <2> HIDE DEF x1, x2, x3, y1, y2, y3, steps
  <2>5. steps = <<x1, x2, x3, y1, y2, y3>>
    BY <2>2, <2>4
  <2>6. QED
    BY <2>5, Zenon DEF x1, x2, x3, y1, y2, y3
<1>3. \A key \in Addresses \X Tokens, available, locked \in Int :
        /\ step(key, available, locked) \in StepType
        /\ step(key, available, locked).locked = locked
        /\ step(key, available, locked).key = key
  BY DEF StepType
<1>13. \A key, available, locked : step(key, available, locked).available = available
  OBVIOUS
<1>4. -a0 \in Int /\ -a1 \in Int /\ a0 \in Int /\ a1 \in Int
  OBVIOUS
<1>5. t \in Performed(s, steps)
  OBVIOUS
<1> HIDE DEF steps, step
<1>6. /\ DOMAIN steps = 1..6
      /\ steps[1] = step(o0, -a0, 0) /\ steps[2] = step(k0, a0, 0) /\ steps[3] = step(k0, -a0, a0)
      /\ steps[4] = step(o1, -a1, 0) /\ steps[5] = step(k1, a1, 0) /\ steps[6] = step(k1, -a1, a1)
  BY <1>2
<1> HIDE DEF k0, k1, o0, o1
<1>7. /\ steps[1] \in StepType /\ steps[2] \in StepType /\ steps[3] \in StepType
      /\ steps[4] \in StepType /\ steps[5] \in StepType /\ steps[6] \in StepType
  BY <1>1, <1>3, <1>4, <1>6
<1>8. \A i \in 1..6 : steps[i] \in StepType
  <2>1. \A i \in 1..6 : i \in {1, 2, 3, 4, 5, 6}
    OBVIOUS
  <2>2. QED
    BY <1>7, <2>1
<1>9. PICK l \in LedgerType :
        /\ t = [s EXCEPT !.ledger = l]
        /\ \A key \in Addresses \X Tokens :
             l[key].locked = s.ledger[key].locked
               + LockedBy(steps[1], key) + LockedBy(steps[2], key) + LockedBy(steps[3], key)
               + LockedBy(steps[4], key) + LockedBy(steps[5], key) + LockedBy(steps[6], key)
        /\ \A key \in Addresses \X Tokens :
             l[key].available = s.ledger[key].available
               + AvailableBy(steps[1], key) + AvailableBy(steps[2], key) + AvailableBy(steps[3], key)
               + AvailableBy(steps[4], key) + AvailableBy(steps[5], key) + AvailableBy(steps[6], key)
  BY <1>5, <1>6, <1>8, PerformedSix
<1>10. ASSUME NEW key \in Addresses \X Tokens
       PROVE  l[key].locked = s.ledger[key].locked + DepositedTo(p, a0, a1, key)
  <2>1. /\ LockedBy(steps[1], key) = 0 /\ LockedBy(steps[2], key) = 0
        /\ LockedBy(steps[4], key) = 0 /\ LockedBy(steps[5], key) = 0
        /\ LockedBy(steps[3], key) = (IF key = k0 THEN a0 ELSE 0)
        /\ LockedBy(steps[6], key) = (IF key = k1 THEN a1 ELSE 0)
    BY <1>1, <1>3, <1>4, <1>6 DEF LockedBy
  <2>2. s.ledger[key].locked \in Nat
    BY DEF LedgerType
  <2>3. /\ DepositedTo(p, a0, a1, key) = LockedBy(steps[3], key) + LockedBy(steps[6], key)
        /\ LockedBy(steps[3], key) \in Nat /\ LockedBy(steps[6], key) \in Nat
    BY <2>1 DEF DepositedTo, k0, k1
  <2>4. QED
    BY <1>9, <2>1, <2>2, <2>3
<1>12. ASSUME NEW key \in Addresses \X Tokens, key[1] # owner
       PROVE  l[key].available = s.ledger[key].available
  <2>1. /\ AvailableBy(steps[1], key) = 0 /\ AvailableBy(steps[4], key) = 0
        /\ AvailableBy(steps[2], key) = (IF key = k0 THEN a0 ELSE 0)
        /\ AvailableBy(steps[3], key) = (IF key = k0 THEN -a0 ELSE 0)
        /\ AvailableBy(steps[5], key) = (IF key = k1 THEN a1 ELSE 0)
        /\ AvailableBy(steps[6], key) = (IF key = k1 THEN -a1 ELSE 0)
    <3>1. key # o0 /\ key # o1
      BY <1>12 DEF o0, o1
    <3>2. QED
      BY <1>1, <1>3, <1>4, <1>6, <1>13, <3>1 DEF AvailableBy
  <2>2. s.ledger[key].available \in Nat
    BY DEF LedgerType
  <2>3. QED
    BY <1>9, <2>1, <2>2
<1>11. QED
  BY <1>9, <1>10, <1>12

\* Collecting the fees of a position without liquidity moves its checkpoint.
LEMMA Collected ==
    ASSUME NEW s, StoresOK(s), NEW id \in DOMAIN s.positions, s.positions[id].liquidity = 0,
           NEW t \in CollectFeesAndIncentives(s, id)
    PROVE  /\ StoresOK(t)
           /\ t.pools = s.pools /\ t.ticks = s.ticks /\ t.ledger = s.ledger
           /\ t.positionCounter = s.positionCounter /\ DOMAIN t.positions = DOMAIN s.positions
<1> DEFINE inside == FeeGrowthInside(s, id)
           position == s.positions[id]
           positions == [s.positions EXCEPT ![id].feeGrowthInsideLast = inside]
<1>1. /\ t = [s EXCEPT !.positions = positions]
      /\ \A side \in Sides : inside[side] >= position.feeGrowthInsideLast[side]
  <2>1. t = [s EXCEPT !.positions[id].feeGrowthInsideLast = inside]
    BY NothingCollected
  <2>2. s = [pools |-> s.pools, ticks |-> s.ticks, positions |-> s.positions,
             positionCounter |-> s.positionCounter, ledger |-> s.ledger]
    BY DEF StoresOK, IsState
  <2>3. QED
    BY <2>1, <2>2, NothingCollected
<1>2. PositionOK(s, id)
  BY DEF StoresOK
<1>3. inside \in [Sides -> 0..(One * One - 1)]
  <2>1. inside = [side \in Sides |-> inside[side]]
    BY DEF FeeGrowthInside
  <2>2. \A side \in Sides : position.feeGrowthInsideLast[side] \in 0..(One * One - 1)
    BY <1>2 DEF PositionOK, PositionType
  <2>3. \A side \in Sides : inside[side] \in Int /\ inside[side] <= One * One - 1
    BY InsideBounded
  <2> HIDE DEF inside
  <2>4. \A side \in Sides : inside[side] \in 0..(One * One - 1)
    BY <1>1, <2>2, <2>3, OneSquare
  <2>5. QED
    BY <2>1, <2>4
<1> HIDE DEF inside
<1>4. /\ DOMAIN positions = DOMAIN s.positions
      /\ positions[id] = [position EXCEPT !.feeGrowthInsideLast = inside]
      /\ \A other \in DOMAIN s.positions : other # id => positions[other] = s.positions[other]
  OBVIOUS
<1>5. /\ positions[id] \in PositionType(Accounts)
      /\ positions[id].tickLower = position.tickLower /\ positions[id].tickUpper = position.tickUpper
  <2>1. position \in PositionType(Accounts)
    BY <1>2 DEF PositionOK
  <2> HIDE DEF position, positions
  <2>2. QED
    BY <1>3, <1>4, <2>1 DEF PositionType
<1> HIDE DEF positions
<1>6. /\ t.pools = s.pools /\ t.ticks = s.ticks /\ t.ledger = s.ledger
      /\ t.positionCounter = s.positionCounter /\ t.positions = positions
      /\ IsState(t)
  <2>1. s = [pools |-> s.pools, ticks |-> s.ticks, positions |-> s.positions,
             positionCounter |-> s.positionCounter, ledger |-> s.ledger]
    BY DEF StoresOK, IsState
  <2>2. QED
    BY <1>1, <2>1 DEF IsState
<1>7. TicksFresh(t)
  BY <1>6 DEF StoresOK, TicksFresh
<1>8. ASSUME NEW other \in DOMAIN t.positions PROVE PositionOK(t, other)
  <2>1. PositionOK(s, other)
    BY <1>4, <1>6 DEF StoresOK
  <2>2. CASE other = id
    BY <1>2, <1>4, <1>5, <1>6, <2>2 DEF PositionOK
  <2>3. CASE other # id
    BY <1>4, <1>6, <2>1, <2>3 DEF PositionOK
  <2>4. QED
    BY <2>2, <2>3
<1>9. QED
  BY <1>4, <1>6, <1>7, <1>8 DEF StoresOK

\* The stores with the liquidity of a position that had none.
LEMMA LiquidityAdded ==
    ASSUME NEW s, StoresOK(s), NEW id \in DOMAIN s.positions, NEW delta \in Nat \ {0},
           NEW position \in PositionType(Accounts), position.liquidity = 0,
           position.tickLower < position.tickUpper,
           TickKey(PoolIDOf(id), position.tickLower) \in DOMAIN s.ticks,
           TickKey(PoolIDOf(id), position.tickUpper) \in DOMAIN s.ticks,
           NEW t, t = WithLiquidity(s, id, position, delta), Encodable(t, id, position)
    PROVE  LET p == PoolIDOf(id)
               added == IF InRange(s.pools[p].sqrtPrice, TickToPrice(position.tickLower),
                                   TickToPrice(position.tickUpper)) THEN delta ELSE 0
           IN  /\ StoresOK(t)
               /\ t.positionCounter = s.positionCounter /\ t.ledger = s.ledger
               /\ t.pools = [s.pools EXCEPT ![p] = [s.pools[p] EXCEPT !.liquidity = @ + added]]
               /\ t.pools[p] \in PoolType
<1> DEFINE p == PoolIDOf(id)
           lower == position.tickLower
           upper == position.tickUpper
           in == InRange(s.pools[p].sqrtPrice, TickToPrice(lower), TickToPrice(upper))
           added == IF in THEN delta ELSE 0
           updated == [position EXCEPT !.liquidity = @ + delta]
           infoLower == Changed(s.ticks[TickKey(p, lower)], delta, delta)
           infoUpper == Changed(s.ticks[TickKey(p, upper)], delta, -delta)
           pools == [s.pools EXCEPT ![p] = [s.pools[p] EXCEPT !.liquidity = @ + added]]
           positions == Put(id, updated, s.positions)
           once == Put(PriceKey(p, lower), infoLower, s.ticks)
           ticks == Put(PriceKey(p, upper), infoUpper, once)
<1>1. /\ s = [pools |-> s.pools, ticks |-> s.ticks, positions |-> s.positions,
              positionCounter |-> s.positionCounter, ledger |-> s.ledger]
      /\ p \in DOMAIN s.pools /\ s.pools[p] \in PoolShape
  BY DEF StoresOK, IsState, PositionOK
<1>2. updated.liquidity = delta /\ updated \in [tickLower : Ticks, tickUpper : Ticks,
         liquidity : {delta}, feeGrowthInsideLast : [Sides -> 0..(One * One - 1)],
         ownerAddress : Accounts]
      /\ updated.tickLower = lower /\ updated.tickUpper = upper
  BY DEF PositionType
<1>3. \A info \in TickType : \A net :
        Changed(info, delta, net).liquidityGross = info.liquidityGross + delta
  BY DEF Changed, TickType
<1>4. infoLower.liquidityGross = delta /\ infoUpper.liquidityGross = delta
  <2>1. /\ s.ticks[TickKey(p, lower)] = EmptyTick(s.pools[p], lower)
        /\ s.ticks[TickKey(p, upper)] = EmptyTick(s.pools[p], upper)
    BY <1>1, FreshTick
  <2>2. \A tick : EmptyTick(s.pools[p], tick) \in TickType
                  /\ EmptyTick(s.pools[p], tick).liquidityGross = 0
    BY <1>1, EmptyTickType DEF EmptyTick
  <2>3. 0 + delta = delta
    OBVIOUS
  <2>4. QED
    BY <1>3, <2>1, <2>2, <2>3
<1> HIDE DEF updated, infoLower, infoUpper
<1>5. t = [s EXCEPT !.pools = pools, !.positions = positions, !.ticks = ticks]
  <2>1. StoreTick(p, lower, infoLower, s.ticks) = once /\ StoreTick(p, upper, infoUpper, once) = ticks
    BY <1>4 DEF StoreTick
  <2>2. [s.pools EXCEPT ![p].liquidity = IF in THEN @ + delta ELSE @] = pools
    <3>1. s.pools[p].liquidity + 0 = s.pools[p].liquidity
      BY <1>1 DEF PoolShape
    <3> HIDE DEF in
    <3>2. (IF in THEN s.pools[p].liquidity + delta ELSE s.pools[p].liquidity) = s.pools[p].liquidity + added
      BY <3>1
    <3>3. QED
      BY <3>2
  <2>3. (IF updated.liquidity = 0 THEN Delete(id, s.positions) ELSE positions) = positions
    BY <1>2
  <2>4. t = [s EXCEPT
          !.pools[p].liquidity = IF in THEN @ + delta ELSE @,
          !.positions = IF updated.liquidity = 0 THEN Delete(id, @) ELSE Put(id, updated, @),
          !.ticks = StoreTick(p, upper, infoUpper, StoreTick(p, lower, infoLower, @))]
    BY DEF WithLiquidity, updated, infoLower, infoUpper
  <2> HIDE DEF pools, positions, once, ticks, in
  <2>5. t = [s EXCEPT !.pools = [s.pools EXCEPT ![p].liquidity = IF in THEN @ + delta ELSE @],
                      !.positions = IF updated.liquidity = 0 THEN Delete(id, s.positions) ELSE Put(id, updated, s.positions),
                      !.ticks = StoreTick(p, upper, infoUpper, StoreTick(p, lower, infoLower, s.ticks))]
    BY <1>1, <2>4
  <2>6. QED
    BY <2>1, <2>2, <2>3, <2>5 DEF positions
<1>6. /\ t.pools = pools /\ t.positions = positions /\ t.ticks = ticks
      /\ t.positionCounter = s.positionCounter /\ t.ledger = s.ledger
      /\ IsState(t)
  <2> HIDE DEF pools, positions, ticks
  <2>1. QED
    BY <1>1, <1>5 DEF IsState
<1>7. /\ t.pools[p] \in PoolType /\ updated \in PositionType(Accounts)
      /\ PriceKey(p, lower) \in DOMAIN ticks => ticks[PriceKey(p, lower)] \in TickType
      /\ PriceKey(p, upper) \in DOMAIN ticks => ticks[PriceKey(p, upper)] \in TickType
  <2>1. id \in DOMAIN t.positions /\ t.positions[id] = updated
    BY <1>6 DEF Put
  <2>2. QED
    BY <1>6, <2>1 DEF Encodable
<1>8. ASSUME NEW q \in DOMAIN s.pools
      PROVE  /\ q \in DOMAIN t.pools /\ t.pools[q] \in PoolShape
             /\ \A tick : EmptyTick(t.pools[q], tick) = EmptyTick(s.pools[q], tick)
  <2>1. s.pools[q] \in PoolShape
    BY DEF StoresOK
  <2>2. CASE q = p
    <3>1. added \in Int
      OBVIOUS
    <3>2. t.pools[p] = [s.pools[p] EXCEPT !.liquidity = @ + added]
      BY <1>1, <1>6
    <3> HIDE DEF added, p
    <3>3. /\ t.pools[p] \in PoolShape
          /\ t.pools[p].sqrtPrice = s.pools[p].sqrtPrice
          /\ t.pools[p].feeGrowthGlobal = s.pools[p].feeGrowthGlobal
      BY <1>1, <3>1, <3>2 DEF PoolShape
    <3>4. p \in DOMAIN t.pools
      BY <1>1, <1>6
    <3>5. QED
      BY <2>2, <3>3, <3>4 DEF EmptyTick
  <2>3. CASE q # p
    BY <1>6, <2>1, <2>3
  <2>4. QED
    BY <2>2, <2>3
<1>9. DOMAIN t.pools = DOMAIN s.pools /\ t.pools = [q \in DOMAIN t.pools |-> t.pools[q]]
  BY <1>6
<1>10. /\ DOMAIN ticks = DOMAIN s.ticks \cup {PriceKey(p, lower), PriceKey(p, upper)}
       /\ \A key \in DOMAIN ticks : key \notin {PriceKey(p, lower), PriceKey(p, upper)} =>
            key \in DOMAIN s.ticks /\ ticks[key] = s.ticks[key]
  BY DEF Put
<1>11. lower \in Ticks /\ upper \in Ticks
  BY DEF PositionType
<1> HIDE DEF pools, positions, ticks, once, in, added
<1>12. TicksFresh(t)
  <2>1. ASSUME NEW key \in DOMAIN t.ticks
        PROVE  \E q \in DOMAIN t.pools, tick \in Ticks :
                 \/ key = TickKey(q, tick) /\ t.ticks[key] = EmptyTick(t.pools[q], tick)
                 \/ key = PriceKey(q, tick) /\ t.ticks[key] \in TickType
    <3>1. CASE key = PriceKey(p, lower)
      BY <1>1, <1>6, <1>7, <1>9, <1>11, <3>1
    <3>2. CASE key = PriceKey(p, upper)
      BY <1>1, <1>6, <1>7, <1>9, <1>11, <3>2
    <3>3. CASE key \notin {PriceKey(p, lower), PriceKey(p, upper)}
      <4>1. key \in DOMAIN s.ticks /\ t.ticks[key] = s.ticks[key]
        BY <1>6, <1>10, <3>3
      <4>2. PICK q \in DOMAIN s.pools, tick \in Ticks :
              \/ key = TickKey(q, tick) /\ s.ticks[key] = EmptyTick(s.pools[q], tick)
              \/ key = PriceKey(q, tick) /\ s.ticks[key] \in TickType
        BY <4>1 DEF StoresOK, TicksFresh
      <4>3. EmptyTick(t.pools[q], tick) = EmptyTick(s.pools[q], tick) /\ q \in DOMAIN t.pools
        BY <1>8
      <4>4. QED
        BY <4>1, <4>2, <4>3
    <3>4. QED
      BY <3>1, <3>2, <3>3
  <2>2. QED
    BY <2>1 DEF TicksFresh
<1>13. ASSUME NEW other \in DOMAIN t.positions PROVE PositionOK(t, other)
  <2>1. /\ other \in DOMAIN s.positions
        /\ t.positions[other] = IF other = id THEN updated ELSE s.positions[other]
    BY <1>6 DEF Put, positions
  <2>2. PositionOK(s, other)
    BY <2>1 DEF StoresOK
  <2>3. DOMAIN s.ticks \subseteq DOMAIN t.ticks
    BY <1>6, <1>10
  <2>4. CASE other = id
    <3>1. /\ t.positions[other] = updated /\ updated \in PositionType(Accounts)
          /\ updated.tickLower = lower /\ updated.tickUpper = upper
      BY <1>2, <1>7, <2>1, <2>4
    <3>2. TickKey(PoolIDOf(other), lower) \in DOMAIN t.ticks /\ TickKey(PoolIDOf(other), upper) \in DOMAIN t.ticks
      BY <2>3, <2>4
    <3>3. QED
      BY <1>6, <1>9, <2>2, <3>1, <3>2 DEF PositionOK
  <2>5. CASE other # id
    BY <1>6, <1>9, <2>1, <2>2, <2>3, <2>5 DEF PositionOK
  <2>6. QED
    BY <2>4, <2>5
<1>14. StoresOK(t)
  <2>1. t.pools \in [DOMAIN t.pools -> PoolShape]
    BY <1>8, <1>9
  <2>2. QED
    BY <1>6, <1>9, <1>12, <1>13, <2>1 DEF StoresOK
<1>15. QED
  BY <1>6, <1>7, <1>14 DEF pools, added, in

\* The amounts that a new position brings into a pool.
DepositOf(pool, lower, upper, liquidity) ==
    IF liquidity = 0 THEN <<0, 0>>
    ELSE AmountsForLiquidity(pool.sqrtPrice, TickToPrice(lower), TickToPrice(upper), liquidity, TRUE)

\* Adding no liquidity to a pool changes no pool.
LEMMA PoolsEqual ==
    ASSUME NEW s, StoresOK(s), NEW p \in DOMAIN s.pools, NEW added, added = 0
    PROVE  [s.pools EXCEPT ![p] = [s.pools[p] EXCEPT !.liquidity = @ + added]] = s.pools
<1>1. s.pools[p] \in PoolShape /\ s.pools = [q \in DOMAIN s.pools |-> s.pools[q]]
  BY DEF StoresOK
<1>2. [s.pools[p] EXCEPT !.liquidity = @ + added] = s.pools[p]
  BY <1>1 DEF PoolShape
<1>3. QED
  BY <1>1, <1>2

\* What a command that creates a position leaves, when it does not throw.
LEMMA Outcome ==
    ASSUME NEW s, StoresOK(s), NEW sender \in Accounts, NEW p \in DOMAIN s.pools,
           NEW lower \in Ticks, NEW upper \in Ticks, lower < upper, NEW liquidity \in Nat,
           NEW amount0 \in Nat, NEW amount1 \in Nat,
           DepositOf(s.pools[p], lower, upper, liquidity) = <<amount0, amount1>>,
           NEW out \in UpdatePosition(WithPosition(s, sender, p, lower, upper),
                                      NewPositionID(s, p), liquidity)
    PROVE  LET added == IF InRange(s.pools[p].sqrtPrice, TickToPrice(lower), TickToPrice(upper))
                        THEN liquidity ELSE 0
           IN  /\ StoresOK(out.state)
               /\ out.amounts = <<amount0, amount1>>
               /\ out.state.positionCounter = s.positionCounter
               /\ out.state.pools = [s.pools EXCEPT ![p] = [s.pools[p] EXCEPT !.liquidity = @ + added]]
               /\ liquidity > 0 => out.state.pools[p] \in PoolType
               /\ \A key \in Addresses \X Tokens :
                    out.state.ledger[key].locked
                      = s.ledger[key].locked + DepositedTo(p, amount0, amount1, key)
               /\ \A key \in Addresses \X Tokens :
                    key[1] # sender => out.state.ledger[key].available = s.ledger[key].available
<1> DEFINE w == WithPosition(s, sender, p, lower, upper)
           id == NewPositionID(s, p)
           position == w.positions[id]
           in == InRange(s.pools[p].sqrtPrice, TickToPrice(lower), TickToPrice(upper))
           added == IF in THEN liquidity ELSE 0
           amounts == AmountsForLiquidity(w.pools[PoolIDOf(id)].sqrtPrice,
                        TickToPrice(position.tickLower), TickToPrice(position.tickUpper),
                        IF liquidity > 0 THEN liquidity ELSE -liquidity, liquidity > 0)
<1>1. StoresOK(w)
  BY FreshStoresOK
<1>2. /\ w.pools = s.pools /\ w.positionCounter = s.positionCounter /\ w.ledger = s.ledger
      /\ w.positions = Put(id, EmptyPosition(sender, lower, upper), s.positions)
  BY FreshPosition
<1>3. PoolIDOf(id) = p
  BY DEF PoolIDOf, NewPositionID
<1>4. id \in DOMAIN w.positions /\ position = EmptyPosition(sender, lower, upper)
  <2> HIDE DEF w, id
  <2>1. QED
    BY <1>2 DEF Put
<1>5. /\ position.liquidity = 0 /\ position.tickLower = lower /\ position.tickUpper = upper
      /\ position.ownerAddress = sender
  BY <1>4 DEF EmptyPosition
<1>6. p \in Pools /\ s.pools[p] \in PoolShape /\ s.ledger \in LedgerType
  BY DEF StoresOK
<1>7. PositionOK(w, id)
  BY <1>1, <1>4 DEF StoresOK
<1> HIDE DEF w, id
<1>8. CASE liquidity = 0
  <2>1. amount0 = 0 /\ amount1 = 0
    BY <1>8 DEF DepositOf
  <2>2. /\ out.amounts = <<0, 0>>
        /\ out.state \in CollectFeesAndIncentives(w, id)
    <3>1. out \in {[state |-> t, amounts |-> <<0, 0>>] :
                     t \in (IF -liquidity > position.liquidity THEN {}
                            ELSE CollectFeesAndIncentives(w, id))}
      BY <1>8 DEF UpdatePosition, w, id
    <3> HIDE DEF position
    <3>2. QED
      BY <3>1
  <2>3. /\ StoresOK(out.state)
        /\ out.state.pools = w.pools /\ out.state.ledger = w.ledger
        /\ out.state.positionCounter = w.positionCounter
    BY <1>1, <1>4, <1>5, <2>2, Collected
  <2>4. added = 0
    BY <1>8
  <2>5. [s.pools EXCEPT ![p] = [s.pools[p] EXCEPT !.liquidity = @ + added]] = s.pools
    <3> HIDE DEF added
    <3>1. QED
      BY <2>4, PoolsEqual
  <2>6. ASSUME NEW key \in Addresses \X Tokens
        PROVE  out.state.ledger[key].locked
                 = s.ledger[key].locked + DepositedTo(p, amount0, amount1, key)
    <3>1. DepositedTo(p, amount0, amount1, key) = 0
      BY <2>1 DEF DepositedTo
    <3>2. s.ledger[key].locked \in Nat
      BY <1>6 DEF LedgerType
    <3>3. QED
      BY <1>2, <2>3, <3>1, <3>2
  <2> HIDE DEF added
  <2>7. QED
    BY <1>2, <1>8, <2>1, <2>2, <2>3, <2>5, <2>6 DEF added
<1>9. CASE liquidity > 0
  <2>1. amounts = <<amount0, amount1>>
    <3>1. amounts = AmountsForLiquidity(s.pools[p].sqrtPrice, TickToPrice(lower), TickToPrice(upper),
                                        liquidity, liquidity > 0)
      BY <1>2, <1>3, <1>5, <1>9
    <3>2. (liquidity > 0) = TRUE
      BY <1>9
    <3>3. liquidity # 0
      BY <1>9
    <3>4. QED
      BY <3>1, <3>2, <3>3 DEF DepositOf
  <2> HIDE DEF amounts
  <2> DEFINE steps == TransferToPool(position.ownerAddress, PoolIDOf(id), TokenOf(PoolIDOf(id), 0), amounts[0 + 1])
                      \o TransferToPool(position.ownerAddress, PoolIDOf(id), TokenOf(PoolIDOf(id), 1), amounts[1 + 1])
  <2>2. PICK u0 \in CollectFeesAndIncentives(w, id) : \E u \in Performed(u0, steps) :
          /\ out.amounts = amounts
          /\ out.state = WithLiquidity(u, id, position, liquidity)
          /\ Encodable(out.state, id, position)
    <3> DEFINE collected == IF -liquidity > position.liquidity THEN {}
                            ELSE CollectFeesAndIncentives(w, id)
               paid == UNION {Performed(v, steps) : v \in collected}
               grown == {WithLiquidity(v, id, position, liquidity) : v \in paid}
    <3>1. out \in {[state |-> v, amounts |-> amounts] :
                     v \in {v \in grown : Encodable(v, id, position)}}
      BY <1>9, SMTT(60) DEF UpdatePosition, w, id, amounts
    <3> HIDE DEF steps, position, grown, paid
    <3>2. PICK v \in grown : out = [state |-> v, amounts |-> amounts] /\ Encodable(v, id, position)
      BY <3>1
    <3>3. PICK v1 \in paid : v = WithLiquidity(v1, id, position, liquidity)
      BY <3>2 DEF grown
    <3>4. PICK v0 \in collected : v1 \in Performed(v0, steps)
      BY <3>3 DEF paid
    <3>5. v0 \in CollectFeesAndIncentives(w, id)
      BY <3>4
    <3> HIDE DEF collected
    <3>6. QED
      BY <3>2, <3>3, <3>4, <3>5
  <2>9. PICK u \in Performed(u0, steps) :
          /\ out.amounts = amounts
          /\ out.state = WithLiquidity(u, id, position, liquidity)
          /\ Encodable(out.state, id, position)
    BY <2>2
  <2>3. /\ StoresOK(u0)
        /\ u0.pools = w.pools /\ u0.ticks = w.ticks /\ u0.ledger = w.ledger
        /\ u0.positionCounter = w.positionCounter /\ DOMAIN u0.positions = DOMAIN w.positions
    BY <1>1, <1>4, <1>5, <2>2, Collected
  <2>4. PICK l \in LedgerType :
          /\ u = [u0 EXCEPT !.ledger = l]
          /\ \A key \in Addresses \X Tokens :
               l[key].locked = u0.ledger[key].locked + DepositedTo(p, amount0, amount1, key)
          /\ \A key \in Addresses \X Tokens :
               key[1] # sender => l[key].available = u0.ledger[key].available
    <3>1. steps = TransferToPool(sender, p, TokenOf(p, 0), amount0)
                  \o TransferToPool(sender, p, TokenOf(p, 1), amount1)
      BY <1>3, <1>5, <2>1
    <3>2. u0.ledger \in LedgerType
      BY <2>3 DEF StoresOK
    <3> HIDE DEF steps
    <3>3. u \in Performed(u0, TransferToPool(sender, p, TokenOf(p, 0), amount0)
                              \o TransferToPool(sender, p, TokenOf(p, 1), amount1))
      BY <3>1
    <3>4. p \in Pools
      BY <1>6
    <3>5. QED
      BY <3>2, <3>3, <3>4, Deposited
  <2>5. /\ u.pools = w.pools /\ u.ticks = w.ticks /\ u.positions = u0.positions
        /\ u.positionCounter = w.positionCounter /\ u.ledger = l
        /\ StoresOK(u)
    <3>1. u0 = [pools |-> u0.pools, ticks |-> u0.ticks, positions |-> u0.positions,
                positionCounter |-> u0.positionCounter, ledger |-> u0.ledger]
      BY <2>3 DEF StoresOK, IsState
    <3>2. /\ u.pools = u0.pools /\ u.ticks = u0.ticks /\ u.positions = u0.positions
          /\ u.positionCounter = u0.positionCounter /\ u.ledger = l /\ IsState(u)
      BY <2>4, <3>1 DEF IsState
    <3>3. StoresOK(u)
      BY <2>3, <3>2 DEF StoresOK, TicksFresh, PositionOK
    <3>4. QED
      BY <2>3, <3>2, <3>3
  <2>6. /\ position \in PositionType(Accounts) /\ position.tickLower < position.tickUpper
        /\ TickKey(p, lower) \in DOMAIN w.ticks /\ TickKey(p, upper) \in DOMAIN w.ticks
    BY <1>3, <1>5, <1>7 DEF PositionOK
  <2> HIDE DEF position
  <2>7. /\ StoresOK(out.state)
        /\ out.state.positionCounter = u.positionCounter /\ out.state.ledger = u.ledger
        /\ out.state.pools = [u.pools EXCEPT ![p] = [u.pools[p] EXCEPT !.liquidity = @ + added]]
        /\ out.state.pools[p] \in PoolType
    <3>1. id \in DOMAIN u.positions
      BY <1>4, <2>3, <2>5
    <3>2. liquidity \in Nat \ {0}
      BY <1>9
    <3>3. u.pools[p].sqrtPrice = s.pools[p].sqrtPrice
      BY <1>2, <2>5
    <3> DEFINE t == out.state
               more == IF InRange(u.pools[p].sqrtPrice, TickToPrice(position.tickLower),
                                  TickToPrice(position.tickUpper)) THEN liquidity ELSE 0
    <3>4. /\ StoresOK(t)
          /\ t.positionCounter = u.positionCounter /\ t.ledger = u.ledger
          /\ t.pools = [u.pools EXCEPT ![p] = [u.pools[p] EXCEPT !.liquidity = @ + more]]
          /\ t.pools[p] \in PoolType
      <4>1. t = WithLiquidity(u, id, position, liquidity) /\ Encodable(t, id, position)
        BY <2>9
      <4>2. /\ TickKey(PoolIDOf(id), position.tickLower) \in DOMAIN u.ticks
            /\ TickKey(PoolIDOf(id), position.tickUpper) \in DOMAIN u.ticks
        BY <1>3, <1>5, <2>5, <2>6
      <4> DEFINE q == PoolIDOf(id)
                 grown == IF InRange(u.pools[q].sqrtPrice, TickToPrice(position.tickLower),
                                     TickToPrice(position.tickUpper)) THEN liquidity ELSE 0
      <4> HIDE DEF t
      <4>3. /\ StoresOK(t)
            /\ t.positionCounter = u.positionCounter /\ t.ledger = u.ledger
            /\ t.pools = [u.pools EXCEPT ![q] = [u.pools[q] EXCEPT !.liquidity = @ + grown]]
            /\ t.pools[q] \in PoolType
        <5>1. StoresOK(u) /\ position.liquidity = 0
          BY <1>5, <2>5 DEF position
        <5>2. QED
          BY <2>6, <3>1, <3>2, <4>1, <4>2, <5>1, LiquidityAdded, SMTT(60)
      <4>4. q = p /\ grown = more
        BY <1>3
      <4> HIDE DEF q, grown, more
      <4>5. QED
        BY <4>3, <4>4
    <3>5. more = added
      BY <1>5, <3>3
    <3> HIDE DEF more, added
    <3>6. QED
      BY <3>4, <3>5
  <2>8. QED
    BY <1>2, <2>1, <2>3, <2>4, <2>5, <2>7, <2>9
<1>10. QED
  BY <1>8, <1>9

-----------------------------------------------------------------------------
(* Sums over a bag *)

\* A fold with + is a sum.
LEMMA FoldIsSum == ASSUME NEW f PROVE FoldFunction(+, 0, f) = SumOver(f, DOMAIN f)
BY DEF FoldFunction, FoldFunctionOnSet, SumOver, MapThenSumSet

\* The size of a bag is a sum.
LEMMA SizeIsSum == ASSUME NEW f PROVE SumFunction(f) = SumOver(f, DOMAIN f)
BY FoldIsSum DEF SumFunction, SumFunctionOnSet, FoldFunction

IsBag(b) == IsFiniteSet(DOMAIN b) /\ b \in [DOMAIN b -> Nat \ {0}]

\* The sum of the values of those elements of a bag that are in a set.
Weighed(b, v, S) == SumOver([g \in S |-> b[g] * v[g]], S)

\* A bag with one more element.
OneMore(b, r) ==
    [g \in DOMAIN b \cup {r} |-> (IF g \in DOMAIN b THEN b[g] ELSE 0) + (IF g = r THEN 1 ELSE 0)]

\* A bag with one more copy of an element.
LEMMA BagUnionIsOneMore == ASSUME NEW b, NEW r PROVE b (+) SetToBag({r}) = OneMore(b, r)
BY DEF (+), SetToBag, OneMore

\* One more element adds its value.
LEMMA WeighedGrows ==
    ASSUME NEW b, IsBag(b), NEW r, NEW c, c = OneMore(b, r),
           NEW S \in SUBSET DOMAIN b, r \in DOMAIN b => r \in S,
           NEW T, T = S \cup {r}, NEW v, \A g \in T : v[g] \in Int
    PROVE  Weighed(c, v, T) = Weighed(b, v, S) + v[r]
<1> DEFINE f == [g \in S |-> b[g] * v[g]]
           h == [g \in T |-> c[g] * v[g]]
<1>1. IsFiniteSet(S) /\ IsFiniteSet(T)
  BY FS_Subset, FS_AddElement DEF IsBag
<1>2. \A g \in S : b[g] \in Nat
  BY DEF IsBag
<1>3. /\ \A g \in S : g # r => c[g] = b[g]
      /\ r \in S => c[r] = b[r] + 1
      /\ r \notin S => c[r] = 1
  BY <1>2 DEF OneMore
<1>4. c[r] \in Nat /\ \A g \in S : c[g] \in Nat
  BY <1>2, <1>3
<1>5. \A g \in S : f[g] \in Int
  BY <1>2
<1>6. \A g \in T : h[g] \in Int
  <2>1. SUFFICES ASSUME NEW g \in T PROVE h[g] \in Int
    OBVIOUS
  <2>2. c[g] \in Int /\ v[g] \in Int
    BY <1>4
  <2>3. QED
    BY <2>2
<1>7. \A g \in S : g # r => h[g] = f[g]
  BY <1>3
<1>8. CASE r \in S
  <2>1. T = S
    BY <1>8
  <2>2. SumOver(h, T) = SumOver(f, T) - f[r] + h[r]
    <3>1. /\ \A g \in S : f[g] \in Int /\ h[g] \in Int
          /\ \A g \in S : g # r => f[g] = h[g]
      BY <1>5, <1>6, <1>7
    <3> HIDE DEF f, h
    <3>2. SumOver(h, S) = SumOver(f, S) - f[r] + h[r]
      BY <1>1, <1>8, <3>1, SumChange
    <3>3. QED
      BY <2>1, <3>2
  <2>3. f[r] = b[r] * v[r] /\ h[r] = (b[r] + 1) * v[r] /\ v[r] \in Int /\ b[r] \in Nat
    BY <1>2, <1>3, <1>8
  <2>4. SumOver(f, S) \in Int
    BY <1>1, <1>5, SumInt
  <2> HIDE DEF f, h
  <2>5. h[r] = f[r] + v[r] /\ f[r] \in Int
    <3>1. ASSUME NEW x \in Nat, NEW y \in Int PROVE (x + 1) * y = x * y + y /\ x * y \in Int
      OBVIOUS
    <3>2. QED
      BY <2>3, <3>1
  <2>6. SumOver(h, T) = SumOver(f, S) + v[r]
    <3>1. SumOver(f, T) = SumOver(f, S)
      BY <2>1
    <3>2. QED
      BY <2>2, <2>3, <2>4, <2>5, <3>1
  <2>7. QED
    BY <2>6 DEF Weighed, f, h
<1>9. CASE r \notin S
  <2>1. SumOver(h, T) = h[r] + SumOver(h, S)
    <3>1. T \ {r} = S /\ r \in T
      BY <1>9
    <3> HIDE DEF h
    <3>2. QED
      BY <1>1, <1>6, <3>1, SumRemove
  <2>2. SumOver(h, S) = SumOver(f, S)
    <3>1. \A g \in S : h[g] = f[g]
      BY <1>7, <1>9
    <3> HIDE DEF f, h
    <3>2. QED
      BY <1>1, <3>1, SumSame
  <2>3. h[r] = v[r] /\ v[r] \in Int
    BY <1>3, <1>9
  <2>4. SumOver(f, S) \in Int
    BY <1>1, <1>5, SumInt
  <2> HIDE DEF f, h
  <2>5. SumOver(h, T) = SumOver(f, S) + v[r]
    BY <2>1, <2>2, <2>3, <2>4
  <2>6. QED
    BY <2>5 DEF Weighed, f, h
<1>10. QED
  BY <1>8, <1>9

\* The others stay as they are.
LEMMA WeighedStays ==
    ASSUME NEW b, IsBag(b), NEW r, NEW c, c = OneMore(b, r),
           NEW S \in SUBSET DOMAIN b, r \notin S,
           NEW v, \A g \in S : v[g] \in Int
    PROVE  Weighed(c, v, S) = Weighed(b, v, S)
<1>1. \A g \in S : c[g] = b[g]
  <2>1. \A g \in S : b[g] \in Nat
    BY DEF IsBag
  <2>2. QED
    BY <2>1 DEF OneMore
<1>2. [g \in S |-> c[g] * v[g]] = [g \in S |-> b[g] * v[g]]
  BY <1>1
<1>3. QED
  BY <1>2 DEF Weighed

\* One more copy of an element makes a bag.
LEMMA BagGrows ==
    ASSUME NEW b, IsBag(b), NEW r, NEW c, c = OneMore(b, r)
    PROVE  IsBag(c) /\ DOMAIN c = DOMAIN b \cup {r}
<1>1. c = [g \in DOMAIN b \cup {r} |->
             (IF g \in DOMAIN b THEN b[g] ELSE 0) + (IF g = r THEN 1 ELSE 0)]
  BY DEF OneMore
<1>2. IsFiniteSet(DOMAIN b \cup {r})
  BY FS_AddElement DEF IsBag
<1>3. \A g \in DOMAIN b : b[g] \in Nat \ {0}
  BY DEF IsBag
<1>4. \A g \in DOMAIN c : c[g] \in Nat \ {0}
  BY <1>1, <1>3
<1>5. QED
  BY <1>1, <1>2, <1>4 DEF IsBag

\* A weighed sum over a bag is a number.
LEMMA WeighedInt ==
    ASSUME NEW b, IsBag(b), NEW S \in SUBSET DOMAIN b, NEW v
    PROVE  /\ (\A g \in S : v[g] \in Int) => Weighed(b, v, S) \in Int
           /\ (\A g \in S : v[g] \in Nat) => Weighed(b, v, S) \in Nat
<1> DEFINE f == [g \in S |-> b[g] * v[g]]
<1>1. IsFiniteSet(S) /\ \A g \in S : b[g] \in Nat
  BY FS_Subset DEF IsBag
<1>2. ASSUME \A g \in S : v[g] \in Int PROVE Weighed(b, v, S) \in Int
  <2>1. \A g \in S : f[g] \in Int
    BY <1>1, <1>2
  <2> HIDE DEF f
  <2>2. SumOver(f, S) \in Int
    BY <1>1, <2>1, SumInt
  <2>3. QED
    BY <2>2 DEF Weighed, f
<1>3. ASSUME \A g \in S : v[g] \in Nat PROVE Weighed(b, v, S) \in Nat
  <2>1. \A g \in S : f[g] \in Nat
    <3>1. SUFFICES ASSUME NEW g \in S PROVE f[g] \in Nat
      OBVIOUS
    <3>2. b[g] \in Nat /\ v[g] \in Nat
      BY <1>1, <1>3
    <3>3. QED
      BY <3>2
  <2> HIDE DEF f
  <2>2. SumOver(f, S) \in Nat
    BY <1>1, <2>1, SumNat
  <2>3. QED
    BY <2>2 DEF Weighed, f
<1>4. QED
  BY <1>2, <1>3

\* Values that are bounded by linear functions of other values, up to an error
\* for each element that is small for all of them together.
LEMMA WeighedCovered ==
    ASSUME NEW b, IsBag(b), NEW S \in SUBSET DOMAIN b, NEW v, NEW paid,
           \A g \in S : v[g] \in Nat /\ paid[g] \in Nat,
           NEW K \in Nat, NEW M \in Nat \ {0}, NEW e \in Nat,
           \A g \in S : K * v[g] <= M * paid[g] + e,
           e * SumOver(b, S) < M,
           NEW out \in Nat, M * out <= K * Weighed(b, v, S)
    PROVE  out <= Weighed(b, paid, S)
<1> DEFINE bv == [g \in S |-> b[g] * v[g]]
           bp == [g \in S |-> b[g] * paid[g]]
           f == [g \in S |-> K * bv[g]]
           h1 == [g \in S |-> M * bp[g]]
           h2 == [g \in S |-> e * b[g]]
           h == [g \in S |-> h1[g] + h2[g]]
<1>1. IsFiniteSet(S) /\ \A g \in S : b[g] \in Nat
  BY FS_Subset DEF IsBag
<1>2. \A g \in S : bv[g] \in Nat /\ bp[g] \in Nat
  <2>1. SUFFICES ASSUME NEW g \in S PROVE bv[g] \in Nat /\ bp[g] \in Nat
    OBVIOUS
  <2>2. b[g] \in Nat /\ v[g] \in Nat /\ paid[g] \in Nat
    BY <1>1
  <2>3. QED
    BY <2>2
<1>3. \A g \in S : f[g] <= h[g]
  <2>1. SUFFICES ASSUME NEW g \in S PROVE f[g] <= h[g]
    OBVIOUS
  <2> DEFINE n == b[g]
             x == v[g]
             y == paid[g]
  <2>2. n \in Nat /\ x \in Nat /\ y \in Nat /\ K * x <= M * y + e
    BY <1>1
  <2>3. f[g] = K * (n * x) /\ h[g] = M * (n * y) + e * n
    OBVIOUS
  <2> HIDE DEF n, x, y, f, h
  <2>4. n * (K * x) <= n * (M * y + e)
    <3>1. K * x \in Int /\ M * y + e \in Int
      BY <2>2
    <3>2. QED
      BY <2>2, <3>1, ScaleLeq
  <2>5. n * (K * x) = K * (n * x) /\ n * (M * y + e) = M * (n * y) + e * n
    BY <2>2
  <2>6. QED
    BY <2>3, <2>4, <2>5
<1>4. \A g \in S : f[g] \in Int /\ h[g] \in Int /\ h1[g] \in Int /\ h2[g] \in Int
  <2>1. SUFFICES ASSUME NEW g \in S PROVE f[g] \in Int /\ h[g] \in Int /\ h1[g] \in Int /\ h2[g] \in Int
    OBVIOUS
  <2>2. bv[g] \in Nat /\ bp[g] \in Nat /\ b[g] \in Nat
    BY <1>1, <1>2
  <2> HIDE DEF bv, bp
  <2>3. QED
    BY <2>2
<1>5. SumOver(f, S) <= SumOver(h, S)
  <2> HIDE DEF f, h
  <2>1. QED
    BY <1>1, <1>3, <1>4, SumLeq
<1>6. SumOver(h, S) = SumOver(h1, S) + SumOver(h2, S)
  <2>1. \A g \in S : h[g] = h1[g] + h2[g]
    OBVIOUS
  <2> HIDE DEF h, h1, h2
  <2>2. QED
    BY <1>1, <1>4, <2>1, SumPlus
<1>7. SumOver(f, S) = K * SumOver(bv, S) /\ SumOver(h1, S) = M * SumOver(bp, S)
  <2>1. \A g \in S : f[g] = K * bv[g] /\ h1[g] = M * bp[g] /\ bv[g] \in Int /\ bp[g] \in Int
    BY <1>2
  <2>2. K \in Int /\ M \in Int
    OBVIOUS
  <2> HIDE DEF f, h, h1, h2, bv, bp
  <2>3. SumOver(f, S) = K * SumOver(bv, S)
    BY <1>1, <2>1, <2>2, SumScale
  <2>4. SumOver(h1, S) = M * SumOver(bp, S)
    BY <1>1, <2>1, <2>2, SumScale
  <2>5. QED
    BY <2>3, <2>4
<1>8. SumOver(h2, S) = e * SumOver(b, S)
  <2>1. \A g \in S : h2[g] = e * b[g] /\ b[g] \in Int
    BY <1>1
  <2> HIDE DEF h2
  <2>2. QED
    BY <1>1, <2>1, SumScale
<1>9. Weighed(b, v, S) = SumOver(bv, S) /\ Weighed(b, paid, S) = SumOver(bp, S)
  BY DEF Weighed
<1>10. SumOver(bv, S) \in Nat /\ SumOver(bp, S) \in Nat /\ SumOver(b, S) \in Nat
  <2> HIDE DEF bv, bp
  <2>1. QED
    BY <1>1, <1>2, SumNat
<1> HIDE DEF f, h, h1, h2, bv, bp
<1> DEFINE P == SumOver(bp, S)
           B == e * SumOver(b, S)
           V == K * SumOver(bv, S)
<1>11. P \in Nat /\ B \in Nat /\ V \in Nat /\ B < M /\ M * out <= V /\ V <= M * P + B
  BY <1>5, <1>6, <1>7, <1>8, <1>9, <1>10
<1> HIDE DEF P, B, V
<1>12. M * out < M * (P + 1)
  <2>1. M * (P + 1) = M * P + M /\ M * P \in Int /\ M * out \in Int
    BY <1>11
  <2>2. QED
    BY <1>11, <2>1
<1>13. out < P + 1
  BY <1>11, <1>12, CancelLess
<1>14. QED
  BY <1>9, <1>11, <1>13 DEF P

-----------------------------------------------------------------------------
(* What a pool owes for liquidity and what was paid for it *)

\* The amount of the first token, as a linear function of the liquidity.
LEMMA Linear0 ==
    ASSUME NEW lower \in Nat \ {0}, NEW upper \in Nat, lower < upper, NEW liquidity \in Nat
    PROVE  /\ (lower * upper * One) * Out0(lower, upper, liquidity)
                <= (One * One * (upper - lower)) * liquidity
           /\ (One * One * (upper - lower)) * liquidity
                <= (lower * upper * One) * In0(lower, upper, liquidity) + upper * (lower + One)
<1> DEFINE d == upper - lower
           s == Share0(lower, upper, liquidity)
           q == Quotient0(lower, upper, liquidity)
           i == In0(lower, upper, liquidity)
           o == Out0(lower, upper, liquidity)
           x == One * (liquidity * d)
<1>1. /\ d \in Nat /\ upper \in Nat \ {0} /\ lower \in Nat /\ One \in Nat \ {0}
      /\ liquidity * d \in Nat /\ x \in Nat
  BY OneAssumption
<1>2. s \in Nat /\ upper * s <= x /\ x < upper * s + upper
  BY <1>1, Share0Bounds
<1>3. q \in Nat /\ lower * q <= One * s /\ One * s < lower * q + lower
  BY Quotient0Bounds
<1>4. i \in Nat /\ o \in Nat /\ One * o <= q /\ q <= One * i
  <2> HIDE DEF q
  <2>1. i = RoundUpQ96(q) /\ o = RoundDownQ96(q)
    BY Amount0Rounded DEF q
  <2> HIDE DEF i, o
  <2>2. QED
    BY <1>3, <2>1, RoundUp, RoundDown
<1>5. (One * One * d) * liquidity = One * x
  BY <1>1
<1> HIDE DEF d, s, q, i, o, x
<1>6. (lower * upper * One) * o <= One * x
  <2>1. (lower * upper) * (One * o) <= (lower * upper) * q
    <3>1. lower * upper \in Nat /\ One * o \in Int
      BY <1>1, <1>4
    <3>2. QED
      BY <1>3, <1>4, <3>1, ScaleLeq
  <2>2. upper * (lower * q) <= upper * (One * s)
    <3>1. lower * q \in Int /\ One * s \in Int
      BY <1>1, <1>2, <1>3
    <3>2. QED
      BY <1>1, <1>3, <3>1, ScaleLeq
  <2>3. One * (upper * s) <= One * x
    <3>1. upper * s \in Int
      BY <1>1, <1>2
    <3>2. QED
      BY <1>1, <1>2, <3>1, ScaleLeq
  <2>4. /\ (lower * upper) * (One * o) = (lower * upper * One) * o
        /\ (lower * upper) * q = upper * (lower * q)
        /\ upper * (One * s) = One * (upper * s)
    BY <1>1, <1>2, <1>3, <1>4
  <2>5. /\ (lower * upper * One) * o \in Int /\ upper * (lower * q) \in Int
        /\ One * (upper * s) \in Int /\ One * x \in Int
    BY <1>1, <1>2, <1>3, <1>4
  <2>6. QED
    BY <2>1, <2>2, <2>3, <2>4, <2>5
<1>7. One * x <= (lower * upper * One) * i + upper * (lower + One)
  <2>1. One * x <= One * (upper * s + upper)
    <3>1. upper * s + upper \in Int
      BY <1>1, <1>2
    <3>2. QED
      BY <1>1, <1>2, <3>1, ScaleLeq
  <2>2. upper * (One * s) <= upper * (lower * q + lower)
    <3>1. lower * q + lower \in Int /\ One * s \in Int
      BY <1>1, <1>2, <1>3
    <3>2. QED
      BY <1>1, <1>3, <3>1, ScaleLeq
  <2>3. (lower * upper) * q <= (lower * upper) * (One * i)
    <3>1. lower * upper \in Nat /\ One * i \in Int
      BY <1>1, <1>4
    <3>2. QED
      BY <1>3, <1>4, <3>1, ScaleLeq
  <2>4. /\ One * (upper * s + upper) = upper * (One * s) + upper * One
        /\ upper * (lower * q + lower) = (lower * upper) * q + upper * lower
        /\ (lower * upper) * (One * i) = (lower * upper * One) * i
        /\ upper * (lower + One) = upper * lower + upper * One
    BY <1>1, <1>2, <1>3, <1>4
  <2>5. /\ (lower * upper * One) * i \in Int /\ (lower * upper) * q \in Int
        /\ upper * (One * s) \in Int /\ One * x \in Int
        /\ upper * lower \in Int /\ upper * One \in Int
    BY <1>1, <1>2, <1>3, <1>4
  <2>6. QED
    BY <2>1, <2>2, <2>3, <2>4, <2>5
<1>8. QED
  BY <1>5, <1>6, <1>7 DEF d, i, o

\* An amount of the second token is bounded by a linear function of the
\* liquidity.
LEMMA Linear1 ==
    ASSUME NEW lower \in Nat, NEW upper \in Nat, lower < upper, NEW liquidity \in Nat
    PROVE  /\ One * Out1(lower, upper, liquidity) <= (upper - lower) * liquidity
           /\ (upper - lower) * liquidity <= One * In1(lower, upper, liquidity)
<1>1. lower <= upper /\ (upper - lower) * liquidity = liquidity * (upper - lower)
  OBVIOUS
<1>2. /\ liquidity * (upper - lower) \in Nat
      /\ In1(lower, upper, liquidity) = RoundUpQ96(liquidity * (upper - lower))
      /\ Out1(lower, upper, liquidity) = RoundDownQ96(liquidity * (upper - lower))
  BY <1>1, Amount1Rounded
<1>3. QED
  BY <1>1, <1>2, RoundUp, RoundDown

\* The errors of all deposits together are less than one unit of the token.
LEMMA DustBelowOne ==
    ASSUME NEW lowest \in Nat \ {0}, NEW lower \in Nat, lowest <= lower, NEW upper \in Nat \ {0},
           NEW n \in Nat, n * (lowest + One) < lowest * One
    PROVE  (upper * (lower + One)) * n < lower * upper * One
<1>1. One \in Nat \ {0}
  BY OneAssumption
<1>2. n <= One
  <2>1. SUFFICES ASSUME n >= One PROVE n * (lowest + One) >= lowest * One
    BY <1>1
  <2>2. n * (lowest + One) = lowest * n + n * One /\ n * One >= 0 /\ lowest * n \in Int /\ n * One \in Int
    BY <1>1
  <2>3. lowest * One <= lowest * n
    BY <1>1, <2>1, ScaleLeq
  <2>4. QED
    BY <1>1, <2>2, <2>3
<1> DEFINE r == lower - lowest
<1>3. r \in Nat /\ lower = lowest + r
  OBVIOUS
<1> HIDE DEF r
<1>4. r * n <= r * One
  BY <1>1, <1>2, <1>3, ScaleLeq
<1>5. /\ (lower + One) * n = n * (lowest + One) + r * n
      /\ lower * One = lowest * One + r * One
  BY <1>1, <1>3
<1>6. (lower + One) * n < lower * One
  <2>1. n * (lowest + One) \in Int /\ r * n \in Int /\ r * One \in Int /\ lowest * One \in Int
    BY <1>1, <1>3
  <2>2. QED
    BY <1>4, <1>5, <2>1
<1> DEFINE a == (lower + One) * n
           b == lower * One
<1>7. a \in Int /\ b \in Int /\ a + 1 <= b
  BY <1>1, <1>6
<1>8. (upper * (lower + One)) * n = upper * a /\ lower * upper * One = upper * b
  BY <1>1
<1> HIDE DEF a, b
<1>9. upper * (a + 1) <= upper * b
  BY <1>7, ScaleLeq
<1>10. upper * (a + 1) = upper * a + upper
  BY <1>7
<1>11. upper * a \in Int /\ upper * b \in Int
  BY <1>7
<1>12. upper * a < upper * b
  BY <1>9, <1>10, <1>11
<1>13. QED
  BY <1>8, <1>12

\* Deposits of the first token, each rounded up, cover the withdrawal of all,
\* rounded down, if there are so few that their rounding losses stay below a
\* unit.
LEMMA Covered0 ==
    ASSUME NEW b, IsBag(b), NEW S \in SUBSET DOMAIN b, NEW v, NEW paid,
           \A g \in S : v[g] \in Nat /\ paid[g] \in Nat,
           NEW lowest \in Nat \ {0}, NEW lower \in Nat, lowest <= lower, NEW upper \in Nat, lower < upper,
           \A g \in S : paid[g] = In0(lower, upper, v[g]) \/ v[g] = 0,
           SumOver(b, S) * (lowest + One) < lowest * One
    PROVE  Out0(lower, upper, Weighed(b, v, S)) <= Weighed(b, paid, S)
<1> DEFINE K == One * One * (upper - lower)
           M == lower * upper * One
           e == upper * (lower + One)
           L == Weighed(b, v, S)
           n == SumOver(b, S)
           out == Out0(lower, upper, L)
<1>1. /\ One \in Nat \ {0} /\ lower \in Nat \ {0} /\ upper \in Nat \ {0} /\ upper - lower \in Nat
      /\ L \in Nat
  BY OneAssumption, WeighedInt
<1>2. K \in Nat /\ M \in Nat \ {0} /\ e \in Nat
  <2> HIDE DEF L
  <2>1. One * One \in Nat /\ lower * upper \in Nat \ {0} /\ lower + One \in Nat
    BY <1>1
  <2>2. (lower * upper) * One \in Nat \ {0} /\ (One * One) * (upper - lower) \in Nat
    BY <1>1, <2>1
  <2>3. QED
    BY <1>1, <2>1, <2>2
<1>3. n \in Nat
  <2>1. IsFiniteSet(S) /\ \A g \in S : b[g] \in Nat
    BY FS_Subset DEF IsBag
  <2>2. QED
    BY <2>1, SumNat
<1>4. out \in Nat /\ M * out <= K * L
  <2> HIDE DEF L
  <2>1. lower <= upper
    OBVIOUS
  <2>2. QED
    BY <1>1, <2>1, Linear0, OutNat
<1>5. \A g \in S : K * v[g] <= M * paid[g] + e
  <2>1. SUFFICES ASSUME NEW g \in S PROVE K * v[g] <= M * paid[g] + e
    OBVIOUS
  <2>2. v[g] \in Nat /\ paid[g] \in Nat
    OBVIOUS
  <2>3. CASE v[g] = 0
    <3>1. K * v[g] = 0 /\ M * paid[g] \in Nat
      <4> HIDE DEF K, M
      <4>1. QED
        BY <1>2, <2>2, <2>3
    <3> HIDE DEF K, M, e
    <3>2. QED
      BY <1>2, <3>1
  <2>4. CASE paid[g] = In0(lower, upper, v[g])
    BY <1>1, <2>2, <2>4, Linear0
  <2>5. QED
    BY <2>3, <2>4
<1>6. e * n < M
  <2> HIDE DEF n
  <2>1. n * (lowest + One) < lowest * One
    BY DEF n
  <2>2. QED
    BY <1>1, <1>3, <2>1, DustBelowOne
<1> HIDE DEF K, M, e, L, n, out
<1>7. out <= Weighed(b, paid, S)
  BY <1>2, <1>4, <1>5, <1>6, WeighedCovered DEF L, n
<1>8. QED
  BY <1>7 DEF out, L

\* Deposits of the second token, each rounded up, cover the withdrawal of all,
\* rounded down.
LEMMA Covered1 ==
    ASSUME NEW b, IsBag(b), NEW S \in SUBSET DOMAIN b, NEW v, NEW paid,
           \A g \in S : v[g] \in Nat /\ paid[g] \in Nat,
           NEW lower \in Nat, NEW upper \in Nat, lower < upper,
           \A g \in S : paid[g] = In1(lower, upper, v[g]) \/ v[g] = 0
    PROVE  Out1(lower, upper, Weighed(b, v, S)) <= Weighed(b, paid, S)
<1> DEFINE K == upper - lower
           L == Weighed(b, v, S)
           n == SumOver(b, S)
           out == Out1(lower, upper, L)
<1>1. One \in Nat \ {0} /\ K \in Nat /\ L \in Nat
  BY OneAssumption, WeighedInt
<1>2. n \in Nat
  <2>1. IsFiniteSet(S) /\ \A g \in S : b[g] \in Nat
    BY FS_Subset DEF IsBag
  <2>2. QED
    BY <2>1, SumNat
<1>3. out \in Nat /\ One * out <= K * L
  <2> HIDE DEF L
  <2>1. lower <= upper /\ L * (upper - lower) \in Nat
    BY <1>1
  <2>2. out = RoundDownQ96(L * (upper - lower))
    BY <1>1, <2>1, Amount1Rounded
  <2>3. out \in Nat
    BY <2>1, <2>2, RoundDown
  <2>4. QED
    BY <1>1, <2>3, Linear1
<1>4. \A g \in S : K * v[g] <= One * paid[g] + 0
  <2>1. SUFFICES ASSUME NEW g \in S PROVE K * v[g] <= One * paid[g]
    BY <1>1
  <2>2. v[g] \in Nat /\ paid[g] \in Nat
    OBVIOUS
  <2>3. CASE v[g] = 0
    <3>1. K * v[g] = 0 /\ One * paid[g] \in Nat
      <4> HIDE DEF K
      <4>1. QED
        BY <1>1, <2>2, <2>3
    <3> HIDE DEF K
    <3>2. QED
      BY <3>1
  <2>4. CASE paid[g] = In1(lower, upper, v[g])
    BY <1>1, <2>2, <2>4, Linear1
  <2>5. QED
    BY <2>3, <2>4
<1>5. 0 * n < One
  BY <1>1, <1>2
<1> HIDE DEF K, L, n, out
<1>6. out <= Weighed(b, paid, S)
  BY <1>1, <1>3, <1>4, <1>5, WeighedCovered DEF L, n
<1>7. QED
  BY <1>6 DEF out, L

\* So few grants that what they lose to rounding is less than one unit.
Few(b, S, lowest) == SumOver(b, S) * (lowest + One) < lowest * One

\* What was paid for the liquidity v[g] of each grant on side i, and what some
\* liquidity is worth on that side.
PaidUp(deposit, v, S, current, lower, upper, i) ==
    \A g \in S : deposit[g] = IF v[g] = 0 THEN 0
                              ELSE AmountsForLiquidity(current, lower, upper, v[g], TRUE)[i]
Worth(current, lower, upper, liquidity, i) ==
    AmountsForLiquidity(current, lower, upper, liquidity, FALSE)[i]


\* What the liquidity of a range is worth was paid for it, however it is divided.
LEMMA RangeCovered ==
    ASSUME NEW b, IsBag(b), NEW S \in SUBSET DOMAIN b, NEW v, \A g \in S : v[g] \in Nat,
           NEW current \in Nat, NEW lowest \in Nat \ {0}, NEW lower \in Nat, lowest <= lower,
           NEW upper \in Nat, lower < upper,
           Few(b, S, lowest),
           NEW deposit, NEW i \in {1, 2}, PaidUp(deposit, v, S, current, lower, upper, i)
    PROVE  /\ Worth(current, lower, upper, Weighed(b, v, S), i) \in Nat
           /\ Worth(current, lower, upper, Weighed(b, v, S), i) <= Weighed(b, deposit, S)
           /\ \A g \in S : deposit[g] \in Nat
<1> USE DEF Few, PaidUp
<1> DEFINE L == Weighed(b, v, S)
           out == AmountsForLiquidity(current, lower, upper, L, FALSE)[i]
<1>1. L \in Nat /\ lower \in Nat \ {0} /\ lower <= upper
  BY WeighedInt
<1> DEFINE Goal == /\ out \in Nat /\ out <= Weighed(b, deposit, S)
                   /\ \A g \in S : deposit[g] \in Nat
<1>2. ASSUME NEW lo \in Nat \ {0}, NEW hi \in Nat, lo <= hi, NEW l \in Nat
      PROVE  In0(lo, hi, l) \in Nat /\ In1(lo, hi, l) \in Nat
             /\ Out0(lo, hi, l) \in Nat /\ Out1(lo, hi, l) \in Nat
  <2>1. In0(lo, hi, l) \in Nat /\ Out0(lo, hi, l) \in Nat /\ Out1(lo, hi, l) \in Nat
    BY <1>2, In0Nat, OutNat
  <2>2. l * (hi - lo) \in Nat /\ In1(lo, hi, l) = RoundUpQ96(l * (hi - lo))
    BY <1>2, Amount1Rounded
  <2>3. QED
    BY <2>1, <2>2, RoundUp
<1>3. ASSUME current <= lower PROVE Goal
  <2>1. CASE i = 1
    <3>1. out = Out0(lower, upper, L)
      BY <1>3, <2>1 DEF AmountsForLiquidity, Out0
    <3>2. \A g \in S : deposit[g] = IF v[g] = 0 THEN 0 ELSE In0(lower, upper, v[g])
      BY <1>3, <2>1 DEF AmountsForLiquidity, In0
    <3>3. \A g \in S : deposit[g] \in Nat
      <4>1. SUFFICES ASSUME NEW g \in S PROVE deposit[g] \in Nat
        OBVIOUS
      <4>2. v[g] \in Nat
        OBVIOUS
      <4>3. CASE v[g] = 0
        BY <3>2, <4>3
      <4>4. CASE v[g] # 0
        <5>1. lower \in Nat \ {0} /\ upper \in Nat /\ lower <= upper
          BY <1>1
        <5>2. In0(lower, upper, v[g]) \in Nat
          BY <1>2, <4>2, <5>1
        <5>3. QED
          BY <3>2, <4>4, <5>2
      <4>5. QED
        BY <4>3, <4>4
    <3> HIDE DEF out, L
    <3>4. Out0(lower, upper, L) <= Weighed(b, deposit, S)
      BY <3>2, <3>3, Covered0 DEF L
    <3>5. out \in Nat
      BY <1>1, <1>2, <3>1
    <3>6. QED
      BY <3>1, <3>3, <3>4, <3>5
  <2>2. CASE i = 2
    <3>1. out = 0
      BY <1>3, <2>2 DEF AmountsForLiquidity
    <3>2. \A g \in S : deposit[g] = 0
      BY <1>3, <2>2 DEF AmountsForLiquidity
    <3>3. Weighed(b, deposit, S) \in Nat
      BY <3>2, WeighedInt
    <3> HIDE DEF out
    <3>4. QED
      BY <3>1, <3>2, <3>3
  <2>3. QED
    BY <2>1, <2>2
<1>4. ASSUME lower < current /\ current < upper PROVE Goal
  <2>0. /\ current \in Nat \ {0} /\ current <= upper /\ lower <= current /\ lowest <= current
        /\ ~(current <= lower)
    BY <1>4
  <2>1. CASE i = 1
    <3>1. out = Out0(current, upper, L)
      BY <1>4, <2>0, <2>1 DEF AmountsForLiquidity, Out0
    <3>2. \A g \in S : deposit[g] = IF v[g] = 0 THEN 0 ELSE In0(current, upper, v[g])
      BY <1>4, <2>0, <2>1 DEF AmountsForLiquidity, In0
    <3>3. \A g \in S : deposit[g] \in Nat
      <4>1. SUFFICES ASSUME NEW g \in S PROVE deposit[g] \in Nat
        OBVIOUS
      <4>2. v[g] \in Nat
        OBVIOUS
      <4>3. CASE v[g] = 0
        BY <3>2, <4>3
      <4>4. CASE v[g] # 0
        <5>1. current \in Nat \ {0} /\ upper \in Nat /\ current <= upper
          BY <1>1, <2>0
        <5>2. In0(current, upper, v[g]) \in Nat
          BY <1>2, <4>2, <5>1
        <5>3. QED
          BY <3>2, <4>4, <5>2
      <4>5. QED
        BY <4>3, <4>4
    <3> HIDE DEF out, L
    <3>4. Out0(current, upper, L) <= Weighed(b, deposit, S)
      BY <1>4, <2>0, <3>2, <3>3, Covered0 DEF L
    <3>5. out \in Nat
      BY <1>1, <1>2, <2>0, <3>1
    <3>6. QED
      BY <3>1, <3>3, <3>4, <3>5
  <2>2. CASE i = 2
    <3>1. out = Out1(lower, current, L)
      BY <1>4, <2>0, <2>2 DEF AmountsForLiquidity, Out1
    <3>2. \A g \in S : deposit[g] = IF v[g] = 0 THEN 0 ELSE In1(lower, current, v[g])
      BY <1>4, <2>0, <2>2 DEF AmountsForLiquidity, In1
    <3>3. \A g \in S : deposit[g] \in Nat
      <4>1. SUFFICES ASSUME NEW g \in S PROVE deposit[g] \in Nat
        OBVIOUS
      <4>2. v[g] \in Nat
        OBVIOUS
      <4>3. CASE v[g] = 0
        BY <3>2, <4>3
      <4>4. CASE v[g] # 0
        <5>1. lower \in Nat \ {0} /\ current \in Nat /\ lower <= current
          BY <1>1, <2>0
        <5>2. In1(lower, current, v[g]) \in Nat
          BY <1>2, <4>2, <5>1
        <5>3. QED
          BY <3>2, <4>4, <5>2
      <4>5. QED
        BY <4>3, <4>4
    <3> HIDE DEF out, L
    <3>4. Out1(lower, current, L) <= Weighed(b, deposit, S)
      BY <1>4, <3>2, <3>3, Covered1 DEF L
    <3>5. out \in Nat
      BY <1>1, <1>2, <2>0, <3>1
    <3>6. QED
      BY <3>1, <3>3, <3>4, <3>5
  <2>3. QED
    BY <2>1, <2>2
<1>5. ASSUME current >= upper PROVE Goal
  <2>0. ~(current <= lower) /\ ~(current < upper)
    BY <1>5
  <2>1. CASE i = 2
    <3>1. out = Out1(lower, upper, L)
      BY <2>0, <2>1 DEF AmountsForLiquidity, Out1
    <3>2. \A g \in S : deposit[g] = IF v[g] = 0 THEN 0 ELSE In1(lower, upper, v[g])
      BY <2>0, <2>1 DEF AmountsForLiquidity, In1
    <3>3. \A g \in S : deposit[g] \in Nat
      <4>1. SUFFICES ASSUME NEW g \in S PROVE deposit[g] \in Nat
        OBVIOUS
      <4>2. v[g] \in Nat
        OBVIOUS
      <4>3. CASE v[g] = 0
        BY <3>2, <4>3
      <4>4. CASE v[g] # 0
        <5>1. lower \in Nat \ {0} /\ upper \in Nat /\ lower <= upper
          BY <1>1
        <5>2. In1(lower, upper, v[g]) \in Nat
          BY <1>2, <4>2, <5>1
        <5>3. QED
          BY <3>2, <4>4, <5>2
      <4>5. QED
        BY <4>3, <4>4
    <3> HIDE DEF out, L
    <3>4. Out1(lower, upper, L) <= Weighed(b, deposit, S)
      BY <3>2, <3>3, Covered1 DEF L
    <3>5. out \in Nat
      BY <1>1, <1>2, <3>1
    <3>6. QED
      BY <3>1, <3>3, <3>4, <3>5
  <2>2. CASE i = 1
    <3>1. out = 0
      BY <2>0, <2>2 DEF AmountsForLiquidity
    <3>2. \A g \in S : deposit[g] = 0
      BY <2>0, <2>2 DEF AmountsForLiquidity
    <3>3. Weighed(b, deposit, S) \in Nat
      BY <3>2, WeighedInt
    <3> HIDE DEF out
    <3>4. QED
      BY <3>1, <3>2, <3>3
  <2>3. QED
    BY <2>1, <2>2
<1> HIDE DEF Goal
<1>6. Goal
  BY <1>3, <1>4, <1>5
<1>7. QED
  BY <1>6 DEF Goal, Worth

-----------------------------------------------------------------------------
(* The inductive invariant: the stores s and the bag b of all grants *)

GrantOK(s, g) ==
    /\ g \in [pool : DOMAIN s.pools, tickLower : Ticks, tickUpper : Ticks, liquidity : Nat]
    /\ g.tickLower < g.tickUpper

LiquidityOf(b) == [g \in DOMAIN b |-> g.liquidity]

\* The grants whose range contains the price of their pool.
GrantsInRange(s, b, p) ==
    {g \in DOMAIN b : /\ g.pool = p
                      /\ TickToPrice(g.tickLower) <= s.pools[p].sqrtPrice
                      /\ TickToPrice(g.tickUpper) > s.pools[p].sqrtPrice}

\* The liquidity that the genesis block gives a pool.
GenesisPools(asset, p) == {i \in DOMAIN asset.poolSubstore : GenesisPoolID(i - 1) = p}
GenesisLiquidity(asset, p) ==
    SumOver([i \in GenesisPools(asset, p) |-> asset.poolSubstore[i].liquidity], GenesisPools(asset, p))

LiquidityGranted(s, b, asset) ==
    /\ \A i \in DOMAIN asset.poolSubstore : GenesisPoolID(i - 1) \in DOMAIN s.pools
    /\ \A p \in DOMAIN s.pools :
         s.pools[p].liquidity
           = GenesisLiquidity(asset, p) + Weighed(b, LiquidityOf(b), GrantsInRange(s, b, p))

\* What was paid for the liquidity of a range, on one side: x is the two.
GrantsIn(b, p, range) == {g \in DOMAIN b : g.pool = p /\ <<g.tickLower, g.tickUpper>> = range}
DepositsFor(s, b, side) ==
    [g \in DOMAIN b |-> DepositOf(s.pools[g.pool], g.tickLower, g.tickUpper, g.liquidity)[side + 1]]
PaidFor(s, b, p, x) == Weighed(b, DepositsFor(s, b, x[2]), GrantsIn(b, p, x[1]))

RangesOf(p, token) == Ranges \X {side \in Sides : TokenOf(p, side) = token}
PaidIn(s, b, p, token) ==
    SumOver([x \in RangesOf(p, token) |-> PaidFor(s, b, p, x)], RangesOf(p, token))

\* The pools and the validators have all they have locked.
NothingAvailable(s) ==
    \A a \in Pools \cup {ValidatorIncentives}, token \in Tokens :
        s.ledger[<<a, token>>].available = 0

GrantsInv(s, b) ==
    /\ StoresOK(s)
    /\ \A p \in DOMAIN s.pools : s.pools[p].sqrtPrice \in Nat
    /\ GenesisPriced => \A p \in DOMAIN s.pools : s.pools[p].sqrtPrice # 0
    /\ NothingAvailable(s)
    /\ IsBag(b)
    /\ SumFunction(b) <= MaxCreated
    /\ \A g \in DOMAIN b : GrantOK(s, g)
    /\ \E asset \in GenesisAssets : LiquidityGranted(s, b, asset)
    /\ \A p \in DOMAIN s.pools, token \in Tokens :
         s.ledger[<<p, token>>].locked >= PaidIn(s, b, p, token)

PoolsEncoded(s) == \A p \in DOMAIN s.pools : s.pools[p] \in PoolType

PositionsInv == GrantsInv(state, created) /\ PoolsEncoded(state)

-----------------------------------------------------------------------------
(* Preservation *)

\* Weighed sums of equal values are equal.
LEMMA WeighedAgree ==
    ASSUME NEW b, NEW S, NEW v, NEW w, \A g \in S : v[g] = w[g]
    PROVE  Weighed(b, v, S) = Weighed(b, w, S)
<1>1. [g \in S |-> b[g] * v[g]] = [g \in S |-> b[g] * w[g]]
  OBVIOUS
<1>2. QED
  BY <1>1 DEF Weighed

\* A weighed sum over nothing is 0.
LEMMA WeighedNone == ASSUME NEW b, NEW v PROVE Weighed(b, v, {}) = 0
BY SumEmpty DEF Weighed

\* There are finitely many ranges of ticks.
LEMMA RangesFinite ==
    ASSUME NEW p, NEW token
    PROVE  IsFiniteSet(Ranges) /\ IsFiniteSet(RangesOf(p, token))
<1>1. IsFiniteSet(Ticks)
  BY FS_Interval, TickAssumption DEF Ticks
<1>2. IsFiniteSet(Ticks \X Ticks)
  BY <1>1, FS_Product
<1>3. IsFiniteSet(Ranges)
  BY <1>2, FS_Subset DEF Ranges
<1>4. IsFiniteSet(Sides)
  <2>1. Sides = 0..1
    BY DEF Sides
  <2>2. 0 \in Int /\ 1 \in Int
    OBVIOUS
  <2>3. IsFiniteSet(0..1)
    BY <2>2, FS_Interval
  <2>4. QED
    BY <2>1, <2>3
<1>5. IsFiniteSet({side \in Sides : TokenOf(p, side) = token})
  BY <1>4, FS_Subset
<1>6. QED
  BY <1>3, <1>5, FS_Product DEF RangesOf

\* A sum in which one term at most changes.
LEMMA SumBump ==
    ASSUME NEW S, IsFiniteSet(S), NEW f, NEW g, \A x \in S : f[x] \in Int /\ g[x] \in Int,
           NEW y, NEW a \in Int, \A x \in S : x # y => f[x] = g[x], y \in S => g[y] = f[y] + a
    PROVE  SumOver(g, S) = SumOver(f, S) + (IF y \in S THEN a ELSE 0)
<1>1. SumOver(f, S) \in Int
  BY SumInt
<1>2. CASE y \in S
  <2>1. SumOver(g, S) = SumOver(f, S) - f[y] + g[y]
    BY <1>2, SumChange
  <2>2. f[y] \in Int /\ g[y] = f[y] + a
    BY <1>2
  <2>3. QED
    BY <1>1, <1>2, <2>1, <2>2
<1>3. CASE y \notin S
  <2>1. SumOver(f, S) = SumOver(g, S)
    <3>1. \A x \in S : f[x] = g[x]
      BY <1>3
    <3>2. QED
      BY <3>1, SumSame
  <2>2. QED
    BY <1>1, <1>3, <2>1
<1>4. QED
  BY <1>2, <1>3

\* The amounts for a liquidity are natural numbers.
LEMMA AmountsNat ==
    ASSUME NEW current \in Nat, NEW lower \in Nat \ {0}, NEW upper \in Nat, lower < upper,
           NEW liquidity \in Nat
    PROVE  AmountsForLiquidity(current, lower, upper, liquidity, TRUE) \in Nat \X Nat
<1> DEFINE amounts == AmountsForLiquidity(current, lower, upper, liquidity, TRUE)
<1>1. ASSUME NEW lo \in Nat \ {0}, NEW hi \in Nat, lo <= hi
      PROVE  In0(lo, hi, liquidity) \in Nat /\ In1(lo, hi, liquidity) \in Nat
  <2>1. In0(lo, hi, liquidity) \in Nat
    BY <1>1, In0Nat
  <2>2. /\ liquidity * (hi - lo) \in Nat
        /\ In1(lo, hi, liquidity) = RoundUpQ96(liquidity * (hi - lo))
    BY <1>1, Amount1Rounded
  <2> HIDE DEF amounts
  <2>3. QED
    BY <2>1, <2>2, RoundUp
<1>2. lower <= upper
  OBVIOUS
<1>3. ASSUME current <= lower PROVE amounts \in Nat \X Nat
  <2>1. amounts = <<In0(lower, upper, liquidity), 0>>
    BY <1>3 DEF AmountsForLiquidity, In0
  <2>2. In0(lower, upper, liquidity) \in Nat
    BY <1>1, <1>2
  <2> HIDE DEF amounts
  <2>3. QED
    BY <2>1, <2>2
<1>4. ASSUME lower < current /\ current < upper PROVE amounts \in Nat \X Nat
  <2>1. amounts
          = <<In0(current, upper, liquidity), In1(lower, current, liquidity)>>
    <3>1. ~(current <= lower)
      BY <1>4
    <3>2. QED
      BY <1>4, <3>1 DEF AmountsForLiquidity, In0, In1
  <2>2. current \in Nat \ {0} /\ current <= upper /\ lower <= current
    BY <1>4
  <2>3. In0(current, upper, liquidity) \in Nat /\ In1(lower, current, liquidity) \in Nat
    BY <1>1, <2>2
  <2> HIDE DEF amounts
  <2>4. QED
    BY <2>1, <2>3
<1>5. ASSUME current >= upper PROVE amounts \in Nat \X Nat
  <2>1. amounts = <<0, In1(lower, upper, liquidity)>>
    <3>1. ~(current <= lower) /\ ~(current < upper)
      BY <1>5
    <3>2. QED
      BY <3>1 DEF AmountsForLiquidity, In1
  <2>2. In1(lower, upper, liquidity) \in Nat
    BY <1>1, <1>2
  <2> HIDE DEF amounts
  <2>3. QED
    BY <2>1, <2>2
<1>6. current <= lower \/ (lower < current /\ current < upper) \/ current >= upper
  OBVIOUS
<1> HIDE DEF amounts
<1>7. amounts \in Nat \X Nat
  BY <1>3, <1>4, <1>5, <1>6
<1>8. QED
  BY <1>7 DEF amounts

\* The deposit for a liquidity is two natural numbers.
LEMMA DepositNat ==
    ASSUME TableAscends, NEW pool, pool.sqrtPrice \in Nat, NEW lower \in Ticks, NEW upper \in Ticks,
           lower < upper, NEW liquidity \in Nat
    PROVE  DepositOf(pool, lower, upper, liquidity) \in Nat \X Nat
<1>1. TickToPrice(lower) \in Nat \ {0} /\ TickToPrice(upper) \in Nat
  BY DEF TableAscends
<1>2. TickToPrice(lower) < TickToPrice(upper)
  BY Ascending
<1>3. QED
  BY <1>1, <1>2, AmountsNat DEF DepositOf

\* A grant of liquidity in a pool of s that leaves the stores t and the bag c.
Granting(s, b, p, lower, upper, liquidity, amount0, amount1, t, c) ==
    LET added == IF InRange(s.pools[p].sqrtPrice, TickToPrice(lower), TickToPrice(upper))
                 THEN liquidity ELSE 0
    IN  /\ p \in DOMAIN s.pools /\ lower \in Ticks /\ upper \in Ticks /\ lower < upper
        /\ liquidity \in Nat /\ amount0 \in Nat /\ amount1 \in Nat
        /\ DepositOf(s.pools[p], lower, upper, liquidity) = <<amount0, amount1>>
        /\ StoresOK(t)
        /\ t.pools = [s.pools EXCEPT ![p] = [s.pools[p] EXCEPT !.liquidity = @ + added]]
        /\ \A key \in Addresses \X Tokens :
             t.ledger[key].locked = s.ledger[key].locked + DepositedTo(p, amount0, amount1, key)
        /\ \A key \in Addresses \X Tokens :
             key[1] \notin Accounts => t.ledger[key].available = s.ledger[key].available
        /\ c = OneMore(b, [pool |-> p, tickLower |-> lower, tickUpper |-> upper,
                           liquidity |-> liquidity])

\* A grant adds to the liquidity of its pool, and changes nothing else of any
\* pool.
LEMMA GrantKeepsPools ==
    ASSUME NEW s, StoresOK(s), NEW p \in DOMAIN s.pools, NEW added \in Nat, NEW t,
           t.pools = [s.pools EXCEPT ![p] = [s.pools[p] EXCEPT !.liquidity = @ + added]]
    PROVE  /\ DOMAIN t.pools = DOMAIN s.pools
           /\ \A q \in DOMAIN s.pools :
                /\ t.pools[q].sqrtPrice = s.pools[q].sqrtPrice
                /\ t.pools[q].liquidity = s.pools[q].liquidity + (IF q = p THEN added ELSE 0)
                /\ q # p => t.pools[q] = s.pools[q]
           /\ added = 0 => t.pools = s.pools
<1>1. DOMAIN t.pools = DOMAIN s.pools
  OBVIOUS
<1>2. ASSUME NEW q \in DOMAIN s.pools
      PROVE  /\ t.pools[q].sqrtPrice = s.pools[q].sqrtPrice
             /\ t.pools[q].liquidity = s.pools[q].liquidity + (IF q = p THEN added ELSE 0)
             /\ q # p => t.pools[q] = s.pools[q]
  <2>1. s.pools[q] \in PoolShape
    BY DEF StoresOK
  <2>2. s.pools[q].liquidity \in Int
    BY <2>1 DEF PoolShape
  <2>3. CASE q = p
    <3>1. t.pools[q] = [s.pools[p] EXCEPT !.liquidity = @ + added]
      BY <2>3
    <3>2. QED
      BY <2>1, <2>3, <3>1 DEF PoolShape
  <2>4. CASE q # p
    BY <2>2, <2>4
  <2>5. QED
    BY <2>3, <2>4
<1>3. added = 0 => t.pools = s.pools
  BY PoolsEqual
<1>4. QED
  BY <1>1, <1>2, <1>3

\* The liquidity of a pool in the genesis block is a natural number.
LEMMA GenesisNat ==
    ASSUME NEW asset \in GenesisAssets, NEW p
    PROVE  GenesisLiquidity(asset, p) \in Nat
<1> DEFINE S == GenesisPools(asset, p)
           f == [i \in S |-> asset.poolSubstore[i].liquidity]
<1>1. asset.poolSubstore \in Seq(PoolType)
  BY PositionsAssumption DEF GenesisDEX
<1>2. IsFiniteSet(DOMAIN asset.poolSubstore)
  <2>1. PICK n \in Nat : DOMAIN asset.poolSubstore = 1..n
    BY <1>1
  <2>2. QED
    BY <2>1, FS_Interval
<1>3. IsFiniteSet(S)
  BY <1>2, FS_Subset DEF GenesisPools
<1>4. \A i \in S : f[i] \in Nat
  <2>1. SUFFICES ASSUME NEW i \in S PROVE f[i] \in Nat
    OBVIOUS
  <2>2. asset.poolSubstore[i] \in PoolType
    BY <1>1 DEF GenesisPools
  <2>3. QED
    BY <2>2 DEF PoolType
<1> HIDE DEF S, f
<1>5. SumOver(f, S) \in Nat
  BY <1>3, <1>4, SumNat
<1>6. QED
  BY <1>5 DEF GenesisLiquidity, S, f

\* With a grant the liquidity of its pool stays what was granted around its
\* price.
LEMMA GrantAddsLiquidity ==
    ASSUME NEW s, NEW b, GrantsInv(s, b), NEW p, NEW lower, NEW upper, NEW liquidity,
           NEW amount0, NEW amount1, NEW t, NEW c,
           Granting(s, b, p, lower, upper, liquidity, amount0, amount1, t, c),
           NEW asset \in GenesisAssets, LiquidityGranted(s, b, asset)
    PROVE  LiquidityGranted(t, c, asset)
<1> DEFINE r == [pool |-> p, tickLower |-> lower, tickUpper |-> upper, liquidity |-> liquidity]
           in == InRange(s.pools[p].sqrtPrice, TickToPrice(lower), TickToPrice(upper))
           added == IF in THEN liquidity ELSE 0
<1>1. /\ p \in DOMAIN s.pools /\ liquidity \in Nat /\ added \in Nat /\ c = OneMore(b, r)
      /\ t.pools = [s.pools EXCEPT ![p] = [s.pools[p] EXCEPT !.liquidity = @ + added]]
      /\ r.pool = p /\ r.tickLower = lower /\ r.tickUpper = upper /\ r.liquidity = liquidity
  BY DEF Granting
<1>2. StoresOK(s) /\ IsBag(b) /\ \A g \in DOMAIN b : GrantOK(s, g)
  BY DEF GrantsInv
<1> HIDE DEF r
<1>3. IsBag(c) /\ DOMAIN c = DOMAIN b \cup {r}
  BY <1>1, <1>2, BagGrows
<1>4. /\ DOMAIN t.pools = DOMAIN s.pools
      /\ \A q \in DOMAIN s.pools :
           /\ t.pools[q].sqrtPrice = s.pools[q].sqrtPrice
           /\ t.pools[q].liquidity = s.pools[q].liquidity + (IF q = p THEN added ELSE 0)
  <2> HIDE DEF added
  <2>1. QED
    BY <1>1, <1>2, GrantKeepsPools
<1>5. \A g \in DOMAIN b : g.liquidity \in Nat
  BY <1>2 DEF GrantOK
<1> DEFINE v == LiquidityOf(b)
           w == LiquidityOf(c)
<1>6. /\ \A g \in DOMAIN b : v[g] = g.liquidity /\ w[g] = g.liquidity /\ w[g] \in Int
      /\ w[r] = liquidity /\ w[r] \in Int
  <2>1. \A g \in DOMAIN c : w[g] = g.liquidity
    BY DEF LiquidityOf
  <2>2. \A g \in DOMAIN b : v[g] = g.liquidity
    BY DEF LiquidityOf
  <2> HIDE DEF v, w
  <2>3. QED
    BY <1>1, <1>3, <1>5, <2>1, <2>2
<1> HIDE DEF v, w
<1>7. ASSUME NEW q \in DOMAIN s.pools
      PROVE  t.pools[q].liquidity
               = GenesisLiquidity(asset, q) + Weighed(c, w, GrantsInRange(t, c, q))
  <2> DEFINE S == GrantsInRange(s, b, q)
             T == GrantsInRange(t, c, q)
             G == GenesisLiquidity(asset, q)
  <2>1. S \in SUBSET DOMAIN b /\ s.pools[q].liquidity = G + Weighed(b, v, S)
    BY DEF LiquidityGranted, GrantsInRange, v
  <2>2. Weighed(b, v, S) = Weighed(b, w, S)
    <3> HIDE DEF S
    <3>1. QED
      BY <1>6, <2>1, WeighedAgree
  <2>3. Weighed(b, w, S) \in Int
    <3> HIDE DEF S
    <3>1. QED
      BY <1>2, <1>6, <2>1, WeighedInt
  <2>4. s.pools[q].liquidity \in Int
    BY <1>2 DEF StoresOK, PoolShape
  <2>5. CASE q = p /\ in
    <3>1. T = S \cup {r}
      BY <1>1, <1>3, <1>4, <2>5 DEF GrantsInRange, InRange
    <3>2. r \in DOMAIN b => r \in S
      BY <1>1, <2>5 DEF GrantsInRange, InRange
    <3> HIDE DEF S, T
    <3>3. Weighed(c, w, T) = Weighed(b, w, S) + w[r]
      <4>1. \A g \in T : w[g] \in Int
        BY <1>6, <2>1, <3>1
      <4>2. IsBag(b) /\ c = OneMore(b, r) /\ S \in SUBSET DOMAIN b
        BY <1>1, <1>2, <2>1
      <4>3. QED
        BY <3>1, <3>2, <4>1, <4>2, WeighedGrows
    <3>4. added = liquidity
      BY <2>5
    <3>5. t.pools[q].liquidity = s.pools[q].liquidity + liquidity
      BY <1>4, <2>5, <3>4
    <3> HIDE DEF G
    <3>6. G + Weighed(b, w, S) \in Int
      BY <2>1, <2>2, <2>4
    <3>7. t.pools[q].liquidity = (G + Weighed(b, w, S)) + w[r]
      BY <1>6, <2>1, <2>2, <3>5
    <3>8. G \in Int
      BY GenesisNat DEF G
    <3>9. QED
      BY <1>6, <2>3, <3>3, <3>7, <3>8 DEF G, T
  <2>6. CASE ~(q = p /\ in)
    <3>1. T = S /\ r \notin S
      BY <1>1, <1>3, <1>4, <2>6 DEF GrantsInRange, InRange
    <3> HIDE DEF S, T
    <3>2. Weighed(c, w, T) = Weighed(b, w, S)
      BY <1>1, <1>2, <1>6, <2>1, <3>1, WeighedStays
    <3>3. (IF q = p THEN added ELSE 0) = 0
      BY <2>6
    <3> HIDE DEF added
    <3>4. t.pools[q].liquidity = s.pools[q].liquidity
      BY <1>4, <2>4, <3>3
    <3>5. QED
      BY <2>1, <2>2, <3>2, <3>4 DEF T
  <2>7. QED
    BY <2>5, <2>6
<1>8. QED
  BY <1>4, <1>7 DEF LiquidityGranted, w

\* With a grant every pool has still locked what was paid in for all its
\* grants.
LEMMA GrantIsPaid ==
    ASSUME TableAscends, NEW s, NEW b, GrantsInv(s, b), NEW p, NEW lower, NEW upper, NEW liquidity,
           NEW amount0, NEW amount1, NEW t, NEW c,
           Granting(s, b, p, lower, upper, liquidity, amount0, amount1, t, c),
           NEW q \in DOMAIN s.pools, NEW token \in Tokens
    PROVE  t.ledger[<<q, token>>].locked >= PaidIn(t, c, q, token)
<1> DEFINE r == [pool |-> p, tickLower |-> lower, tickUpper |-> upper, liquidity |-> liquidity]
           rr == <<lower, upper>>
           S == RangesOf(q, token)
           f == [x \in S |-> PaidFor(s, b, q, x)]
           h == [x \in S |-> PaidFor(t, c, q, x)]
           amount(side) == IF side = 0 THEN amount0 ELSE amount1
<1>1. /\ p \in DOMAIN s.pools /\ liquidity \in Nat /\ c = OneMore(b, r)
      /\ lower \in Ticks /\ upper \in Ticks /\ lower < upper
      /\ amount0 \in Nat /\ amount1 \in Nat
      /\ DepositOf(s.pools[p], lower, upper, liquidity) = <<amount0, amount1>>
      /\ r.pool = p /\ r.tickLower = lower /\ r.tickUpper = upper /\ r.liquidity = liquidity
  BY DEF Granting
<1>2. StoresOK(s) /\ StoresOK(t) /\ IsBag(b) /\ \A g \in DOMAIN b : GrantOK(s, g)
  BY DEF GrantsInv, Granting
<1> HIDE DEF r
<1>3. IsBag(c) /\ DOMAIN c = DOMAIN b \cup {r}
  BY <1>1, <1>2, BagGrows
<1>4. \A x \in DOMAIN s.pools : t.pools[x].sqrtPrice = s.pools[x].sqrtPrice
  <2> DEFINE added == IF InRange(s.pools[p].sqrtPrice, TickToPrice(lower), TickToPrice(upper))
                      THEN liquidity ELSE 0
  <2>1. added \in Nat /\ t.pools = [s.pools EXCEPT ![p] = [s.pools[p] EXCEPT !.liquidity = @ + added]]
    BY DEF Granting
  <2> HIDE DEF added
  <2>2. QED
    BY <1>1, <1>2, <2>1, GrantKeepsPools
<1>5. ASSUME NEW side \in Sides
      PROVE  /\ \A g \in DOMAIN b : /\ DepositsFor(s, b, side)[g] = DepositsFor(t, c, side)[g]
                                    /\ DepositsFor(t, c, side)[g] \in Int
             /\ DepositsFor(t, c, side)[r] = amount(side) /\ amount(side) \in Int
  <2>1. ASSUME NEW g \in DOMAIN b
        PROVE  /\ DepositsFor(s, b, side)[g] = DepositsFor(t, c, side)[g]
               /\ DepositsFor(t, c, side)[g] \in Int
    <3> DEFINE deposit == DepositOf(s.pools[g.pool], g.tickLower, g.tickUpper, g.liquidity)
    <3>1. /\ g.pool \in DOMAIN s.pools /\ g.tickLower \in Ticks /\ g.tickUpper \in Ticks
          /\ g.tickLower < g.tickUpper /\ g.liquidity \in Nat
      BY <1>2 DEF GrantOK
    <3>2. DepositOf(t.pools[g.pool], g.tickLower, g.tickUpper, g.liquidity) = deposit
      BY <1>4, <3>1 DEF DepositOf
    <3>3. deposit \in Nat \X Nat
      BY <3>1, DepositNat DEF GrantsInv
    <3> HIDE DEF deposit
    <3>4. deposit[side + 1] \in Int
      BY <3>3 DEF Sides
    <3>5. g \in DOMAIN c
      BY <1>3
    <3>6. QED
      BY <3>2, <3>4, <3>5 DEF DepositsFor, deposit
  <2>2. DepositsFor(t, c, side)[r] = amount(side)
    <3>1. r \in DOMAIN c
      BY <1>3
    <3>2. DepositOf(t.pools[p], lower, upper, liquidity) = <<amount0, amount1>>
      BY <1>1, <1>4 DEF DepositOf
    <3>3. DepositsFor(t, c, side)[r] = <<amount0, amount1>>[side + 1]
      BY <1>1, <3>1, <3>2 DEF DepositsFor
    <3>4. QED
      BY <3>3 DEF Sides
  <2>3. QED
    BY <1>1, <2>1, <2>2
<1>6. ASSUME NEW x \in S
      PROVE  /\ f[x] \in Int /\ h[x] \in Int
             /\ h[x] = f[x] + (IF q = p /\ x[1] = rr THEN amount(x[2]) ELSE 0)
  <2> DEFINE V == DepositsFor(s, b, x[2])
             W == DepositsFor(t, c, x[2])
             G == GrantsIn(b, q, x[1])
             H == GrantsIn(c, q, x[1])
  <2>1. x[2] \in Sides
    BY DEF RangesOf
  <2>2. /\ \A g \in DOMAIN b : V[g] = W[g] /\ W[g] \in Int
        /\ W[r] = amount(x[2]) /\ amount(x[2]) \in Int
    BY <1>5, <2>1
  <2>3. f[x] = Weighed(b, V, G) /\ h[x] = Weighed(c, W, H)
    BY DEF PaidFor
  <2>4. G \in SUBSET DOMAIN b
    BY DEF GrantsIn
  <2> HIDE DEF V, W, f, h, amount
  <2>5. Weighed(b, V, G) = Weighed(b, W, G) /\ Weighed(b, W, G) \in Int
    <3> HIDE DEF G
    <3>1. QED
      BY <1>2, <2>2, <2>4, WeighedAgree, WeighedInt
  <2>6. CASE q = p /\ x[1] = rr
    <3>1. H = G \cup {r} /\ (r \in DOMAIN b => r \in G)
      BY <1>1, <1>3, <2>6 DEF GrantsIn
    <3> HIDE DEF G, H
    <3>2. Weighed(c, W, H) = Weighed(b, W, G) + W[r]
      <4>1. \A g \in H : W[g] \in Int
        BY <2>2, <2>4, <3>1
      <4>2. IsBag(b) /\ c = OneMore(b, r) /\ G \in SUBSET DOMAIN b
        BY <1>1, <1>2, <2>4
      <4>3. QED
        BY <3>1, <4>1, <4>2, WeighedGrows
    <3>3. QED
      BY <2>2, <2>3, <2>5, <2>6, <3>2
  <2>7. CASE ~(q = p /\ x[1] = rr)
    <3>1. H = G /\ r \notin G
      BY <1>1, <1>3, <2>7 DEF GrantsIn
    <3> HIDE DEF G, H
    <3>2. Weighed(c, W, H) = Weighed(b, W, G)
      BY <1>1, <1>2, <2>2, <2>4, <3>1, WeighedStays
    <3>3. QED
      BY <2>3, <2>5, <2>7, <3>2
  <2>8. QED
    BY <2>6, <2>7
<1>7. /\ <<q, token>> \in Addresses \X Tokens
      /\ s.ledger[<<q, token>>].locked \in Int
      /\ t.ledger[<<q, token>>].locked
           = s.ledger[<<q, token>>].locked + DepositedTo(p, amount0, amount1, <<q, token>>)
      /\ s.ledger[<<q, token>>].locked >= SumOver(f, S)
  <2>1. <<q, token>> \in Addresses \X Tokens
    BY <1>2 DEF StoresOK, Addresses
  <2>2. s.ledger \in LedgerType
    BY <1>2 DEF StoresOK
  <2>3. s.ledger[<<q, token>>].locked >= PaidIn(s, b, q, token)
    BY DEF GrantsInv
  <2>4. s.ledger[<<q, token>>].locked \in Int
    BY <2>1, <2>2 DEF LedgerType
  <2>5. QED
    BY <2>1, <2>3, <2>4 DEF Granting, PaidIn
<1>8. IsFiniteSet(S)
  BY RangesFinite
<1> DEFINE y0 == <<rr, 0>>
           y1 == <<rr, 1>>
           mid == [x \in S |-> IF x = y1 THEN f[x] ELSE h[x]]
<1>9. CASE q = p
  <2>1. rr \in Ranges
    BY <1>1 DEF Ranges
  <2>2. /\ y0 \in S <=> TokenOf(p, 0) = token
        /\ y1 \in S <=> TokenOf(p, 1) = token
    BY <1>9, <2>1 DEF RangesOf, Sides
  <2>3. \A x \in S : x[1] = rr => x = y0 \/ x = y1
    BY DEF RangesOf, Sides
  <2>4. /\ y0[1] = rr /\ y0[2] = 0 /\ y1[1] = rr /\ y1[2] = 1 /\ y0 # y1
    OBVIOUS
  <2>5. \A x \in S : mid[x] \in Int
    BY <1>6
  <2>6. \A x \in S : x # y0 => f[x] = mid[x]
    <3>1. SUFFICES ASSUME NEW x \in S, x # y0, x # y1 PROVE f[x] = h[x]
      OBVIOUS
    <3>2. x[1] # rr
      BY <2>3, <3>1
    <3> HIDE DEF f, h, amount
    <3>3. QED
      BY <1>6, <3>2
  <2>7. y0 \in S => mid[y0] = f[y0] + amount0
    <3>1. SUFFICES ASSUME y0 \in S PROVE h[y0] = f[y0] + amount0
      BY <2>4
    <3> HIDE DEF f, h, y0, y1, mid
    <3>2. h[y0] = f[y0] + amount(y0[2])
      BY <1>6, <1>9, <2>4, <3>1
    <3>3. QED
      BY <2>4, <3>2
  <2>8. \A x \in S : x # y1 => mid[x] = h[x]
    OBVIOUS
  <2>9. y1 \in S => h[y1] = mid[y1] + amount1
    <3>1. SUFFICES ASSUME y1 \in S PROVE h[y1] = f[y1] + amount1
      OBVIOUS
    <3> HIDE DEF f, h, y0, y1, mid
    <3>2. h[y1] = f[y1] + amount(y1[2])
      BY <1>6, <1>9, <2>4, <3>1
    <3>3. QED
      BY <2>4, <3>2
  <2> HIDE DEF f, h, mid, y0, y1, S
  <2>10. \A x \in S : f[x] \in Int /\ h[x] \in Int
    BY <1>6
  <2>11. SumOver(mid, S) = SumOver(f, S) + (IF y0 \in S THEN amount0 ELSE 0)
    <3>1. amount0 \in Int /\ \A x \in S : f[x] \in Int /\ mid[x] \in Int
      BY <1>1, <2>5, <2>10
    <3>2. QED
      BY <1>8, <2>6, <2>7, <3>1, SumBump
  <2>12. SumOver(h, S) = SumOver(mid, S) + (IF y1 \in S THEN amount1 ELSE 0)
    <3>1. amount1 \in Int /\ \A x \in S : mid[x] \in Int /\ h[x] \in Int
      BY <1>1, <2>5, <2>10
    <3>2. QED
      BY <1>8, <2>8, <2>9, <3>1, SumBump
  <2>13. DepositedTo(p, amount0, amount1, <<q, token>>)
           = (IF y0 \in S THEN amount0 ELSE 0) + (IF y1 \in S THEN amount1 ELSE 0)
    BY <1>9, <2>2 DEF DepositedTo
  <2>14. SumOver(f, S) \in Int /\ SumOver(h, S) \in Int
    BY <1>8, <2>10, SumInt
  <2> DEFINE d0 == IF y0 \in S THEN amount0 ELSE 0
             d1 == IF y1 \in S THEN amount1 ELSE 0
  <2>15. d0 \in Int /\ d1 \in Int
    BY <1>1
  <2>16. /\ SumOver(h, S) = SumOver(f, S) + d0 + d1
         /\ DepositedTo(p, amount0, amount1, <<q, token>>) = d0 + d1
    BY <2>11, <2>12, <2>13
  <2> HIDE DEF d0, d1
  <2>17. t.ledger[<<q, token>>].locked >= SumOver(h, S)
    BY <1>7, <2>14, <2>15, <2>16
  <2>18. QED
    BY <2>17 DEF PaidIn, h, S
<1>10. CASE q # p
  <2>1. DepositedTo(p, amount0, amount1, <<q, token>>) = 0
    BY <1>10 DEF DepositedTo
  <2> HIDE DEF f, h, S, amount
  <2>2. \A x \in S : f[x] = h[x]
    BY <1>6, <1>10
  <2>3. SumOver(f, S) = SumOver(h, S)
    BY <1>8, <2>2, SumSame
  <2>4. t.ledger[<<q, token>>].locked >= SumOver(h, S)
    BY <1>7, <2>1, <2>3
  <2>5. QED
    BY <2>4 DEF PaidIn, h, S
<1>11. QED
  BY <1>9, <1>10

\* The bag has one grant more.
LEMMA BagSize ==
    ASSUME NEW b, IsBag(b), NEW r, NEW c, c = OneMore(b, r)
    PROVE  SumFunction(c) = SumFunction(b) + 1 /\ SumFunction(b) \in Nat
<1> DEFINE one == [g \in DOMAIN c |-> 1]
           B == DOMAIN b
           C == DOMAIN c
<1>1. IsBag(c) /\ C = B \cup {r}
  BY BagGrows
<1>2. \A g \in C : one[g] = 1
  OBVIOUS
<1>3. B \in SUBSET DOMAIN b /\ (r \in DOMAIN b => r \in B) /\ r \in C /\ B \in SUBSET C
  BY <1>1
<1> HIDE DEF one
<1>4. Weighed(c, one, C) = Weighed(b, one, B) + one[r]
  <2>1. \A g \in C : one[g] \in Int
    BY <1>2
  <2> HIDE DEF B, C
  <2>2. QED
    BY <1>1, <1>3, <2>1, WeighedGrows
<1>5. ASSUME NEW d, IsBag(d), DOMAIN d \in SUBSET C
      PROVE  Weighed(d, one, DOMAIN d) = SumFunction(d)
  <2>1. \A g \in DOMAIN d : d[g] * one[g] = d[g]
    BY <1>2, <1>5 DEF IsBag
  <2>2. [g \in DOMAIN d |-> d[g] * one[g]] = d
    BY <1>5, <2>1 DEF IsBag
  <2>3. QED
    BY <2>2, SizeIsSum DEF Weighed
<1>6. Weighed(c, one, C) = SumFunction(c) /\ Weighed(b, one, B) = SumFunction(b)
  BY <1>1, <1>3, <1>5
<1>7. SumFunction(b) \in Nat
  <2>1. IsFiniteSet(DOMAIN b) /\ \A g \in DOMAIN b : b[g] \in Nat
    BY DEF IsBag
  <2>2. SumOver(b, DOMAIN b) \in Nat
    BY <2>1, SumNat
  <2>3. QED
    BY <2>2, SizeIsSum
<1>8. QED
  BY <1>2, <1>3, <1>4, <1>6, <1>7

\* A grant of liquidity preserves the invariant of the grants.
LEMMA GrantPreserves ==
    ASSUME TableAscends, NEW s, NEW b, GrantsInv(s, b), SumFunction(b) < MaxCreated,
           NEW p, NEW lower, NEW upper, NEW liquidity, NEW amount0, NEW amount1, NEW t, NEW c,
           Granting(s, b, p, lower, upper, liquidity, amount0, amount1, t, c)
    PROVE  GrantsInv(t, c)
<1> DEFINE r == [pool |-> p, tickLower |-> lower, tickUpper |-> upper, liquidity |-> liquidity]
           added == IF InRange(s.pools[p].sqrtPrice, TickToPrice(lower), TickToPrice(upper))
                    THEN liquidity ELSE 0
<1>1. /\ p \in DOMAIN s.pools /\ lower \in Ticks /\ upper \in Ticks /\ lower < upper
      /\ liquidity \in Nat /\ added \in Nat /\ StoresOK(s) /\ StoresOK(t)
      /\ IsBag(b) /\ c = OneMore(b, r)
      /\ t.pools = [s.pools EXCEPT ![p] = [s.pools[p] EXCEPT !.liquidity = @ + added]]
  BY DEF Granting, GrantsInv
<1>2. IsBag(c) /\ DOMAIN c = DOMAIN b \cup {r}
  <2> HIDE DEF r
  <2>1. QED
    BY <1>1, BagGrows
<1>3. /\ DOMAIN t.pools = DOMAIN s.pools
      /\ \A q \in DOMAIN s.pools : t.pools[q].sqrtPrice = s.pools[q].sqrtPrice
  <2> HIDE DEF added
  <2>1. QED
    BY <1>1, GrantKeepsPools
<1>4. /\ \A q \in DOMAIN t.pools : t.pools[q].sqrtPrice \in Nat
      /\ GenesisPriced => \A q \in DOMAIN t.pools : t.pools[q].sqrtPrice # 0
  BY <1>3 DEF GrantsInv
<1>10. NothingAvailable(t)
  <2>1. SUFFICES ASSUME NEW a \in Pools \cup {ValidatorIncentives}, NEW token \in Tokens
                 PROVE  t.ledger[<<a, token>>].available = 0
    BY DEF NothingAvailable
  <2>2. <<a, token>> \in Addresses \X Tokens /\ <<a, token>>[1] \notin Accounts
    BY PositionsAssumption DEF Addresses
  <2>3. s.ledger[<<a, token>>].available = 0
    BY DEF GrantsInv, NothingAvailable
  <2>4. QED
    BY <2>2, <2>3 DEF Granting
<1>5. SumFunction(c) <= MaxCreated
  <2>1. SumFunction(c) = SumFunction(b) + 1 /\ SumFunction(b) \in Nat
    <3> HIDE DEF r
    <3>1. QED
      BY <1>1, BagSize
  <2>2. MaxCreated \in Nat
    BY PositionsAssumption
  <2>3. QED
    BY <2>1, <2>2
<1>6. \A g \in DOMAIN c : GrantOK(t, g)
  <2>1. \A g \in DOMAIN b : GrantOK(s, g)
    BY DEF GrantsInv
  <2>2. GrantOK(s, r)
    BY <1>1 DEF GrantOK
  <2> HIDE DEF r
  <2>3. QED
    BY <1>2, <1>3, <2>1, <2>2 DEF GrantOK
<1>7. \E asset \in GenesisAssets : LiquidityGranted(t, c, asset)
  <2>1. PICK asset \in GenesisAssets : LiquidityGranted(s, b, asset)
    BY DEF GrantsInv
  <2>2. LiquidityGranted(t, c, asset)
    BY <2>1, GrantAddsLiquidity
  <2>3. QED
    BY <2>2
<1>8. \A q \in DOMAIN t.pools, token \in Tokens :
        t.ledger[<<q, token>>].locked >= PaidIn(t, c, q, token)
  BY <1>3, GrantIsPaid
<1> HIDE DEF r, added
<1>9. QED
  BY <1>1, <1>2, <1>4, <1>5, <1>6, <1>7, <1>8, <1>10 DEF GrantsInv

\* The stores with a new pool, which has no liquidity, ticks, positions or grants.
WithPool(s, p, pool) == [s EXCEPT !.pools = Put(p, pool, @)]

\* Creating a pool keeps the stores well-formed, and changes no other record.
LEMMA NewPoolStoresOK ==
    ASSUME NEW s, StoresOK(s), NEW p \in Pools, p \notin DOMAIN s.pools, NEW pool \in PoolShape,
           NEW t, t = WithPool(s, p, pool)
    PROVE  /\ StoresOK(t)
           /\ DOMAIN t.pools = DOMAIN s.pools \cup {p}
           /\ \A q \in DOMAIN s.pools : t.pools[q] = s.pools[q]
           /\ t.pools[p] = pool /\ t.ticks = s.ticks /\ t.positions = s.positions
           /\ t.positionCounter = s.positionCounter /\ t.ledger = s.ledger
<1>1. /\ IsState(t) /\ t.pools = Put(p, pool, s.pools) /\ t.ticks = s.ticks
      /\ t.positions = s.positions /\ t.positionCounter = s.positionCounter /\ t.ledger = s.ledger
  <2>1. IsState(s)
    BY DEF StoresOK
  <2>2. QED
    BY <2>1 DEF IsState, WithPool
<1>2. /\ DOMAIN t.pools = DOMAIN s.pools \cup {p}
      /\ \A q \in DOMAIN s.pools : t.pools[q] = s.pools[q]
      /\ t.pools[p] = pool
  BY <1>1 DEF Put
<1>3. DOMAIN t.pools \subseteq Pools
  BY <1>2 DEF StoresOK
<1>4. t.pools \in [DOMAIN t.pools -> PoolShape]
  <2>1. t.pools = [q \in DOMAIN t.pools |-> t.pools[q]]
    BY <1>1 DEF Put
  <2>2. \A q \in DOMAIN t.pools : t.pools[q] \in PoolShape
    BY <1>2 DEF StoresOK
  <2>3. QED
    BY <2>1, <2>2
<1>5. TicksFresh(t)
  <2>1. SUFFICES ASSUME NEW key \in DOMAIN t.ticks
                 PROVE  \E q \in DOMAIN t.pools, tick \in Ticks :
                          \/ key = TickKey(q, tick) /\ t.ticks[key] = EmptyTick(t.pools[q], tick)
                          \/ key = PriceKey(q, tick) /\ t.ticks[key] \in TickType
    BY DEF TicksFresh
  <2>2. PICK q \in DOMAIN s.pools, tick \in Ticks :
          \/ key = TickKey(q, tick) /\ s.ticks[key] = EmptyTick(s.pools[q], tick)
          \/ key = PriceKey(q, tick) /\ s.ticks[key] \in TickType
    BY <1>1, <2>1 DEF StoresOK, TicksFresh
  <2>3. q \in DOMAIN t.pools /\ t.pools[q] = s.pools[q]
    BY <1>2
  <2>4. QED
    BY <1>1, <2>2, <2>3
<1>6. \A id \in DOMAIN t.positions : PositionOK(t, id)
  <2>1. \A id \in DOMAIN s.positions : PositionOK(s, id)
    BY DEF StoresOK
  <2>2. QED
    BY <1>1, <1>2, <2>1 DEF PositionOK
<1>7. t.ledger \in LedgerType
  BY <1>1 DEF StoresOK
<1>8. QED
  BY <1>1, <1>2, <1>3, <1>4, <1>5, <1>6, <1>7 DEF StoresOK

\* For a pool without grants nothing was paid in.
LEMMA NothingPaid ==
    ASSUME NEW s, NEW b, NEW p, NEW token, \A g \in DOMAIN b : g.pool # p
    PROVE  PaidIn(s, b, p, token) = 0
<1> DEFINE S == RangesOf(p, token)
           f == [x \in S |-> PaidFor(s, b, p, x)]
<1>1. \A x \in S : f[x] = 0
  <2>1. SUFFICES ASSUME NEW x \in S PROVE PaidFor(s, b, p, x) = 0
    OBVIOUS
  <2>2. GrantsIn(b, p, x[1]) = {}
    BY DEF GrantsIn
  <2>3. QED
    BY <2>2, WeighedNone DEF PaidFor
<1>2. PaidIn(s, b, p, token) = SumOver(f, S)
  BY DEF PaidIn
<1>3. IsFiniteSet(S)
  BY RangesFinite
<1> HIDE DEF f, S
<1>4. \A x \in S : f[x] = IF x \in {} THEN 0 ELSE 0
  BY <1>1
<1>5. {} \in SUBSET S /\ 0 \in Int
  OBVIOUS
<1>6. SumOver(f, S) = 0 * Cardinality({})
  BY <1>3, <1>4, <1>5, SumConstant
<1>7. QED
  BY <1>2, <1>6, FS_EmptySet

\* Creating a pool without liquidity preserves the invariant of the grants.
LEMMA NewPoolPreserves ==
    ASSUME NEW s, NEW b, GrantsInv(s, b), NEW p \in Pools, p \notin DOMAIN s.pools,
           NEW pool \in PoolShape, pool.liquidity = 0, pool.sqrtPrice \in Nat \ {0},
           NEW t, t = WithPool(s, p, pool)
    PROVE  GrantsInv(t, b)
<1>1. /\ StoresOK(t)
      /\ DOMAIN t.pools = DOMAIN s.pools \cup {p}
      /\ \A q \in DOMAIN s.pools : t.pools[q] = s.pools[q]
      /\ t.pools[p] = pool /\ t.ledger = s.ledger
  <2>1. StoresOK(s)
    BY DEF GrantsInv
  <2>2. QED
    BY <2>1, NewPoolStoresOK
<1>2. /\ \A q \in DOMAIN t.pools : t.pools[q].sqrtPrice \in Nat
      /\ GenesisPriced => \A q \in DOMAIN t.pools : t.pools[q].sqrtPrice # 0
      /\ NothingAvailable(t)
  BY <1>1 DEF GrantsInv, NothingAvailable
<1>3. IsBag(b) /\ SumFunction(b) <= MaxCreated
  BY DEF GrantsInv
<1>4. \A g \in DOMAIN b : GrantOK(s, g) /\ g.pool \in DOMAIN s.pools /\ g.pool # p
  BY DEF GrantsInv, GrantOK
<1>5. \A g \in DOMAIN b : GrantOK(t, g)
  BY <1>1, <1>4 DEF GrantOK
<1>6. \E asset \in GenesisAssets : LiquidityGranted(t, b, asset)
  <2>1. PICK asset \in GenesisAssets : LiquidityGranted(s, b, asset)
    BY DEF GrantsInv
  <2>2. \A i \in DOMAIN asset.poolSubstore : GenesisPoolID(i - 1) \in DOMAIN s.pools
    BY <2>1 DEF LiquidityGranted
  <2>3. ASSUME NEW q \in DOMAIN s.pools
        PROVE  t.pools[q].liquidity
                 = GenesisLiquidity(asset, q) + Weighed(b, LiquidityOf(b), GrantsInRange(t, b, q))
    <3>1. GrantsInRange(t, b, q) = GrantsInRange(s, b, q)
      BY <1>1 DEF GrantsInRange
    <3>2. QED
      BY <1>1, <2>1, <3>1 DEF LiquidityGranted
  <2>4. GenesisLiquidity(asset, p) = 0
    <3>1. GenesisPools(asset, p) = {}
      BY <2>2 DEF GenesisPools
    <3>2. QED
      BY <3>1, SumEmpty DEF GenesisLiquidity
  <2>5. Weighed(b, LiquidityOf(b), GrantsInRange(t, b, p)) = 0
    <3>1. GrantsInRange(t, b, p) = {}
      BY <1>4 DEF GrantsInRange
    <3>2. QED
      BY <3>1, WeighedNone
  <2>6. t.pools[p].liquidity = GenesisLiquidity(asset, p) + Weighed(b, LiquidityOf(b), GrantsInRange(t, b, p))
    BY <1>1, <2>4, <2>5
  <2>7. LiquidityGranted(t, b, asset)
    BY <1>1, <2>2, <2>3, <2>6 DEF LiquidityGranted
  <2>8. QED
    BY <2>7
<1>7. ASSUME NEW q \in DOMAIN t.pools, NEW token \in Tokens
      PROVE  t.ledger[<<q, token>>].locked >= PaidIn(t, b, q, token)
  <2>1. CASE q \in DOMAIN s.pools
    <3>1. \A side : DepositsFor(t, b, side) = DepositsFor(s, b, side)
      <4>1. \A g \in DOMAIN b : t.pools[g.pool] = s.pools[g.pool]
        BY <1>1, <1>4
      <4>2. QED
        BY <4>1 DEF DepositsFor
    <3>2. PaidIn(t, b, q, token) = PaidIn(s, b, q, token)
      BY <3>1 DEF PaidIn, PaidFor
    <3>3. QED
      BY <1>1, <2>1, <3>2 DEF GrantsInv
  <2>2. CASE q = p
    <3>1. PaidIn(t, b, q, token) = 0
      BY <1>4, <2>2, NothingPaid
    <3>2. t.ledger[<<q, token>>].locked \in Nat
      <4>1. <<q, token>> \in Addresses \X Tokens
        BY <2>2 DEF Addresses
      <4>2. QED
        BY <1>1, <4>1 DEF StoresOK, LedgerType
    <3>3. QED
      BY <3>1, <3>2
  <2>3. QED
    BY <1>1, <2>1, <2>2
<1>8. QED
  BY <1>1, <1>2, <1>3, <1>5, <1>6, <1>7 DEF GrantsInv

-----------------------------------------------------------------------------
(* The initial states *)

\* Pools of the genesis block have IDs of their own.
LEMMA GenesisPoolIDs ==
    ASSUME NEW i \in Nat, NEW j \in Nat, GenesisPoolID(i) = GenesisPoolID(j)
    PROVE  i = j
<1>1. i * TokenByte = j * TokenByte
  BY DEF GenesisPoolID
<1>2. TokenByte \in Nat \ {0}
  BY StoresAssumption
<1>3. ASSUME NEW a \in Nat, NEW b \in Nat, NEW c \in Nat \ {0}, a < b PROVE a * c # b * c
  <2>1. a * c + c <= b * c
    <3>1. PICK d \in Nat : b = a + 1 + d
      <4>1. b - a - 1 \in Nat /\ b = a + 1 + (b - a - 1)
        BY <1>3
      <4>2. QED
        BY <4>1
    <3>2. b * c = a * c + c + d * c /\ d * c \in Nat
      BY <3>1
    <3>3. QED
      BY <3>2
  <2>2. a * c \in Nat /\ b * c \in Nat
    OBVIOUS
  <2>3. QED
    BY <2>1, <2>2
<1>4. i < j \/ j < i \/ i = j
  OBVIOUS
<1>5. QED
  BY <1>1, <1>2, <1>3, <1>4

\* Only pools are in a genesis block that passes verification.
LEMMA GenesisStores ==
    ASSUME NEW g \in GenesisAssets, VerifyGenesisBlock(g), NEW stores \in InitGenesisState(g)
    PROVE  /\ DOMAIN stores.ticks = {} /\ DOMAIN stores.positions = {}
           /\ DOMAIN stores.pools = {GenesisPoolID(i - 1) : i \in DOMAIN g.poolSubstore}
           /\ stores.pools = [p \in DOMAIN stores.pools |-> stores.pools[p]]
           /\ \A i \in DOMAIN g.poolSubstore : /\ g.poolSubstore[i] \in PoolType
                                               /\ i - 1 \in Nat
                                               /\ stores.pools[GenesisPoolID(i - 1)] = g.poolSubstore[i]
<1> DEFINE ps == g.poolSubstore
<1>1. /\ ps \in Seq(PoolType) /\ g.priceTickSubstore \in Seq(TickType)
      /\ g.positionSubstore \in Seq(PositionType(Accounts))
  BY PositionsAssumption DEF GenesisDEX
<1>2. PICK n \in Nat : DOMAIN ps = 1..n
  BY <1>1
<1>3. DOMAIN g.priceTickSubstore = {} /\ DOMAIN g.positionSubstore = {}
  <2>1. 0 \notin DOMAIN ps
    BY <1>2
  <2>2. IndexedPool(0) + 1 = 0
    BY DEF IndexedPool, NotANumber
  <2>3. \A i \in DOMAIN g.priceTickSubstore : IndexedPool(i - 1) + 1 \in DOMAIN ps
    BY DEF VerifyGenesisBlock
  <2>4. \A i \in DOMAIN g.positionSubstore : IndexedPool(i - 1) + 1 \in DOMAIN ps
    BY DEF VerifyGenesisBlock
  <2>5. QED
    BY <2>1, <2>3, <2>4 DEF IndexedPool, NotANumber
<1>4. /\ stores.pools = [k \in {GenesisPoolID(i - 1) : i \in DOMAIN ps} |->
                           ps[CHOOSE i \in DOMAIN ps : GenesisPoolID(i - 1) = k]]
      /\ DOMAIN stores.ticks = {GenesisPoolID(i - 1) : i \in DOMAIN g.priceTickSubstore}
      /\ DOMAIN stores.positions = {<<GenesisPoolID(i - 1), 0>> : i \in DOMAIN g.positionSubstore}
  <2> DEFINE pools == [k \in {GenesisPoolID(i - 1) : i \in DOMAIN ps} |->
                         ps[CHOOSE i \in DOMAIN ps : GenesisPoolID(i - 1) = k]]
             ticks == [k \in {GenesisPoolID(i - 1) : i \in DOMAIN g.priceTickSubstore} |->
                         g.priceTickSubstore[CHOOSE i \in DOMAIN g.priceTickSubstore :
                                               GenesisPoolID(i - 1) = k]]
             positions == [k \in {<<GenesisPoolID(i - 1), 0>> : i \in DOMAIN g.positionSubstore} |->
                             g.positionSubstore[CHOOSE i \in DOMAIN g.positionSubstore :
                                                  <<GenesisPoolID(i - 1), 0>> = k]]
  <2>1. stores \in {[pools |-> pools, ticks |-> ticks, positions |-> positions,
                     positionCounter |-> g.positionCounter]}
    BY Zenon DEF InitGenesisState
  <2>2. stores.pools = pools /\ stores.ticks = ticks /\ stores.positions = positions
    <3> HIDE DEF pools, ticks, positions
    <3>1. QED
      BY <2>1
  <2>3. QED
    BY <2>2
<1>5. \A i \in DOMAIN ps : ps[i] \in PoolType /\ i - 1 \in Nat
  BY <1>1, <1>2
<1>6. ASSUME NEW i \in DOMAIN ps PROVE stores.pools[GenesisPoolID(i - 1)] = ps[i]
  <2> DEFINE k == GenesisPoolID(i - 1)
             j == CHOOSE j \in DOMAIN ps : GenesisPoolID(j - 1) = k
  <2>1. j \in DOMAIN ps /\ GenesisPoolID(j - 1) = k
    OBVIOUS
  <2>2. stores.pools[k] = ps[j]
    BY <1>4
  <2> HIDE DEF j
  <2>3. j - 1 = i - 1
    BY <1>5, <2>1, GenesisPoolIDs
  <2>4. j = i
    BY <1>2, <2>1, <2>3
  <2>5. QED
    BY <2>2, <2>4
<1>7. QED
  BY <1>3, <1>4, <1>5, <1>6

\* After genesis a pool's liquidity is that of the genesis block.
LEMMA GenesisGranted ==
    ASSUME NEW g \in GenesisAssets, VerifyGenesisBlock(g), NEW stores \in InitGenesisState(g),
           NEW s, s.pools = stores.pools
    PROVE  LiquidityGranted(s, EmptyBag, g)
<1>1. /\ DOMAIN stores.pools = {GenesisPoolID(i - 1) : i \in DOMAIN g.poolSubstore}
      /\ \A i \in DOMAIN g.poolSubstore : /\ g.poolSubstore[i] \in PoolType
                                          /\ i - 1 \in Nat
                                          /\ stores.pools[GenesisPoolID(i - 1)] = g.poolSubstore[i]
  BY GenesisStores
<1>2. ASSUME NEW p \in DOMAIN s.pools
      PROVE  s.pools[p].liquidity
               = GenesisLiquidity(g, p)
                   + Weighed(EmptyBag, LiquidityOf(EmptyBag), GrantsInRange(s, EmptyBag, p))
  <2>1. PICK i \in DOMAIN g.poolSubstore : p = GenesisPoolID(i - 1)
    BY <1>1
  <2>2. GenesisPools(g, p) = {i}
    <3>1. \A j \in DOMAIN g.poolSubstore : GenesisPoolID(j - 1) = p => j = i
      <4>1. SUFFICES ASSUME NEW j \in DOMAIN g.poolSubstore, GenesisPoolID(j - 1) = p PROVE j = i
        OBVIOUS
      <4>2. j - 1 = i - 1
        BY <1>1, <2>1, <4>1, GenesisPoolIDs
      <4>3. g.poolSubstore \in Seq(PoolType)
        BY PositionsAssumption DEF GenesisDEX
      <4>4. i \in Int /\ j \in Int
        BY <4>3
      <4>5. QED
        BY <4>2, <4>4
    <3>2. QED
      BY <2>1, <3>1 DEF GenesisPools
  <2> DEFINE f == [k \in {i} |-> g.poolSubstore[k].liquidity]
  <2>3. f[i] = s.pools[p].liquidity /\ s.pools[p].liquidity \in Nat
    BY <1>1, <2>1 DEF PoolType
  <2>4. GenesisLiquidity(g, p) = SumOver(f, {i})
    BY <2>2 DEF GenesisLiquidity
  <2> HIDE DEF f
  <2>5. SumOver(f, {i}) = f[i] + SumOver(f, {i} \ {i})
    <3>1. IsFiniteSet({i})
      BY FS_Singleton
    <3>2. \A x \in {i} : f[x] \in Int
      BY <2>3
    <3>3. QED
      BY <3>1, <3>2, SumRemove
  <2>6. {i} \ {i} = {}
    OBVIOUS
  <2>7. GenesisLiquidity(g, p) = s.pools[p].liquidity
    BY <2>3, <2>4, <2>5, <2>6, SumEmpty
  <2>8. GrantsInRange(s, EmptyBag, p) = {}
    BY DEF GrantsInRange, EmptyBag, SetToBag
  <2>9. Weighed(EmptyBag, LiquidityOf(EmptyBag), GrantsInRange(s, EmptyBag, p)) = 0
    BY <2>8, WeighedNone
  <2>10. QED
    BY <2>3, <2>7, <2>9
<1>3. \A i \in DOMAIN g.poolSubstore : GenesisPoolID(i - 1) \in DOMAIN s.pools
  BY <1>1
<1>4. QED
  BY <1>2, <1>3 DEF LiquidityGranted

\* The genesis block leaves the invariant true.
LEMMA InitPositionsInv == Init => PositionsInv
<1> SUFFICES ASSUME Init PROVE PositionsInv
  OBVIOUS
<1>1. PICK g \in GenesisAssets :
        VerifyGenesisBlock(g) /\ \E stores \in InitGenesisState(g) :
          state = [pools |-> stores.pools, ticks |-> stores.ticks,
                   positions |-> stores.positions, positionCounter |-> stores.positionCounter,
                   ledger |-> [key \in Addresses \X Tokens |->
                       [available |-> IF key[1] \in Accounts THEN Balance ELSE 0, locked |-> 0]]]
  BY DEF Init
<1>2. PICK stores \in InitGenesisState(g) :
          state = [pools |-> stores.pools, ticks |-> stores.ticks,
                   positions |-> stores.positions, positionCounter |-> stores.positionCounter,
                   ledger |-> [key \in Addresses \X Tokens |->
                       [available |-> IF key[1] \in Accounts THEN Balance ELSE 0, locked |-> 0]]]
  BY <1>1
<1>3. /\ DOMAIN stores.ticks = {} /\ DOMAIN stores.positions = {}
      /\ DOMAIN stores.pools = {GenesisPoolID(i - 1) : i \in DOMAIN g.poolSubstore}
      /\ stores.pools = [p \in DOMAIN stores.pools |-> stores.pools[p]]
      /\ \A i \in DOMAIN g.poolSubstore : /\ g.poolSubstore[i] \in PoolType
                                          /\ i - 1 \in Nat
                                          /\ stores.pools[GenesisPoolID(i - 1)] = g.poolSubstore[i]
  BY <1>1, GenesisStores
<1>4. /\ IsState(state) /\ state.pools = stores.pools /\ state.ticks = stores.ticks
      /\ state.positions = stores.positions
      /\ state.ledger = [key \in Addresses \X Tokens |->
                          [available |-> IF key[1] \in Accounts THEN Balance ELSE 0, locked |-> 0]]
  BY <1>2 DEF IsState
<1>5. \A p \in DOMAIN state.pools : state.pools[p] \in PoolType
  BY <1>3, <1>4
<1>6. PoolType \subseteq PoolShape /\ \A pool \in PoolType : pool.sqrtPrice \in Nat
  BY LiquidityBounds, OneSquare DEF PoolType, PoolShape
<1>7. StoresOK(state)
  <2>1. DOMAIN state.pools \subseteq Pools
    <3> DEFINE ids(h) == {GenesisPoolID(i - 1) : i \in DOMAIN h.poolSubstore}
    <3>1. ids(g) \subseteq Pools
      <4>1. ids(g) \in {ids(h) : h \in GenesisAssets}
        OBVIOUS
      <4>2. UNION {ids(h) : h \in GenesisAssets} \subseteq Pools
        BY Zenon DEF Pools
      <4> HIDE DEF ids
      <4>3. QED
        BY <4>1, <4>2
    <3>2. QED
      BY <1>3, <1>4, <3>1
  <2>2. state.pools \in [DOMAIN state.pools -> PoolShape]
    BY <1>3, <1>4, <1>5, <1>6
  <2>3. TicksFresh(state)
    BY <1>3, <1>4 DEF TicksFresh
  <2>4. state.ledger \in LedgerType
    BY <1>4, PositionsAssumption DEF LedgerType
  <2>5. QED
    BY <1>3, <1>4, <2>1, <2>2, <2>3, <2>4 DEF StoresOK
<1>8. created = EmptyBag /\ DOMAIN created = {}
  BY DEF Init, EmptyBag, SetToBag
<1>9. IsBag(created)
  BY <1>8, FS_EmptySet DEF IsBag, EmptyBag, SetToBag
<1>10. SumFunction(created) <= MaxCreated
  <2>1. SumFunction(created) = 0
    BY <1>8, SizeIsSum, SumEmpty
  <2>2. QED
    BY <2>1, PositionsAssumption
<1>11. LiquidityGranted(state, created, g)
  BY <1>1, <1>4, <1>8, GenesisGranted
<1>12. ASSUME NEW p \in DOMAIN state.pools, NEW token \in Tokens
       PROVE  state.ledger[<<p, token>>].locked >= PaidIn(state, created, p, token)
  <2>1. PaidIn(state, created, p, token) = 0
    BY <1>8, NothingPaid
  <2>2. <<p, token>> \in Addresses \X Tokens
    BY <1>7 DEF StoresOK, Addresses
  <2>3. state.ledger[<<p, token>>].locked = 0
    BY <1>4, <2>2
  <2>4. QED
    BY <2>1, <2>3
<1>15. GenesisPriced => \A p \in DOMAIN state.pools : state.pools[p].sqrtPrice # 0
  BY <1>3, <1>4 DEF GenesisPriced
<1>16. NothingAvailable(state)
  <2>1. SUFFICES ASSUME NEW a \in Pools \cup {ValidatorIncentives}, NEW token \in Tokens
                 PROVE  state.ledger[<<a, token>>].available = 0
    BY DEF NothingAvailable
  <2>2. <<a, token>> \in Addresses \X Tokens /\ <<a, token>>[1] \notin Accounts
    BY PositionsAssumption DEF Addresses
  <2>3. QED
    BY <1>4, <2>2
<1>13. GrantsInv(state, created)
  BY <1>5, <1>6, <1>7, <1>8, <1>9, <1>10, <1>11, <1>12, <1>15, <1>16 DEF GrantsInv
<1>14. QED
  BY <1>5, <1>13 DEF PositionsInv, PoolsEncoded

-----------------------------------------------------------------------------
(* The steps *)

\* The bag that a command leaves.
GrantOf(p, lower, upper, liquidity) ==
    [pool |-> p, tickLower |-> lower, tickUpper |-> upper, liquidity |-> liquidity]

\* Whatever a command grants in a pool of s.
LEMMA CreatePreserves ==
    ASSUME TableAscends, NEW s, NEW b, GrantsInv(s, b), SumFunction(b) < MaxCreated,
           NEW sender \in Accounts, NEW p \in DOMAIN s.pools, NEW lower \in Ticks, NEW upper \in Ticks,
           lower < upper, NEW liquidity \in Nat,
           NEW out \in UpdatePosition(WithPosition(s, sender, p, lower, upper),
                                      NewPositionID(s, p), liquidity),
           NEW c, c = b (+) SetToBag({GrantOf(p, lower, upper, liquidity)})
    PROVE  /\ GrantsInv(out.state, c)
           /\ DOMAIN out.state.pools = DOMAIN s.pools
           /\ \A q \in DOMAIN s.pools : q # p => out.state.pools[q] = s.pools[q]
           /\ liquidity > 0 => out.state.pools[p] \in PoolType
           /\ liquidity = 0 => out.state.pools = s.pools /\ out.amounts = <<0, 0>>
<1> DEFINE t == out.state
           in == InRange(s.pools[p].sqrtPrice, TickToPrice(lower), TickToPrice(upper))
           added == IF in THEN liquidity ELSE 0
           deposit == DepositOf(s.pools[p], lower, upper, liquidity)
           amount0 == deposit[1]
           amount1 == deposit[2]
<1>1. StoresOK(s) /\ s.pools[p].sqrtPrice \in Nat
  BY DEF GrantsInv
<1>2. amount0 \in Nat /\ amount1 \in Nat /\ deposit = <<amount0, amount1>>
  <2>1. deposit \in Nat \X Nat
    <3> DEFINE pool == s.pools[p]
    <3>1. pool.sqrtPrice \in Nat
      BY <1>1
    <3> HIDE DEF pool
    <3>2. DepositOf(pool, lower, upper, liquidity) \in Nat \X Nat
      BY <3>1, DepositNat
    <3>3. QED
      BY <3>2 DEF pool
  <2> HIDE DEF deposit
  <2>2. QED
    BY <2>1
<1>3. liquidity = 0 => deposit = <<0, 0>>
  BY DEF DepositOf
<1> HIDE DEF amount0, amount1
<1>4. /\ StoresOK(t)
      /\ out.amounts = <<amount0, amount1>>
      /\ t.pools = [s.pools EXCEPT ![p] = [s.pools[p] EXCEPT !.liquidity = @ + added]]
      /\ liquidity > 0 => t.pools[p] \in PoolType
      /\ \A key \in Addresses \X Tokens :
           t.ledger[key].locked = s.ledger[key].locked + DepositedTo(p, amount0, amount1, key)
      /\ \A key \in Addresses \X Tokens :
           key[1] # sender => t.ledger[key].available = s.ledger[key].available
  BY <1>1, <1>2, Outcome
<1>5. c = OneMore(b, GrantOf(p, lower, upper, liquidity))
  BY BagUnionIsOneMore
<1>6. Granting(s, b, p, lower, upper, liquidity, amount0, amount1, t, c)
  BY <1>2, <1>4, <1>5 DEF Granting, GrantOf
<1> HIDE DEF t
<1>7. GrantsInv(t, c)
  BY <1>6, GrantPreserves
<1>8. /\ DOMAIN t.pools = DOMAIN s.pools
      /\ \A q \in DOMAIN s.pools : q # p => t.pools[q] = s.pools[q]
      /\ added = 0 => t.pools = s.pools
  <2>1. added \in Nat
    OBVIOUS
  <2> HIDE DEF added
  <2>2. QED
    BY <1>1, <1>4, <2>1, GrantKeepsPools
<1>9. liquidity = 0 => added = 0
  OBVIOUS
<1>10. liquidity = 0 => out.amounts = <<0, 0>>
  BY <1>2, <1>3, <1>4
<1> HIDE DEF added
<1>11. QED
  BY <1>4, <1>7, <1>8, <1>9, <1>10 DEF t

\* The liquidity for two amounts is a natural number.
LEMMA LiquidityIsNat ==
    ASSUME NEW current \in Nat, NEW lower \in Nat, NEW upper \in Nat, lower < upper,
           NEW amount0 \in Nat, NEW amount1 \in Nat
    PROVE  GetLiquidityForAmounts(current, lower, upper, amount0, amount1) \in Nat
<1> DEFINE Goal == GetLiquidityForAmounts(current, lower, upper, amount0, amount1) \in Nat
<1>1. ASSUME current <= lower PROVE Goal
  <2>1. GetLiquidityForAmount0(lower, upper, amount0) \in Nat
    BY LiquidityNat
  <2>2. QED
    BY <1>1, <2>1 DEF GetLiquidityForAmounts
<1>2. ASSUME lower < current, current < upper PROVE Goal
  <2>1. /\ GetLiquidityForAmount0(current, upper, amount0) \in Nat
        /\ GetLiquidityForAmount1(lower, current, amount1) \in Nat
    BY <1>2, LiquidityNat
  <2>2. ~(current <= lower)
    BY <1>2
  <2>3. QED
    BY <1>2, <2>1, <2>2 DEF GetLiquidityForAmounts, Lesser
<1>3. ASSUME current >= upper PROVE Goal
  <2>1. GetLiquidityForAmount1(lower, upper, amount1) \in Nat
    BY LiquidityNat
  <2>2. ~(current <= lower) /\ ~(current < upper)
    BY <1>3
  <2>3. QED
    BY <2>1, <2>2 DEF GetLiquidityForAmounts
<1>4. current <= lower \/ (lower < current /\ current < upper) \/ current >= upper
  OBVIOUS
<1> HIDE DEF Goal
<1>5. Goal
  BY <1>1, <1>2, <1>3, <1>4
<1>6. QED
  BY <1>5 DEF Goal

\* createPosition preserves the invariant of the positions.
LEMMA CreatePositionPreserves ==
    ASSUME TableAscends, PositionsInv, NEW sender \in Accounts, NEW poolID \in Pools,
           NEW lower \in UserTicks, NEW upper \in UserTicks,
           NEW amount0 \in Amounts, NEW amount1 \in Amounts,
           CreatePosition(sender, poolID, lower, upper, amount0, amount1)
    PROVE  PositionsInv'
<1> DEFINE current == RoundDownQ96(state.pools[poolID].sqrtPrice)
           liquidity == GetLiquidityForAmounts(current, TickToPrice(lower), TickToPrice(upper),
                                               amount0, amount1)
<1>1. /\ SumFunction(created) < MaxCreated
      /\ poolID \in DOMAIN state.pools
      /\ lower < upper
      /\ created' = created (+) SetToBag({GrantOf(poolID, lower, upper, liquidity)})
  BY DEF CreatePosition, ValidTicks, Created, GrantOf
<1>2. PICK out \in UpdatePosition(WithPosition(state, sender, poolID, lower, upper),
                                  NewPositionID(state, poolID), liquidity) : state' = out.state
  BY DEF CreatePosition
<1>3. GrantsInv(state, created) /\ PoolsEncoded(state)
  BY DEF PositionsInv
<1>4. /\ lower \in Ticks /\ upper \in Ticks /\ amount0 \in Nat /\ amount1 \in Nat
      /\ TickToPrice(lower) \in Nat /\ TickToPrice(upper) \in Nat
      /\ TickToPrice(lower) < TickToPrice(upper)
  <2>1. lower \in Ticks /\ upper \in Ticks /\ amount0 \in Nat /\ amount1 \in Nat
    BY PositionsAssumption
  <2>2. QED
    BY <1>1, <2>1, Ascending DEF TableAscends
<1>5. current \in Nat
  <2>1. state.pools[poolID].sqrtPrice \in Nat
    BY <1>1, <1>3 DEF GrantsInv
  <2>2. QED
    BY <2>1, RoundDown
<1> HIDE DEF current
<1>6. liquidity \in Nat
  BY <1>4, <1>5, LiquidityIsNat
<1> HIDE DEF liquidity
<1>7. /\ GrantsInv(out.state, created')
      /\ DOMAIN out.state.pools = DOMAIN state.pools
      /\ \A q \in DOMAIN state.pools : q # poolID => out.state.pools[q] = state.pools[q]
      /\ liquidity > 0 => out.state.pools[poolID] \in PoolType
      /\ liquidity = 0 => out.state.pools = state.pools
  BY <1>1, <1>3, <1>4, <1>6, CreatePreserves
<1>8. PoolsEncoded(out.state)
  <2>1. \A q \in DOMAIN state.pools : state.pools[q] \in PoolType
    BY <1>3 DEF PoolsEncoded
  <2>2. CASE liquidity = 0
    BY <1>7, <2>1, <2>2 DEF PoolsEncoded
  <2>3. CASE liquidity > 0
    BY <1>7, <2>1, <2>3 DEF PoolsEncoded
  <2>4. QED
    BY <1>6, <2>2, <2>3
<1>9. GrantsInv(state', created') /\ PoolsEncoded(state')
  BY <1>2, <1>7, <1>8
<1>10. QED
  BY <1>9 DEF PositionsInv, PoolsEncoded

\* createPool preserves the invariant of the positions.
LEMMA CreatePoolPreserves ==
    ASSUME TableAscends, PositionsInv, NEW sender \in Accounts, NEW pair \in Pairs,
           NEW feeTier \in DOMAIN TickSpacing, NEW tick \in UserTicks,
           NEW lower \in UserTicks, NEW upper \in UserTicks,
           NEW amount0 \in Amounts, NEW amount1 \in Amounts,
           CreatePool(sender, pair, feeTier, tick, lower, upper, amount0, amount1)
    PROVE  PositionsInv'
<1> DEFINE pool == [liquidity |-> 0, sqrtPrice |-> TickToPrice(tick),
                    tickSpacing |-> TickSpacing[feeTier],
                    feeGrowthGlobal |-> [side \in Sides |-> 0]]
           liquidity == GetLiquidityForAmounts(pool.sqrtPrice, TickToPrice(lower),
                                               TickToPrice(upper), amount0, amount1)
           s(p) == WithPool(state, p, pool)
<1>1. SumFunction(created) < MaxCreated /\ lower < upper
  BY DEF CreatePool, ValidTicks
<1>2. PICK p \in PoolIDs(pair[1], pair[2], feeTier) \ DOMAIN state.pools :
        /\ \E out \in UpdatePosition(WithPosition(s(p), sender, p, lower, upper),
                                     NewPositionID(state, p), liquidity) :
              /\ out.amounts[1] \in 1..amount0
              /\ out.amounts[2] \in 1..amount1
              /\ state' = out.state
        /\ created' = created (+) SetToBag({GrantOf(p, lower, upper, liquidity)})
  BY DEF CreatePool, Created, GrantOf, WithPool
<1>3. PICK out \in UpdatePosition(WithPosition(s(p), sender, p, lower, upper),
                                  NewPositionID(state, p), liquidity) :
              /\ out.amounts[1] \in 1..amount0
              /\ state' = out.state
  BY <1>2
<1>4. GrantsInv(state, created) /\ PoolsEncoded(state)
  BY DEF PositionsInv
<1>5. /\ lower \in Ticks /\ upper \in Ticks /\ tick \in Ticks /\ amount0 \in Nat /\ amount1 \in Nat
      /\ TickToPrice(lower) \in Nat /\ TickToPrice(upper) \in Nat /\ TickToPrice(tick) \in Nat \ {0}
      /\ TickToPrice(lower) < TickToPrice(upper)
  <2>1. /\ lower \in Ticks /\ upper \in Ticks /\ tick \in Ticks
        /\ amount0 \in Nat /\ amount1 \in Nat
    BY PositionsAssumption
  <2>2. QED
    BY <1>1, <2>1, Ascending DEF TableAscends
<1>6. p \in Pools /\ p \notin DOMAIN state.pools
  BY <1>2 DEF Pools, UserPools
<1>7. pool \in PoolShape /\ pool.liquidity = 0 /\ pool.sqrtPrice = TickToPrice(tick)
  <2>1. TickSpacing[feeTier] \in Nat
    BY PositionsAssumption
  <2>2. [side \in Sides |-> 0] \in [Sides -> 0..(One * One - 1)]
    BY OneSquare
  <2>3. QED
    BY <1>5, <2>1, <2>2 DEF PoolShape
<1>8. liquidity \in Nat
  <2>1. pool.sqrtPrice \in Nat
    BY <1>5, <1>7
  <2> HIDE DEF pool
  <2>2. QED
    BY <1>5, <2>1, LiquidityIsNat
<1> HIDE DEF pool, liquidity
<1>9. GrantsInv(s(p), created)
  BY <1>4, <1>5, <1>6, <1>7, NewPoolPreserves
<1>10. /\ DOMAIN s(p).pools = DOMAIN state.pools \cup {p}
       /\ \A q \in DOMAIN state.pools : s(p).pools[q] = state.pools[q]
       /\ s(p).positionCounter = state.positionCounter
  <2>1. StoresOK(state)
    BY <1>4 DEF GrantsInv
  <2>2. QED
    BY <1>6, <1>7, <2>1, NewPoolStoresOK
<1> HIDE DEF s
<1>11. out \in UpdatePosition(WithPosition(s(p), sender, p, lower, upper),
                              NewPositionID(s(p), p), liquidity)
  BY <1>3, <1>10 DEF NewPositionID
<1>12. /\ GrantsInv(out.state, created')
       /\ DOMAIN out.state.pools = DOMAIN s(p).pools
       /\ \A q \in DOMAIN s(p).pools : q # p => out.state.pools[q] = s(p).pools[q]
       /\ liquidity > 0 => out.state.pools[p] \in PoolType
       /\ liquidity = 0 => out.amounts = <<0, 0>>
  <2>1. p \in DOMAIN s(p).pools
    BY <1>10
  <2>2. created' = created (+) SetToBag({GrantOf(p, lower, upper, liquidity)})
    BY <1>2
  <2>3. QED
    BY <1>1, <1>5, <1>8, <1>9, <1>11, <2>1, <2>2, CreatePreserves
<1>13. liquidity > 0
  <2>1. <<0, 0>>[1] \notin 1..amount0
    BY <1>5
  <2>2. liquidity # 0
    BY <1>3, <1>12, <2>1
  <2>3. QED
    BY <1>8, <2>2
<1>14. PoolsEncoded(out.state)
  <2>1. \A q \in DOMAIN state.pools : state.pools[q] \in PoolType
    BY <1>4 DEF PoolsEncoded
  <2>2. QED
    BY <1>10, <1>12, <1>13, <2>1 DEF PoolsEncoded
<1>15. GrantsInv(state', created') /\ PoolsEncoded(state')
  BY <1>3, <1>12, <1>14
<1>16. QED
  BY <1>15 DEF PositionsInv, PoolsEncoded

\* An account's address and a position's ID are no key of a position.
LEMMA NeverOwned ==
    ASSUME PositionsInv, NEW sender, NEW positionID \in PositionIDs
    PROVE  OwnershipKey(sender, positionID) \notin DOMAIN state.positions
<1>1. \A id \in DOMAIN state.positions : id = <<PoolIDOf(id), state.positionCounter>>
  BY DEF PositionsInv, GrantsInv, StoresOK, PositionOK
<1>2. PICK a, b : positionID = <<a, b>>
  BY <1>1 DEF PositionIDs
<1>3. Len(<<sender>> \o <<a, b>>) = 3
  <2> DEFINE S == {sender, a, b}
  <2>1. <<sender>> \in Seq(S) /\ <<a, b>> \in Seq(S)
    OBVIOUS
  <2>2. Len(<<sender>>) = 1 /\ Len(<<a, b>>) = 2
    OBVIOUS
  <2> HIDE DEF S
  <2>3. QED
    BY <2>1, <2>2
<1>4. ASSUME NEW c, NEW d PROVE <<sender>> \o <<a, b>> # <<c, d>>
  <2>1. Len(<<c, d>>) = 2
    OBVIOUS
  <2>2. QED
    BY <1>3, <2>1
<1>5. OwnershipKey(sender, positionID) = <<sender>> \o <<a, b>>
  BY <1>2 DEF OwnershipKey
<1>6. QED
  BY <1>1, <1>4, <1>5

\* Every step preserves the invariant of the positions.
LEMMA NextPositionsInv == TableAscends /\ PositionsInv /\ [Next]_vars => PositionsInv'
<1> SUFFICES ASSUME TableAscends, PositionsInv, [Next]_vars PROVE PositionsInv'
  OBVIOUS
<1>1. ASSUME state' = state, created' = created PROVE PositionsInv'
  <2>1. GrantsInv(state', created') /\ PoolsEncoded(state')
    BY <1>1 DEF PositionsInv
  <2>2. QED
    BY <2>1 DEF PositionsInv, PoolsEncoded
<1>2. ASSUME NEW positionID, NotExists(positionID) PROVE PositionsInv'
  BY <1>1, <1>2 DEF NotExists
<1>3. ASSUME NEW sender \in Accounts, NEW positionID \in PositionIDs,
             NEW amount0 \in Amounts, NEW amount1 \in Amounts,
             AddLiquidity(sender, positionID, amount0, amount1)
      PROVE  PositionsInv'
  <2>1. NotExists(positionID)
    BY <1>3, NeverOwned, Zenon DEF AddLiquidity
  <2>2. QED
    BY <1>2, <2>1
<1>4. ASSUME NEW sender \in Accounts, NEW positionID \in PositionIDs, NEW liquidity \in Amounts,
             RemoveLiquidity(sender, positionID, liquidity)
      PROVE  PositionsInv'
  <2>1. NotExists(positionID)
    BY <1>4, NeverOwned, Zenon DEF RemoveLiquidity
  <2>2. QED
    BY <1>2, <2>1
<1>5. CASE Next
  BY <1>3, <1>4, <1>5, CreatePoolPreserves, CreatePositionPreserves DEF Next, Command
<1>6. CASE UNCHANGED vars
  BY <1>1, <1>6 DEF vars
<1>7. QED
  BY <1>5, <1>6

\* In every reachable state the stores hold ticks as they were initialized,
\* positions between stored ticks, pools whose liquidity is what was granted
\* around their price, and deposits that pay for all grants.
THEOREM PositionsInvariant == ASSUME TableAscends PROVE Spec => []PositionsInv
<1>1. Init => PositionsInv
  BY InitPositionsInv
<1>2. PositionsInv /\ [Next]_vars => PositionsInv'
  BY NextPositionsInv
<1>3. QED
  BY <1>1, <1>2, PTL DEF Spec

-----------------------------------------------------------------------------
(* What the runs check *)

\* Well-formed stores whose pools can be encoded are of their type.
LEMMA StoresTyped == StoresOK(state) /\ PoolsEncoded(state) => TypeOK
<1> SUFFICES ASSUME StoresOK(state), PoolsEncoded(state) PROVE TypeOK
  OBVIOUS
<1>1. \A key \in DOMAIN state.ticks : state.ticks[key] \in TickType
  <2>1. SUFFICES ASSUME NEW key \in DOMAIN state.ticks PROVE state.ticks[key] \in TickType
    OBVIOUS
  <2>2. PICK p \in DOMAIN state.pools, tick \in Ticks :
          \/ key = TickKey(p, tick) /\ state.ticks[key] = EmptyTick(state.pools[p], tick)
          \/ key = PriceKey(p, tick) /\ state.ticks[key] \in TickType
    BY <2>1 DEF StoresOK, TicksFresh
  <2>3. EmptyTick(state.pools[p], tick) \in TickType
    <3>1. state.pools[p] \in PoolShape
      BY DEF StoresOK
    <3>2. QED
      BY <3>1, EmptyTickType
  <2>4. QED
    BY <2>2, <2>3
<1>2. \A id \in DOMAIN state.positions :
        /\ state.positions[id] \in PositionType(Accounts)
        /\ PoolIDOf(id) \in DOMAIN state.pools
        /\ TickKey(PoolIDOf(id), state.positions[id].tickLower) \in DOMAIN state.ticks
        /\ TickKey(PoolIDOf(id), state.positions[id].tickUpper) \in DOMAIN state.ticks
  BY DEF StoresOK, PositionOK
<1>3. /\ DOMAIN state.pools \subseteq Pools
      /\ \A p \in DOMAIN state.pools : state.pools[p] \in PoolType
      /\ state.ledger \in [Addresses \X Tokens -> [available : Nat, locked : Nat]]
  BY DEF StoresOK, PoolsEncoded, LedgerType
<1>4. QED
  BY <1>1, <1>2, <1>3 DEF TypeOK

\* The stores hold well-formed records: updatePosition, createPool and
\* createPosition write nothing that a later read could not decode, a position
\* always lies in a pool between two ticks that are stored, and no transfer of
\* the token module makes a balance negative.
THEOREM TypeInvariant == ASSUME TableAscends PROVE Spec => []TypeOK
<1>1. PositionsInv => TypeOK
  BY StoresTyped DEF PositionsInv, GrantsInv
<1>2. QED
  BY <1>1, PositionsInvariant, PTL

\* The liquidity granted to a set of positions, as a sum over the bag.
LEMMA LiquidityIsWeighed ==
    ASSUME NEW grants \in SUBSET DOMAIN created
    PROVE  Liquidity(grants) = Weighed(created, LiquidityOf(created), grants)
<1> DEFINE f == [g \in grants |-> created[g] * g.liquidity]
<1>1. [g \in grants |-> created[g] * LiquidityOf(created)[g]] = f
  BY DEF LiquidityOf
<1>2. DOMAIN f = grants
  OBVIOUS
<1> HIDE DEF f
<1>3. FoldFunction(+, 0, f) = SumOver(f, grants)
  BY <1>2, FoldIsSum
<1>4. Liquidity(grants) = FoldFunction(+, 0, f)
  BY DEF Liquidity, f
<1>5. QED
  BY <1>1, <1>3, <1>4 DEF Weighed

\* The liquidity of a pool, which updatePosition changes when the price lies in
\* the range of the position, is at all times that of the genesis block and of
\* the positions around the price.
THEOREM LiquidityInRange == ASSUME TableAscends PROVE Spec => []PoolLiquidityInRange
<1>1. PositionsInv => PoolLiquidityInRange
  <2> SUFFICES ASSUME PositionsInv PROVE PoolLiquidityInRange
    OBVIOUS
  <2>1. PICK asset \in GenesisAssets : LiquidityGranted(state, created, asset)
    BY DEF PositionsInv, GrantsInv
  <2>2. ASSUME NEW p \in DOMAIN state.pools
        PROVE  state.pools[p].liquidity =
                 FoldFunction(+, 0, [i \in {i \in DOMAIN asset.poolSubstore : GenesisPoolID(i - 1) = p}
                                       |-> asset.poolSubstore[i].liquidity])
                 + Liquidity({grant \in Grants(p) :
                       /\ TickToPrice(grant.tickLower) <= state.pools[p].sqrtPrice
                       /\ TickToPrice(grant.tickUpper) > state.pools[p].sqrtPrice})
    <3> DEFINE S == {i \in DOMAIN asset.poolSubstore : GenesisPoolID(i - 1) = p}
               f == [i \in S |-> asset.poolSubstore[i].liquidity]
               G == {grant \in Grants(p) :
                       /\ TickToPrice(grant.tickLower) <= state.pools[p].sqrtPrice
                       /\ TickToPrice(grant.tickUpper) > state.pools[p].sqrtPrice}
    <3>1. GenesisLiquidity(asset, p) = SumOver(f, S) /\ DOMAIN f = S
      BY DEF GenesisLiquidity, GenesisPools
    <3>2. G = GrantsInRange(state, created, p) /\ G \in SUBSET DOMAIN created
      BY DEF GrantsInRange, Grants, BagToSet
    <3>3. state.pools[p].liquidity
            = GenesisLiquidity(asset, p)
                + Weighed(created, LiquidityOf(created), GrantsInRange(state, created, p))
      BY <2>1 DEF LiquidityGranted
    <3> HIDE DEF f, S, G
    <3>4. FoldFunction(+, 0, f) = SumOver(f, S)
      BY <3>1, FoldIsSum
    <3>5. Liquidity(G) = Weighed(created, LiquidityOf(created), G)
      BY <3>2, LiquidityIsWeighed
    <3>6. state.pools[p].liquidity = FoldFunction(+, 0, f) + Liquidity(G)
      BY <3>1, <3>2, <3>3, <3>4, <3>5
    <3>7. QED
      BY <3>6 DEF f, S, G
  <2>3. QED
    BY <2>2, Zenon DEF PoolLiquidityInRange
<1>2. QED
  BY <1>1, PositionsInvariant, PTL

\* A price that priceToTick places at a tick reaches another tick's price when,
\* and only when, that tick is not above it.
LEMMA ReachedIsAbove ==
    ASSUME TableAscends, NEW pool, pool.sqrtPrice \in Nat, Located(pool), NEW tick \in Ticks
    PROVE  PriceToTick(pool.sqrtPrice) >= tick <=> Reached(pool.sqrtPrice, tick)
<1> DEFINE current == PriceToTick(pool.sqrtPrice)
           price == pool.sqrtPrice
<1>1. /\ current \in Ticks /\ TickToPrice(current) <= price
      /\ current < MaxTick => price < TickToPrice(current + 1)
  BY DEF Located
<1> HIDE DEF current, price
<1>2. price \in Nat /\ MaxTick \in Nat
  BY TickAssumption DEF price
<1>3. \A t \in Ticks : TickToPrice(t) \in Nat /\ t \in Int /\ t <= MaxTick
  BY <1>2 DEF TableAscends, Ticks
<1>4. ASSUME current >= tick PROVE price >= TickToPrice(tick)
  <2>1. current = tick \/ tick < current
    BY <1>1, <1>3, <1>4
  <2>2. TickToPrice(tick) <= TickToPrice(current)
    BY <1>1, <1>3, <2>1, Ascending
  <2>3. QED
    BY <1>1, <1>2, <1>3, <2>2
<1>5. ASSUME current < tick PROVE price < TickToPrice(tick)
  <2>1. current < MaxTick /\ current + 1 \in Ticks
    BY <1>1, <1>2, <1>3, <1>5 DEF Ticks
  <2>2. current + 1 = tick \/ current + 1 < tick
    BY <1>1, <1>3, <1>5
  <2>3. TickToPrice(current + 1) <= TickToPrice(tick)
    BY <1>3, <2>1, <2>2, Ascending
  <2>4. QED
    BY <1>1, <1>2, <1>3, <2>1, <2>3
<1>6. current >= tick <=> price >= TickToPrice(tick)
  BY <1>1, <1>2, <1>3, <1>4, <1>5
<1>7. QED
  BY <1>6 DEF Reached, current, price

\* A position has no claim to the fees of the time before it: getFeeGrowthInside
\* finds none between two ticks as createPosition initializes them, whatever the
\* fees of the pool are and wherever its price lies.
THEOREM FreshEarnsNothing == ASSUME TableAscends PROVE Spec => []FreshPositionEarnsNothing
<1>1. PositionsInv => FreshPositionEarnsNothing
  <2> SUFFICES ASSUME PositionsInv, NEW id \in DOMAIN state.positions,
                      Located(state.pools[PoolIDOf(id)])
               PROVE  FeeGrowthInside(state, id) = [side \in Sides |-> 0]
    BY DEF FreshPositionEarnsNothing
  <2> DEFINE p == PoolIDOf(id)
             pool == state.pools[p]
             position == state.positions[id]
             lower == position.tickLower
             upper == position.tickUpper
             tickCurrent == PriceToTick(pool.sqrtPrice)
             ticks == state.ticks
  <2>1. StoresOK(state) /\ p \in DOMAIN state.pools /\ PositionOK(state, id)
    BY DEF PositionsInv, GrantsInv, StoresOK, PositionOK
  <2>2. /\ lower \in Ticks /\ upper \in Ticks
        /\ TickKey(p, lower) \in DOMAIN ticks /\ TickKey(p, upper) \in DOMAIN ticks
    BY <2>1 DEF PositionOK, PositionType
  <2>3. pool \in PoolShape /\ pool.sqrtPrice \in Nat
    BY <2>1 DEF PositionsInv, GrantsInv, StoresOK
  <2>4. /\ ticks[TickKey(p, lower)] = EmptyTick(pool, lower)
        /\ ticks[TickKey(p, upper)] = EmptyTick(pool, upper)
    BY <2>1, <2>2, FreshTick
  <2>5. /\ tickCurrent >= lower <=> Reached(pool.sqrtPrice, lower)
        /\ tickCurrent >= upper <=> Reached(pool.sqrtPrice, upper)
    <3> HIDE DEF pool, lower, upper
    <3>1. Located(pool)
      BY DEF pool
    <3>2. QED
      BY <2>2, <2>3, <3>1, ReachedIsAbove
  <2>6. tickCurrent \in Int /\ lower \in Int /\ upper \in Int
    BY <2>2 DEF Located, Ticks
  <2> DEFINE below(side) == IF tickCurrent >= lower THEN ticks[TickKey(p, lower)].feeGrowthOutside[side]
                 ELSE pool.feeGrowthGlobal[side] - ticks[TickKey(p, lower)].feeGrowthOutside[side]
             above(side) == IF tickCurrent < upper THEN ticks[TickKey(p, upper)].feeGrowthOutside[side]
                 ELSE pool.feeGrowthGlobal[side] - ticks[TickKey(p, upper)].feeGrowthOutside[side]
  <2>7. FeeGrowthInside(state, id) = [side \in Sides |-> pool.feeGrowthGlobal[side] - below(side) - above(side)]
    BY DEF FeeGrowthInside
  <2>8. ASSUME NEW side \in Sides
        PROVE  pool.feeGrowthGlobal[side] - below(side) - above(side) = 0
    <3> DEFINE global == pool.feeGrowthGlobal[side]
    <3>1. global \in Int
      BY <2>3, OneSquare DEF PoolShape
    <3>2. below(side) = global
      <4>1. CASE Reached(pool.sqrtPrice, lower)
        BY <2>4, <2>5, <4>1 DEF EmptyTick
      <4>2. CASE ~Reached(pool.sqrtPrice, lower)
        <5>1. ticks[TickKey(p, lower)].feeGrowthOutside[side] = 0
          BY <2>4, <4>2 DEF EmptyTick
        <5> HIDE DEF pool, tickCurrent, lower, ticks, p
        <5>2. QED
          BY <2>5, <3>1, <4>2, <5>1
      <4>3. QED
        BY <4>1, <4>2
    <3>3. above(side) = 0
      <4>1. CASE Reached(pool.sqrtPrice, upper)
        <5>1. ticks[TickKey(p, upper)].feeGrowthOutside[side] = global
          BY <2>4, <4>1 DEF EmptyTick
        <5>2. ~(tickCurrent < upper)
          BY <2>5, <2>6, <4>1
        <5> HIDE DEF pool, tickCurrent, upper, ticks, p
        <5>3. QED
          BY <3>1, <5>1, <5>2
      <4>2. CASE ~Reached(pool.sqrtPrice, upper)
        <5>1. ticks[TickKey(p, upper)].feeGrowthOutside[side] = 0
          BY <2>4, <4>2 DEF EmptyTick
        <5>2. tickCurrent < upper
          BY <2>5, <2>6, <4>2
        <5> HIDE DEF pool, tickCurrent, upper, ticks, p
        <5>3. QED
          BY <5>1, <5>2
      <4>3. QED
        BY <4>1, <4>2
    <3> HIDE DEF below, above, pool
    <3>4. QED
      BY <3>1, <3>2, <3>3
  <2> HIDE DEF below, above, pool
  <2>9. QED
    BY <2>7, <2>8
<1>2. QED
  BY <1>1, PositionsInvariant, PTL

\* The liquidity of one range is worth at most what was paid for it.
LEMMA RangePaid ==
    ASSUME TableAscends, FewPositions, PositionsInv, NEW p \in DOMAIN state.pools,
           NEW x \in Ranges \X Sides
    PROVE  LET due == AmountsForLiquidity(state.pools[p].sqrtPrice, TickToPrice(x[1][1]),
                          TickToPrice(x[1][2]), GrantedIn(p, x[1]), FALSE)[x[2] + 1]
           IN  /\ due \in Int /\ PaidFor(state, created, p, x) \in Int
               /\ due <= PaidFor(state, created, p, x)
<1> DEFINE S == GrantsIn(created, p, x[1])
           v == LiquidityOf(created)
           deposit == DepositsFor(state, created, x[2])
           lower == TickToPrice(x[1][1])
           upper == TickToPrice(x[1][2])
           lowest == TickToPrice(-MaxTick)
           current == state.pools[p].sqrtPrice
           i == x[2] + 1
           due == Worth(current, lower, upper, Weighed(created, v, S), i)
<1>1. /\ x[1][1] \in Ticks /\ x[1][2] \in Ticks /\ x[1][1] < x[1][2] /\ x[2] \in {0, 1}
      /\ x[1] = <<x[1][1], x[1][2]>>
  BY DEF Ranges, Sides
<1>2. /\ IsBag(created) /\ SumFunction(created) <= MaxCreated /\ current \in Nat
      /\ \A g \in DOMAIN created : GrantOK(state, g)
  BY DEF PositionsInv, GrantsInv
<1>3. S \in SUBSET DOMAIN created
  BY DEF GrantsIn
<1>4. lower \in Nat /\ upper \in Nat /\ lower < upper /\ lowest \in Nat \ {0} /\ lowest <= lower
  <2>1. -MaxTick \in Ticks
    BY TickAssumption DEF Ticks
  <2>2. x[1][1] = -MaxTick \/ -MaxTick < x[1][1]
    BY <1>1, TickAssumption DEF Ticks
  <2>3. /\ lower \in Nat /\ upper \in Nat /\ lowest \in Nat \ {0}
    BY <1>1, <2>1 DEF TableAscends
  <2>4. lower < upper
    BY <1>1, Ascending
  <2>5. lowest <= lower
    BY <1>1, <2>1, <2>2, <2>3, Ascending
  <2>6. QED
    BY <2>3, <2>4, <2>5
<1>5. \A g \in S : v[g] = g.liquidity /\ v[g] \in Nat
  BY <1>2, <1>3 DEF GrantOK, LiquidityOf
<1>6. i \in {1, 2}
  BY <1>1
<1>7. ASSUME NEW g \in S
      PROVE  /\ deposit[g] = IF v[g] = 0 THEN 0
                             ELSE AmountsForLiquidity(current, lower, upper, v[g], TRUE)[i]
             /\ deposit[g] \in Nat
  <2>1. g \in DOMAIN created /\ g.pool = p /\ g.tickLower = x[1][1] /\ g.tickUpper = x[1][2]
    BY <1>1, <1>3 DEF GrantsIn
  <2>2. deposit[g] = DepositOf(state.pools[p], x[1][1], x[1][2], g.liquidity)[i]
    BY <2>1 DEF DepositsFor
  <2>3. <<0, 0>>[i] = 0
    BY <1>6
  <2>4. v[g] = g.liquidity /\ g.liquidity \in Nat
    BY <1>5
  <2>5. deposit[g] \in Nat
    <3> DEFINE pool == state.pools[p]
    <3>1. pool.sqrtPrice \in Nat
      BY <1>2
    <3> HIDE DEF pool
    <3>2. DepositOf(pool, x[1][1], x[1][2], g.liquidity) \in Nat \X Nat
      BY <1>1, <2>4, <3>1, DepositNat
    <3> HIDE DEF deposit
    <3>3. QED
      BY <1>6, <2>2, <3>2 DEF pool
  <2> HIDE DEF deposit, v, i
  <2>6. QED
    BY <2>2, <2>3, <2>4, <2>5 DEF DepositOf
<1>8. Few(created, S, lowest)
  <2>1. SumOver(created, S) \in Nat /\ SumOver(created, S) <= MaxCreated
    <3>1. IsFiniteSet(DOMAIN created) /\ \A g \in DOMAIN created : created[g] \in Nat
      BY <1>2 DEF IsBag
    <3> HIDE DEF S
    <3>2. IsFiniteSet(S)
      BY <1>3, <3>1, FS_Subset
    <3>3. \A g \in S : created[g] \in Nat
      BY <1>3, <3>1
    <3>4. SumOver(created, S) \in Nat
      BY <3>2, <3>3, SumNat
    <3>5. SumOver(created, S) <= SumOver(created, DOMAIN created)
      BY <1>3, <3>1, SumSubset
    <3>6. SumOver(created, DOMAIN created) \in Nat
      BY <3>1, SumNat
    <3>7. QED
      BY <1>2, <3>4, <3>5, <3>6, SizeIsSum, PositionsAssumption
  <2>2. MaxCreated * (lowest + One) < lowest * One
    BY DEF FewPositions
  <2>3. ASSUME NEW a \in Nat, NEW m \in Nat, a <= m, NEW k \in Nat, NEW top \in Nat, m * k < top
        PROVE  a * k < top
    <3>1. PICK d \in Nat : m = a + d
      <4>1. m - a \in Nat /\ m = a + (m - a)
        BY <2>3
      <4>2. QED
        BY <4>1
    <3>2. m * k = a * k + d * k /\ d * k \in Nat /\ a * k \in Nat
      BY <3>1
    <3>3. QED
      BY <2>3, <3>2
  <2>4. lowest + One \in Nat /\ lowest * One \in Nat
    BY <1>4, OneAssumption
  <2> HIDE DEF lowest, S
  <2>5. QED
    BY <2>1, <2>2, <2>3, <2>4, PositionsAssumption DEF Few
<1> HIDE DEF S, v, deposit, lower, upper, lowest, current, i
<1>9. /\ due \in Nat /\ due <= Weighed(created, deposit, S)
      /\ \A g \in S : deposit[g] \in Nat
  <2>1. IsBag(created) /\ \A g \in S : v[g] \in Nat
    BY <1>2, <1>5
  <2>2. current \in Nat
    BY <1>2
  <2>3. PaidUp(deposit, v, S, current, lower, upper, i)
    BY <1>7 DEF PaidUp
  <2>4. due \in Nat
    BY <1>3, <1>4, <1>6, <1>8, <2>1, <2>2, <2>3, RangeCovered, ZenonT(60)
  <2>5. due <= Weighed(created, deposit, S)
    BY <1>3, <1>4, <1>6, <1>8, <2>1, <2>2, <2>3, RangeCovered
  <2>6. ASSUME NEW g \in S PROVE deposit[g] \in Nat
    BY <1>7, <2>6
  <2>7. QED
    BY <2>4, <2>5, <2>6
<1> HIDE DEF due
<1>10. Weighed(created, deposit, S) \in Int
  <2>1. \A g \in S : deposit[g] \in Int
    BY <1>9
  <2>2. QED
    BY <1>2, <1>3, <2>1, WeighedInt
<1>11. PaidFor(state, created, p, x) = Weighed(created, deposit, S)
  BY DEF PaidFor, S, deposit
<1>12. GrantedIn(p, x[1]) = Weighed(created, v, S)
  <2>1. {g \in Grants(p) : <<g.tickLower, g.tickUpper>> = x[1]} = S
    BY DEF Grants, BagToSet, GrantsIn, S
  <2>2. Liquidity(S) = Weighed(created, v, S)
    BY <1>3, LiquidityIsWeighed DEF v
  <2>3. QED
    BY <2>1, <2>2 DEF GrantedIn
<1>13. due \in Int /\ PaidFor(state, created, p, x) \in Int /\ due <= PaidFor(state, created, p, x)
  BY <1>9, <1>10, <1>11
<1>14. QED
  BY <1>12, <1>13 DEF due, Worth, lower, upper, current, i

\* What a pool has to hold of one token.
HoldsDue(p, token) ==
    state.ledger[<<p, token>>].locked >=
      FoldFunction(+, 0, [x \in Ranges \X {side \in Sides : TokenOf(p, side) = token} |->
        AmountsForLiquidity(state.pools[p].sqrtPrice, TickToPrice(x[1][1]),
          TickToPrice(x[1][2]), GrantedIn(p, x[1]), FALSE)[x[2] + 1]])

\* A pool holds what it owes of each of its tokens.
LEMMA PoolHoldsDue ==
    ASSUME TableAscends, FewPositions, PositionsInv, NEW p \in DOMAIN state.pools,
           NEW token \in {TokenOf(p, side) : side \in Sides}
    PROVE  HoldsDue(p, token)
<1> DEFINE S == RangesOf(p, token)
           due(x) == AmountsForLiquidity(state.pools[p].sqrtPrice, TickToPrice(x[1][1]),
                       TickToPrice(x[1][2]), GrantedIn(p, x[1]), FALSE)[x[2] + 1]
           f == [x \in S |-> due(x)]
           h == [x \in S |-> PaidFor(state, created, p, x)]
<1>1. \A x \in S : f[x] \in Int /\ h[x] \in Int /\ f[x] <= h[x]
  <2>1. SUFFICES ASSUME NEW x \in S PROVE f[x] \in Int /\ h[x] \in Int /\ f[x] <= h[x]
    OBVIOUS
  <2>2. x \in Ranges \X Sides
    BY DEF RangesOf
  <2>3. due(x) \in Int /\ h[x] \in Int /\ due(x) <= h[x]
    BY <2>2, RangePaid
  <2>4. QED
    BY <2>3
<1>2. StoresOK(state) /\ token \in Tokens
  <2>1. StoresOK(state)
    BY DEF PositionsInv, GrantsInv
  <2>2. token \in {Token0(p), Token1(p)}
    BY DEF TokenOf, Sides
  <2>3. p \in Pools
    BY <2>1 DEF StoresOK
  <2>4. QED
    BY <2>1, <2>2, <2>3, PositionsAssumption
<1>3. state.ledger[<<p, token>>].locked >= SumOver(h, S)
  BY <1>2 DEF PositionsInv, GrantsInv, PaidIn
<1>4. state.ledger[<<p, token>>].locked \in Nat
  <2>1. <<p, token>> \in Addresses \X Tokens
    BY <1>2 DEF StoresOK, Addresses
  <2>2. QED
    BY <1>2, <2>1 DEF StoresOK, LedgerType
<1>5. DOMAIN f = S /\ IsFiniteSet(S)
  BY RangesFinite
<1>6. f = [x \in Ranges \X {side \in Sides : TokenOf(p, side) = token} |-> due(x)]
  BY DEF RangesOf
<1> HIDE DEF f, h, S, due
<1>7. SumOver(f, S) <= SumOver(h, S) /\ SumOver(f, S) \in Int /\ SumOver(h, S) \in Int
  BY <1>1, <1>5, SumLeq, SumInt
<1>8. FoldFunction(+, 0, f) = SumOver(f, S)
  BY <1>5, FoldIsSum
<1>9. state.ledger[<<p, token>>].locked >= FoldFunction(+, 0, f)
  <2>1. state.ledger[<<p, token>>].locked >= SumOver(f, S)
    BY <1>3, <1>4, <1>7
  <2>2. QED
    BY <1>8, <2>1, Zenon
<1>10. QED
  BY <1>6, <1>9, Zenon DEF due, HoldsDue

\* If every pool holds what it owes, the deposits cover the grants.
LEMMA CoveredWhenHeld ==
    ASSUME \A p \in DOMAIN state.pools :
             \A token \in {TokenOf(p, side) : side \in Sides} : HoldsDue(p, token)
    PROVE  DepositsCoverGrants
BY Zenon DEF DepositsCoverGrants, HoldsDue

\* Every pool holds enough to pay out all the liquidity granted in it at its
\* price: updatePosition rounds each deposit up, and transfers it to the pool it
\* is for.
THEOREM DepositsAreCovered ==
    ASSUME TableAscends, FewPositions
    PROVE  Spec => []DepositsCoverGrants
<1>1. PositionsInv => DepositsCoverGrants
  BY PoolHoldsDue, CoveredWhenHeld
<1>2. QED
  BY <1>1, PositionsInvariant, PTL

=============================================================================
