---------------------------- MODULE FiniteSums ----------------------------
(***************************************************************************)
(* Sums of integers over a finite set, as MapThenSumSet computes them, and *)
(* the two inductions the proofs about the modules use.  An induction is   *)
(* over a set: of naturals, or of subsets of a finite set.                 *)
(***************************************************************************)
EXTENDS Integers, Sequences, FiniteSetsExt, FiniteSetTheorems, NaturalsInduction, TLAPS

SumOver(f, S) == MapThenSumSet(LAMBDA x : f[x], S)

-----------------------------------------------------------------------------
(* Induction *)

\* A set of naturals with 0 and with every successor of its members is Nat.
LEMMA SetOfAllNaturals ==
    ASSUME NEW G \in SUBSET Nat, 0 \in G, \A n \in G : n + 1 \in G
    PROVE  G = Nat
<1> DEFINE R == {ss \in Nat \X Nat : ss[1] < ss[2]}
           bad == Nat \ G
<1>1. IsWellFoundedOn(R, Nat)
  BY NatLessThanWellFounded DEF OpToRel
<1>2. SUFFICES ASSUME bad # {} PROVE FALSE
  OBVIOUS
<1>3. PICK m \in bad : \A x \in bad : ~(<<x, m>> \in R)
  BY <1>1, <1>2, WFMin
<1>4. m - 1 \in G
  <2>1. m \in Nat /\ m # 0
    OBVIOUS
  <2>2. m - 1 \in Nat /\ <<m - 1, m>> \in R
    BY <2>1
  <2>3. QED
    BY <1>3, <2>2
<1>5. (m - 1) + 1 = m
  BY <1>3
<1>6. QED
  BY <1>3, <1>4, <1>5

\* A set of subsets of a finite set, in which every subset is whose proper
\* subsets are, has them all.
LEMMA SetOfAllSubsets ==
    ASSUME NEW S, IsFiniteSet(S), NEW G,
           \A T \in SUBSET S : (\A U \in SUBSET T : U # T => U \in G) => T \in G
    PROVE  \A T \in SUBSET S : T \in G
<1> DEFINE R == StrictSubsetOrdering(S)
           bad == {T \in SUBSET S : T \notin G}
<1>1. IsWellFoundedOn(R, SUBSET S)
  BY FS_StrictSubsetOrderingWellFounded, FS_FiniteSubsetsOfFinite
<1>2. SUFFICES ASSUME bad # {} PROVE FALSE
  OBVIOUS
<1>3. PICK m \in bad : \A x \in bad : ~(<<x, m>> \in R)
  <2>1. bad \subseteq SUBSET S
    OBVIOUS
  <2> HIDE DEF R, bad
  <2>2. QED
    BY <1>1, <1>2, <2>1, WFMin
<1>4. \A U \in SUBSET m : U # m => U \in G
  BY <1>3 DEF StrictSubsetOrdering
<1>5. QED
  BY <1>3, <1>4

\* A set of numbers up to n has a largest, and what it has below is smaller.
LEMMA MaxOfSubset ==
    ASSUME NEW n \in Nat, NEW s \in SUBSET (0..n), s # {}
    PROVE  Max(s) \in s /\ \A x \in s : x <= Max(s)
<1> DEFINE bounds == {m \in Nat : \A x \in s : x <= m}
           M == {m \in Nat : m \in bounds => \E x \in s : \A y \in s : y <= x}
<1>1. 0 \in M
  <2>1. PICK x \in s : TRUE
    OBVIOUS
  <2>2. x \in 0..n
    OBVIOUS
  <2>3. QED
    BY <2>2
<1>2. ASSUME NEW m \in M PROVE m + 1 \in M
  <2>1. SUFFICES ASSUME m + 1 \in bounds PROVE \E x \in s : \A y \in s : y <= x
    OBVIOUS
  <2>2. CASE m + 1 \in s
    BY <2>1, <2>2
  <2>3. CASE m + 1 \notin s
    <3>1. ASSUME NEW x \in s PROVE x <= m
      <4>1. x \in Nat /\ x <= m + 1 /\ x # m + 1
        BY <2>1, <2>3
      <4>2. QED
        BY <4>1
    <3>2. m \in bounds
      BY <3>1
    <3>3. QED
      BY <3>2
  <2>4. QED
    BY <2>2, <2>3
<1>3. n \in bounds
  OBVIOUS
<1>4. n \in M
  <2>1. M \subseteq Nat
    OBVIOUS
  <2> HIDE DEF M
  <2>2. M = Nat
    BY <1>1, <1>2, <2>1, SetOfAllNaturals
  <2>3. QED
    BY <2>2
<1>5. PICK x \in s : \A y \in s : y <= x
  BY <1>3, <1>4
<1>6. \E z \in s : \A y \in s : z >= y
  <2>1. \A y \in s : y \in 0..n /\ x >= y
    BY <1>5
  <2>2. QED
    BY <2>1
<1>7. Max(s) \in s /\ \A y \in s : Max(s) >= y
  BY <1>6, Zenon DEF Max
<1>8. \A y \in s : y \in 0..n
  OBVIOUS
<1>9. QED
  BY <1>7, <1>8

-----------------------------------------------------------------------------
(* The recursion that defines a sum *)

Pick(s) == CHOOSE x \in s : TRUE

\* The function by which MapThenSumSet sums f over the subsets of T.
Partial(f, T) ==
    CHOOSE iter : iter = [s \in SUBSET T |->
                            IF s = {} THEN 0 ELSE f[Pick(s)] + iter[s \ {Pick(s)}]]

IsPartial(iter, f, T) ==
    iter = [s \in SUBSET T |-> IF s = {} THEN 0 ELSE f[Pick(s)] + iter[s \ {Pick(s)}]]

\* A sum is the value at the whole set of the function of its definition.
LEMMA SumIsPartial ==
    ASSUME NEW f, NEW S
    PROVE  SumOver(f, S) = Partial(f, S)[S]
BY DEF SumOver, Partial, Pick, MapThenSumSet, MapThenFoldSet

\* The function exists, is unique, and its values are the sums.
LEMMA PartialIsSum ==
    ASSUME NEW f, NEW S, IsFiniteSet(S)
    PROVE  IsPartial([s \in SUBSET S |-> SumOver(f, s)], f, S)
<1> DEFINE sums(T) == [s \in SUBSET T |-> SumOver(f, s)]
           G == {T \in SUBSET S : /\ IsPartial(sums(T), f, T)
                                  /\ \A h : IsPartial(h, f, T) => h = sums(T)}
<1>1. ASSUME NEW T \in SUBSET S, \A U \in SUBSET T : U # T => U \in G
      PROVE  T \in G
  <2> DEFINE below == IF T = {} THEN 0 ELSE f[Pick(T)] + SumOver(f, T \ {Pick(T)})
             g == [s \in SUBSET T |-> IF s = T THEN below ELSE SumOver(f, s)]
  <2>1. \A s \in SUBSET T : s # {} => Pick(s) \in s
    BY DEF Pick
  <2>2. \A s \in SUBSET T : s # T =>
           SumOver(f, s) = IF s = {} THEN 0 ELSE f[Pick(s)] + SumOver(f, s \ {Pick(s)})
    <3> SUFFICES ASSUME NEW s \in SUBSET T, s # T
                 PROVE  SumOver(f, s) = IF s = {} THEN 0
                                        ELSE f[Pick(s)] + SumOver(f, s \ {Pick(s)})
      OBVIOUS
    <3>1. IsPartial(sums(s), f, s)
      BY <1>1
    <3>2. sums(s)[s] = IF s = {} THEN 0 ELSE f[Pick(s)] + sums(s)[s \ {Pick(s)}]
      BY <3>1 DEF IsPartial
    <3>3. QED
      BY <3>2
  <2>3. IsPartial(g, f, T)
    <3>1. \A s \in SUBSET T : g[s] = IF s = {} THEN 0 ELSE f[Pick(s)] + g[s \ {Pick(s)}]
      <4> SUFFICES ASSUME NEW s \in SUBSET T
                   PROVE  g[s] = IF s = {} THEN 0 ELSE f[Pick(s)] + g[s \ {Pick(s)}]
        OBVIOUS
      <4>1. CASE s = {}
        BY <2>2, <4>1
      <4>2. CASE s # {}
        <5>1. Pick(s) \in s /\ s \ {Pick(s)} \in SUBSET T /\ s \ {Pick(s)} # T
          BY <2>1, <4>2
        <5>2. g[s \ {Pick(s)}] = SumOver(f, s \ {Pick(s)})
          BY <5>1
        <5>3. QED
          BY <2>2, <4>2, <5>2
      <4>3. QED
        BY <4>1, <4>2
    <3>2. QED
      BY <3>1, Zenon DEF IsPartial
  <2>4. ASSUME NEW h, IsPartial(h, f, T) PROVE h = g
    <3>0. /\ h = [s \in SUBSET T |-> h[s]]
          /\ \A s \in SUBSET T : h[s] = IF s = {} THEN 0 ELSE f[Pick(s)] + h[s \ {Pick(s)}]
      BY <2>4 DEF IsPartial
    <3>1. \A s \in SUBSET T : s # T => h[s] = SumOver(f, s)
      <4> SUFFICES ASSUME NEW s \in SUBSET T, s # T
                   PROVE  h[s] = SumOver(f, s)
        OBVIOUS
      <4> DEFINE k == [u \in SUBSET s |-> h[u]]
      <4>1. IsPartial(k, f, s)
        <5>1. \A u \in SUBSET s : h[u] = IF u = {} THEN 0 ELSE f[Pick(u)] + k[u \ {Pick(u)}]
          BY <3>0
        <5>2. QED
          BY <5>1 DEF IsPartial
      <4>2. k = sums(s)
        BY <1>1, <4>1
      <4>3. QED
        BY <4>2
    <3>2. h[T] = below
      <4>1. CASE T = {}
        BY <3>0, <4>1
      <4>2. CASE T # {}
        <5>1. T \ {Pick(T)} \in SUBSET T /\ T \ {Pick(T)} # T
          BY <2>1, <4>2
        <5>2. QED
          BY <3>0, <3>1, <4>2, <5>1
      <4>3. QED
        BY <4>1, <4>2
    <3>3. QED
      BY <3>0, <3>1, <3>2
  <2>5. Partial(f, T) = g
    <3>1. \A h : h = [s \in SUBSET T |-> IF s = {} THEN 0 ELSE f[Pick(s)] + h[s \ {Pick(s)}]]
                   <=> h = g
      BY <2>3, <2>4, Zenon DEF IsPartial
    <3>2. Partial(f, T) = CHOOSE h : h = g
      BY <3>1, Zenon DEF Partial
    <3>3. QED
      BY <3>2, Zenon
  <2>6. SumOver(f, T) = below
    BY <2>5, SumIsPartial
  <2>7. g = sums(T)
    BY <2>6
  <2>8. QED
    BY <2>3, <2>4, <2>7
<1>2. \A T \in SUBSET S : T \in G
  <2>1. \A T \in SUBSET S : (\A U \in SUBSET T : U # T => U \in G) => T \in G
    BY <1>1
  <2> HIDE DEF G
  <2>2. QED
    BY <2>1, SetOfAllSubsets
<1>3. QED
  BY <1>2

\* The empty sum is zero; another is the picked term and the rest.
LEMMA SumEmpty == ASSUME NEW f PROVE SumOver(f, {}) = 0
<1>1. IsPartial([s \in SUBSET {} |-> SumOver(f, s)], f, {})
  BY PartialIsSum, FS_EmptySet
<1>2. QED
  BY <1>1 DEF IsPartial

\* A sum splits off the element that is picked.
LEMMA SumPick ==
    ASSUME NEW f, NEW T, IsFiniteSet(T), T # {}
    PROVE  SumOver(f, T) = f[Pick(T)] + SumOver(f, T \ {Pick(T)})
<1>1. IsPartial([s \in SUBSET T |-> SumOver(f, s)], f, T)
  BY PartialIsSum
<1>2. QED
  BY <1>1 DEF IsPartial

-----------------------------------------------------------------------------
(* Facts about sums *)

\* A set of subsets of a finite set with the empty set and every set that is
\* in it without the element it picks has them all.
LEMMA PickInduction ==
    ASSUME NEW S, IsFiniteSet(S), NEW G, {} \in G,
           \A T \in SUBSET S : T # {} /\ T \ {Pick(T)} \in G => T \in G
    PROVE  \A T \in SUBSET S : T \in G
<1>1. \A T \in SUBSET S : (\A U \in SUBSET T : U # T => U \in G) => T \in G
  <2> SUFFICES ASSUME NEW T \in SUBSET S, \A U \in SUBSET T : U # T => U \in G
               PROVE  T \in G
    OBVIOUS
  <2>1. CASE T = {}
    BY <2>1
  <2>2. CASE T # {}
    <3>1. T \ {Pick(T)} \in SUBSET T /\ T \ {Pick(T)} # T
      BY <2>2 DEF Pick
    <3>2. QED
      BY <2>2, <3>1
  <2>3. QED
    BY <2>1, <2>2
<1>2. QED
  BY <1>1, SetOfAllSubsets

\* A sum of integers is an integer.
LEMMA SumInt ==
    ASSUME NEW S, IsFiniteSet(S), NEW f, \A x \in S : f[x] \in Int
    PROVE  SumOver(f, S) \in Int
<1> DEFINE G == {T \in SUBSET S : SumOver(f, T) \in Int}
<1>1. {} \in G
  BY SumEmpty
<1>2. \A T \in SUBSET S : T # {} /\ T \ {Pick(T)} \in G => T \in G
  <2> SUFFICES ASSUME NEW T \in SUBSET S, T # {}, T \ {Pick(T)} \in G
               PROVE  T \in G
    OBVIOUS
  <2>1. Pick(T) \in T
    BY DEF Pick
  <2>2. SumOver(f, T) = f[Pick(T)] + SumOver(f, T \ {Pick(T)})
    BY SumPick, FS_Subset
  <2>3. QED
    BY <2>1, <2>2
<1> HIDE DEF G
<1>3. S \in G
  BY <1>1, <1>2, PickInduction
<1>4. QED
  BY <1>3 DEF G

\* A sum of natural numbers is a natural number.
LEMMA SumNat ==
    ASSUME NEW S, IsFiniteSet(S), NEW f, \A x \in S : f[x] \in Nat
    PROVE  SumOver(f, S) \in Nat
<1> DEFINE G == {T \in SUBSET S : SumOver(f, T) \in Nat}
<1>1. {} \in G
  BY SumEmpty
<1>2. \A T \in SUBSET S : T # {} /\ T \ {Pick(T)} \in G => T \in G
  <2> SUFFICES ASSUME NEW T \in SUBSET S, T # {}, T \ {Pick(T)} \in G
               PROVE  T \in G
    OBVIOUS
  <2>1. Pick(T) \in T
    BY DEF Pick
  <2>2. SumOver(f, T) = f[Pick(T)] + SumOver(f, T \ {Pick(T)})
    BY SumPick, FS_Subset
  <2>3. QED
    BY <2>1, <2>2
<1> HIDE DEF G
<1>3. S \in G
  BY <1>1, <1>2, PickInduction
<1>4. QED
  BY <1>3 DEF G

\* Functions that agree on a set have the same sum over it.
LEMMA SumSame ==
    ASSUME NEW S, IsFiniteSet(S), NEW f, NEW g, \A x \in S : f[x] = g[x]
    PROVE  SumOver(f, S) = SumOver(g, S)
<1> DEFINE G == {T \in SUBSET S : SumOver(f, T) = SumOver(g, T)}
<1>1. {} \in G
  BY SumEmpty
<1>2. \A T \in SUBSET S : T # {} /\ T \ {Pick(T)} \in G => T \in G
  <2> SUFFICES ASSUME NEW T \in SUBSET S, T # {}, T \ {Pick(T)} \in G
               PROVE  T \in G
    OBVIOUS
  <2>1. Pick(T) \in T
    BY DEF Pick
  <2>2. /\ SumOver(f, T) = f[Pick(T)] + SumOver(f, T \ {Pick(T)})
        /\ SumOver(g, T) = g[Pick(T)] + SumOver(g, T \ {Pick(T)})
    BY SumPick, FS_Subset
  <2>3. QED
    BY <2>1, <2>2
<1> HIDE DEF G
<1>3. S \in G
  BY <1>1, <1>2, PickInduction
<1>4. QED
  BY <1>3 DEF G

\* Summing preserves the order of functions.
LEMMA SumLeq ==
    ASSUME NEW S, IsFiniteSet(S), NEW f, NEW g,
           \A x \in S : f[x] \in Int /\ g[x] \in Int /\ f[x] <= g[x]
    PROVE  SumOver(f, S) <= SumOver(g, S)
<1> DEFINE G == {T \in SUBSET S : SumOver(f, T) <= SumOver(g, T)}
<1>1. {} \in G
  BY SumEmpty
<1>2. \A T \in SUBSET S : T # {} /\ T \ {Pick(T)} \in G => T \in G
  <2> SUFFICES ASSUME NEW T \in SUBSET S, T # {}, T \ {Pick(T)} \in G
               PROVE  T \in G
    OBVIOUS
  <2>1. Pick(T) \in T
    BY DEF Pick
  <2>2. /\ SumOver(f, T) = f[Pick(T)] + SumOver(f, T \ {Pick(T)})
        /\ SumOver(g, T) = g[Pick(T)] + SumOver(g, T \ {Pick(T)})
    BY SumPick, FS_Subset
  <2>3. SumOver(f, T \ {Pick(T)}) \in Int /\ SumOver(g, T \ {Pick(T)}) \in Int
    BY SumInt, FS_Subset
  <2>4. QED
    BY <2>1, <2>2, <2>3
<1> HIDE DEF G
<1>3. S \in G
  BY <1>1, <1>2, PickInduction
<1>4. QED
  BY <1>3 DEF G

\* The sum of the sums of two functions' values is the sum of their sums.
LEMMA SumPlus ==
    ASSUME NEW S, IsFiniteSet(S), NEW f, NEW g, NEW h,
           \A x \in S : f[x] \in Int /\ g[x] \in Int /\ h[x] = f[x] + g[x]
    PROVE  SumOver(h, S) = SumOver(f, S) + SumOver(g, S)
<1> DEFINE G == {T \in SUBSET S : SumOver(h, T) = SumOver(f, T) + SumOver(g, T)}
<1>1. {} \in G
  BY SumEmpty
<1>2. \A T \in SUBSET S : T # {} /\ T \ {Pick(T)} \in G => T \in G
  <2> SUFFICES ASSUME NEW T \in SUBSET S, T # {}, T \ {Pick(T)} \in G
               PROVE  SumOver(h, T) = SumOver(f, T) + SumOver(g, T)
    OBVIOUS
  <2> DEFINE x == Pick(T)
             R == T \ {Pick(T)}
  <2>1. x \in S
    BY DEF Pick
  <2>2. /\ SumOver(f, T) = f[x] + SumOver(f, R)
        /\ SumOver(g, T) = g[x] + SumOver(g, R)
        /\ SumOver(h, T) = h[x] + SumOver(h, R)
    BY SumPick, FS_Subset
  <2>3. SumOver(f, R) \in Int /\ SumOver(g, R) \in Int
    BY SumInt, FS_Subset
  <2>4. SumOver(h, R) = SumOver(f, R) + SumOver(g, R)
    OBVIOUS
  <2>5. f[x] \in Int /\ g[x] \in Int /\ h[x] = f[x] + g[x]
    BY <2>1
  <2> HIDE DEF x, R
  <2>6. QED
    BY <2>2, <2>3, <2>4, <2>5
<1> HIDE DEF G
<1>3. S \in G
  BY <1>1, <1>2, PickInduction
<1>4. QED
  BY <1>3 DEF G

\* A common factor can be taken out of a sum.
LEMMA SumScale ==
    ASSUME NEW S, IsFiniteSet(S), NEW c \in Int, NEW f, NEW g,
           \A x \in S : f[x] \in Int /\ g[x] = c * f[x]
    PROVE  SumOver(g, S) = c * SumOver(f, S)
<1> DEFINE G == {T \in SUBSET S : SumOver(g, T) = c * SumOver(f, T)}
<1>1. {} \in G
  BY SumEmpty
<1>2. \A T \in SUBSET S : T # {} /\ T \ {Pick(T)} \in G => T \in G
  <2> SUFFICES ASSUME NEW T \in SUBSET S, T # {}, T \ {Pick(T)} \in G
               PROVE  SumOver(g, T) = c * SumOver(f, T)
    OBVIOUS
  <2> DEFINE x == Pick(T)
             R == T \ {Pick(T)}
  <2>1. x \in S
    BY DEF Pick
  <2>2. /\ SumOver(f, T) = f[x] + SumOver(f, R)
        /\ SumOver(g, T) = g[x] + SumOver(g, R)
    BY SumPick, FS_Subset
  <2>3. SumOver(f, R) \in Int
    BY SumInt, FS_Subset
  <2>4. SumOver(g, R) = c * SumOver(f, R)
    OBVIOUS
  <2>5. f[x] \in Int /\ g[x] = c * f[x]
    BY <2>1
  <2> HIDE DEF x, R
  <2>6. c * (f[x] + SumOver(f, R)) = c * f[x] + c * SumOver(f, R)
    BY <2>3, <2>5
  <2>7. QED
    BY <2>2, <2>4, <2>5, <2>6
<1> HIDE DEF G
<1>3. S \in G
  BY <1>1, <1>2, PickInduction
<1>4. QED
  BY <1>3 DEF G

\* Any element can be taken out of a sum, not only the one it picks.
LEMMA SumRemove ==
    ASSUME NEW S, IsFiniteSet(S), NEW f, \A x \in S : f[x] \in Int, NEW y \in S
    PROVE  SumOver(f, S) = f[y] + SumOver(f, S \ {y})
<1> DEFINE G == {T \in SUBSET S : \A z \in T : SumOver(f, T) = f[z] + SumOver(f, T \ {z})}
<1>1. \A T \in SUBSET S : (\A U \in SUBSET T : U # T => U \in G) => T \in G
  <2> SUFFICES ASSUME NEW T \in SUBSET S, \A U \in SUBSET T : U # T => U \in G,
                      NEW z \in T
               PROVE  SumOver(f, T) = f[z] + SumOver(f, T \ {z})
    OBVIOUS
  <2> DEFINE x == Pick(T)
  <2>1. x \in T /\ SumOver(f, T) = f[x] + SumOver(f, T \ {x})
    BY SumPick, FS_Subset DEF Pick
  <2>2. CASE z = x
    BY <2>1, <2>2
  <2>3. CASE z # x
    <3> DEFINE R == (T \ {x}) \ {z}
    <3>1. T \ {x} \in G /\ T \ {z} \in G /\ z \in T \ {x} /\ x \in T \ {z}
      BY <2>1, <2>3
    <3>2. (T \ {z}) \ {x} = R
      OBVIOUS
    <3>3. /\ SumOver(f, T \ {x}) = f[z] + SumOver(f, R)
          /\ SumOver(f, T \ {z}) = f[x] + SumOver(f, R)
      BY <3>1, <3>2
    <3>4. SumOver(f, R) \in Int
      BY SumInt, FS_Subset, R \in SUBSET S
    <3>5. f[x] \in Int /\ f[z] \in Int
      BY <2>1
    <3> HIDE DEF x, R
    <3>6. QED
      BY <2>1, <3>3, <3>4, <3>5
  <2>4. QED
    BY <2>2, <2>3
<1> HIDE DEF G
<1>2. S \in G
  BY <1>1, SetOfAllSubsets
<1>3. QED
  BY <1>2 DEF G

\* Changing one term changes the sum by the difference.
LEMMA SumChange ==
    ASSUME NEW S, IsFiniteSet(S), NEW f, NEW g, NEW y \in S,
           \A x \in S : f[x] \in Int /\ g[x] \in Int,
           \A x \in S : x # y => f[x] = g[x]
    PROVE  SumOver(g, S) = SumOver(f, S) - f[y] + g[y]
<1>1. IsFiniteSet(S \ {y})
  BY FS_Subset
<1>2. /\ SumOver(f, S) = f[y] + SumOver(f, S \ {y})
      /\ SumOver(g, S) = g[y] + SumOver(g, S \ {y})
  BY SumRemove
<1>3. SumOver(f, S \ {y}) = SumOver(g, S \ {y}) /\ SumOver(f, S \ {y}) \in Int
  BY <1>1, SumSame, SumInt
<1>4. QED
  BY <1>2, <1>3

\* A constant term on part of the set adds up to its product with the part's size.
LEMMA SumConstant ==
    ASSUME NEW S, IsFiniteSet(S), NEW A \in SUBSET S, NEW c \in Int, NEW f,
           \A x \in S : f[x] = IF x \in A THEN c ELSE 0
    PROVE  SumOver(f, S) = c * Cardinality(A)
<1> DEFINE G == {T \in SUBSET S : SumOver(f, T) = c * Cardinality(A \cap T)}
<1>1. {} \in G
  BY SumEmpty, FS_EmptySet, A \cap {} = {}
<1>2. \A T \in SUBSET S : T # {} /\ T \ {Pick(T)} \in G => T \in G
  <2> SUFFICES ASSUME NEW T \in SUBSET S, T # {}, T \ {Pick(T)} \in G
               PROVE  SumOver(f, T) = c * Cardinality(A \cap T)
    OBVIOUS
  <2> DEFINE x == Pick(T)
  <2>1. x \in T /\ IsFiniteSet(T) /\ IsFiniteSet(A \cap T)
    BY FS_Subset DEF Pick
  <2>2. SumOver(f, T) = f[x] + c * Cardinality(A \cap (T \ {x}))
    BY <2>1, SumPick
  <2>3. CASE x \in A
    <3>1. A \cap (T \ {x}) = (A \cap T) \ {x} /\ x \in A \cap T
      BY <2>1, <2>3
    <3>2. Cardinality((A \cap T) \ {x}) = Cardinality(A \cap T) - 1
      BY <2>1, <3>1, FS_RemoveElement, Zenon
    <3>3. Cardinality(A \cap T) \in Int
      BY <2>1, FS_CardinalityType
    <3>4. f[x] = c
      BY <2>1, <2>3
    <3> HIDE DEF x
    <3>5. c + c * (Cardinality(A \cap T) - 1) = c * Cardinality(A \cap T)
      BY <3>3
    <3>6. QED
      BY <2>2, <3>1, <3>2, <3>4, <3>5
  <2>4. CASE x \notin A
    <3>1. A \cap (T \ {x}) = A \cap T
      BY <2>4
    <3>2. SumOver(f, T) = f[x] + c * Cardinality(A \cap T)
      BY <2>2, <3>1, Zenon
    <3>3. c * Cardinality(A \cap T) \in Int
      BY <2>1, FS_CardinalityType
    <3>4. f[x] = 0
      BY <2>1, <2>4
    <3> HIDE DEF x
    <3>5. QED
      BY <3>2, <3>3, <3>4
  <2>5. QED
    BY <2>3, <2>4
<1> HIDE DEF G
<1>3. S \in G
  BY <1>1, <1>2, PickInduction
<1>4. A \cap S = A
  OBVIOUS
<1>5. QED
  BY <1>3, <1>4 DEF G

\* A term of a sum of natural numbers is at most the sum.
LEMMA SumTerm ==
    ASSUME NEW S, IsFiniteSet(S), NEW f, \A x \in S : f[x] \in Nat, NEW y \in S
    PROVE  f[y] <= SumOver(f, S)
<1>1. SumOver(f, S) = f[y] + SumOver(f, S \ {y})
  BY SumRemove
<1>2. SumOver(f, S \ {y}) \in Nat
  BY SumNat, FS_Subset
<1>3. QED
  BY <1>1, <1>2

\* A sum of natural numbers over a subset is at most the sum.
LEMMA SumSubset ==
    ASSUME NEW S, IsFiniteSet(S), NEW f, \A x \in S : f[x] \in Nat, NEW R \in SUBSET S
    PROVE  SumOver(f, R) <= SumOver(f, S)
<1> DEFINE G == {T \in SUBSET S : SumOver(f, S \ T) <= SumOver(f, S)}
<1>1. \A T \in SUBSET S : SumOver(f, T) \in Nat
  BY SumNat, FS_Subset
<1>2. {} \in G
  <2>1. S \ {} = S
    OBVIOUS
  <2>2. QED
    BY <1>1, <2>1
<1>3. \A T \in SUBSET S : T # {} /\ T \ {Pick(T)} \in G => T \in G
  <2> SUFFICES ASSUME NEW T \in SUBSET S, T # {}, T \ {Pick(T)} \in G
               PROVE  SumOver(f, S \ T) <= SumOver(f, S)
    OBVIOUS
  <2> DEFINE x == Pick(T)
             U == S \ (T \ {x})
             R0 == S \ T
  <2>1. x \in T /\ x \in U /\ U \in SUBSET S /\ R0 = U \ {x}
    BY DEF Pick
  <2>2. SumOver(f, U) <= SumOver(f, S)
    OBVIOUS
  <2> HIDE DEF x, U, R0, G
  <2>3. IsFiniteSet(U) /\ \A y \in U : f[y] \in Int
    BY <2>1, FS_Subset
  <2>4. SumOver(f, U) = f[x] + SumOver(f, U \ {x})
    BY <2>1, <2>3, SumRemove
  <2>5. f[x] \in Nat /\ SumOver(f, U \ {x}) \in Nat /\ SumOver(f, U) \in Nat /\ SumOver(f, S) \in Nat
    BY <1>1, <2>1
  <2>6. SumOver(f, R0) <= SumOver(f, S)
    BY <2>1, <2>2, <2>4, <2>5
  <2>7. QED
    BY <2>6 DEF R0
<1> HIDE DEF G
<1>4. S \ R \in G
  BY <1>2, <1>3, PickInduction
<1>5. S \ (S \ R) = R
  OBVIOUS
<1>6. QED
  BY <1>4, <1>5 DEF G

-----------------------------------------------------------------------------
(* Sums over sequences *)

\* A sum over 1..n splits off its last term.
LEMMA SumUpTo ==
    ASSUME NEW n \in Nat, NEW f, \A i \in 1..(n + 1) : f[i] \in Int
    PROVE  SumOver(f, 1..(n + 1)) = f[n + 1] + SumOver(f, 1..n)
<1>1. IsFiniteSet(1..(n + 1))
  BY FS_Interval
<1>2. n + 1 \in 1..(n + 1) /\ (1..(n + 1)) \ {n + 1} = 1..n
  OBVIOUS
<1>3. QED
  BY <1>1, <1>2, SumRemove, SMTT(60)

\* The sum of the weights of a sequence's elements.
SeqSum(v, seq) == SumOver([i \in 1..Len(seq) |-> v[seq[i]]], 1..Len(seq))

\* The sum over a sequence is a number.
LEMMA SeqSumInt ==
    ASSUME NEW S, NEW v \in [S -> Int], NEW seq \in Seq(S)
    PROVE  SeqSum(v, seq) \in Int
<1>1. IsFiniteSet(1..Len(seq))
  BY FS_Interval
<1>2. \A i \in 1..Len(seq) : [j \in 1..Len(seq) |-> v[seq[j]]][i] \in Int
  OBVIOUS
<1>3. QED
  BY <1>1, <1>2, SumInt DEF SeqSum

\* The sum over the empty sequence is 0.
LEMMA SeqSumNone == ASSUME NEW v PROVE SeqSum(v, <<>>) = 0
<1>1. 1..Len(<<>>) = {}
  OBVIOUS
<1>2. QED
  BY <1>1, SumEmpty DEF SeqSum

\* The sum over a concatenation.
LEMMA SeqSumConcat ==
    ASSUME NEW S, NEW v \in [S -> Int], NEW s \in Seq(S), NEW t \in Seq(S)
    PROVE  SeqSum(v, s \o t) = SeqSum(v, s) + SeqSum(v, t)
<1> DEFINE m == Len(s)
           n == Len(t)
           f == [i \in 1..m |-> v[s[i]]]
           g == [i \in 1..n |-> v[t[i]]]
           h == [i \in 1..(m + n) |-> v[(s \o t)[i]]]
           G == {k \in Nat : k <= n => SumOver(h, 1..(m + k)) = SumOver(f, 1..m) + SumOver(g, 1..k)}
<1>1. m \in Nat /\ n \in Nat /\ Len(s \o t) = m + n
  OBVIOUS
<1>2. /\ \A i \in 1..m : h[i] = f[i] /\ f[i] \in Int
      /\ \A i \in 1..n : h[m + i] = g[i] /\ g[i] \in Int
      /\ \A i \in 1..(m + n) : h[i] \in Int
  OBVIOUS
<1>3. SeqSum(v, s) = SumOver(f, 1..m) /\ SeqSum(v, t) = SumOver(g, 1..n)
      /\ SeqSum(v, s \o t) = SumOver(h, 1..(m + n))
  BY <1>1, Zenon DEF SeqSum
<1> HIDE DEF f, g, h, m, n
<1>4. IsFiniteSet(1..m) /\ SumOver(f, 1..m) \in Int
  <2>1. IsFiniteSet(1..m)
    BY <1>1, FS_Interval
  <2>2. QED
    BY <1>2, <2>1, SumInt
<1>5. 0 \in G
  <2>1. SumOver(h, 1..m) = SumOver(f, 1..m)
    BY <1>2, <1>4, SumSame
  <2>2. 1..0 = {} /\ m + 0 = m
    BY <1>1
  <2>3. QED
    BY <1>4, <2>1, <2>2, SumEmpty
<1>6. ASSUME NEW k \in G PROVE k + 1 \in G
  <2>1. SUFFICES ASSUME k + 1 <= n
                 PROVE  SumOver(h, 1..(m + (k + 1))) = SumOver(f, 1..m) + SumOver(g, 1..(k + 1))
    OBVIOUS
  <2>2. m + k \in Nat /\ m + (k + 1) = (m + k) + 1
    BY <1>1
  <2>3. \A i \in 1..((m + k) + 1) : h[i] \in Int
    BY <1>1, <1>2, <2>1
  <2>4. SumOver(h, 1..((m + k) + 1)) = h[(m + k) + 1] + SumOver(h, 1..(m + k))
    BY <2>2, <2>3, SumUpTo
  <2>5. \A i \in 1..(k + 1) : g[i] \in Int
    BY <1>1, <1>2, <2>1
  <2>6. SumOver(g, 1..(k + 1)) = g[k + 1] + SumOver(g, 1..k)
    BY <2>5, SumUpTo
  <2>7. k + 1 \in 1..n /\ k <= n
    BY <1>1, <2>1
  <2>8. h[(m + k) + 1] = g[k + 1] /\ g[k + 1] \in Int
    BY <1>2, <2>2, <2>7
  <2>9. SumOver(g, 1..k) \in Int
    <3>1. IsFiniteSet(1..k) /\ \A i \in 1..k : g[i] \in Int
      BY <2>5, FS_Interval
    <3>2. QED
      BY <3>1, SumInt
  <2>10. SumOver(h, 1..(m + k)) = SumOver(f, 1..m) + SumOver(g, 1..k)
    BY <2>7
  <2>11. QED
    BY <1>4, <2>2, <2>4, <2>6, <2>8, <2>9, <2>10
<1>7. G = Nat
  <2> HIDE DEF G
  <2>1. G \subseteq Nat
    BY DEF G
  <2>2. QED
    BY <1>5, <1>6, <2>1, SetOfAllNaturals
<1>8. SumOver(h, 1..(m + n)) = SumOver(f, 1..m) + SumOver(g, 1..n)
  <2>1. n \in G
    BY <1>1, <1>7
  <2>2. QED
    BY <1>1, <2>1
<1>9. QED
  BY <1>3, <1>8, Zenon

\* The sum over a sequence of one element.
LEMMA SeqSumOne ==
    ASSUME NEW S, NEW v \in [S -> Int], NEW x \in S
    PROVE  SeqSum(v, <<x>>) = v[x]
<1> DEFINE f == [i \in 1..1 |-> v[<<x>>[i]]]
<1>1. Len(<<x>>) = 1 /\ f[1] = v[x] /\ f[1] \in Int
  OBVIOUS
<1>2. SeqSum(v, <<x>>) = SumOver(f, 1..1)
  BY <1>1, Zenon DEF SeqSum
<1> HIDE DEF f
<1>3. SumOver(f, 1..(0 + 1)) = f[0 + 1] + SumOver(f, 1..0)
  <2>1. \A i \in 1..(0 + 1) : f[i] \in Int
    BY <1>1
  <2>2. QED
    BY <2>1, SumUpTo
<1>4. 0 + 1 = 1 /\ 1..0 = {}
  OBVIOUS
<1>5. SumOver(f, {}) = 0
  BY SumEmpty
<1>6. QED
  BY <1>1, <1>2, <1>3, <1>4, <1>5

\* The sum over a sequence splits off its first term.
LEMMA SeqSumTail ==
    ASSUME NEW S, NEW v \in [S -> Int], NEW seq \in Seq(S), seq # <<>>
    PROVE  SeqSum(v, seq) = v[Head(seq)] + SeqSum(v, Tail(seq))
<1>1. /\ Head(seq) \in S /\ Tail(seq) \in Seq(S) /\ <<Head(seq)>> \in Seq(S)
      /\ seq = <<Head(seq)>> \o Tail(seq)
  OBVIOUS
<1>2. SeqSum(v, <<Head(seq)>> \o Tail(seq)) = SeqSum(v, <<Head(seq)>>) + SeqSum(v, Tail(seq))
  BY <1>1, SeqSumConcat
<1>3. SeqSum(v, <<Head(seq)>>) = v[Head(seq)]
  BY <1>1, SeqSumOne
<1>4. QED
  BY <1>1, <1>2, <1>3

\* A set that grows by the elements of a sequence, none of which it had.
Grown(B, h, n) == B \cup {h[i] : i \in 1..n}

AllNew(B, h, n, g) ==
    /\ \A x \in B : g[x] \in Int
    /\ \A i \in 1..n : h[i] \notin B /\ g[h[i]] \in Int
    /\ \A i, j \in 1..n : h[i] = h[j] => i = j

ValuesOf(g, h, n) == [i \in 1..n |-> g[h[i]]]

\* Adding new elements to a set adds their values to the sum.
LEMMA SumOfAdded ==
    ASSUME NEW B, IsFiniteSet(B), NEW g, NEW n \in Nat, NEW h, AllNew(B, h, n, g)
    PROVE  /\ IsFiniteSet(Grown(B, h, n))
           /\ SumOver(g, Grown(B, h, n)) = SumOver(g, B) + SumOver(ValuesOf(g, h, n), 1..n)
<1> DEFINE A(k) == B \cup {h[i] : i \in 1..k}
           f == [i \in 1..n |-> g[h[i]]]
           G == {k \in Nat : k <= n =>
                  IsFiniteSet(A(k)) /\ SumOver(g, A(k)) = SumOver(g, B) + SumOver(f, 1..k)}
<1> USE DEF AllNew
<1>1. SumOver(g, B) \in Int
  BY SumInt
<1>2. \A i \in 1..n : f[i] = g[h[i]] /\ f[i] \in Int
  OBVIOUS
<1> HIDE DEF f
<1>3. 0 \in G
  <2>1. 1..0 = {} /\ A(0) = B
    OBVIOUS
  <2> HIDE DEF A
  <2>2. QED
    BY <1>1, <2>1, SumEmpty
<1>4. ASSUME NEW k \in G PROVE k + 1 \in G
  <2>1. SUFFICES ASSUME k + 1 <= n
                 PROVE  /\ IsFiniteSet(A(k + 1))
                        /\ SumOver(g, A(k + 1)) = SumOver(g, B) + SumOver(f, 1..(k + 1))
    OBVIOUS
  <2>2. k \in Nat /\ k <= n /\ k + 1 \in 1..n /\ \A i \in 1..k : i \in 1..n /\ i # k + 1
    BY <2>1
  <2>3. A(k + 1) = A(k) \cup {h[k + 1]}
    <3>1. 1..(k + 1) = (1..k) \cup {k + 1}
      BY <2>2
    <3>2. QED
      BY <3>1
  <2>4. h[k + 1] \notin A(k)
    BY <2>2
  <2>5. \A x \in A(k + 1) : g[x] \in Int
    BY <2>2, <2>3
  <2>6. IsFiniteSet(A(k)) /\ SumOver(g, A(k)) = SumOver(g, B) + SumOver(f, 1..k)
    BY <2>2
  <2> HIDE DEF A
  <2>7. IsFiniteSet(A(k + 1))
    BY <2>3, <2>6, FS_AddElement
  <2>8. A(k + 1) \ {h[k + 1]} = A(k) /\ h[k + 1] \in A(k + 1)
    BY <2>3, <2>4
  <2>9. SumOver(g, A(k + 1)) = g[h[k + 1]] + SumOver(g, A(k))
    BY <2>5, <2>7, <2>8, SumRemove
  <2>10. SumOver(f, 1..(k + 1)) = f[k + 1] + SumOver(f, 1..k)
    <3>1. \A i \in 1..(k + 1) : f[i] \in Int
      BY <1>2, <2>1
    <3>2. QED
      BY <2>2, <3>1, SumUpTo
  <2>11. SumOver(f, 1..k) \in Int
    <3>1. IsFiniteSet(1..k) /\ \A i \in 1..k : f[i] \in Int
      BY <1>2, <2>2, FS_Interval
    <3>2. QED
      BY <3>1, SumInt
  <2>12. QED
    BY <1>1, <1>2, <2>2, <2>6, <2>7, <2>9, <2>10, <2>11
<1>5. G = Nat
  <2> HIDE DEF G
  <2>1. G \subseteq Nat
    BY DEF G
  <2>2. QED
    BY <1>3, <1>4, <2>1, SetOfAllNaturals
<1>6. QED
  <2>1. n \in G
    BY <1>5
  <2>2. IsFiniteSet(A(n)) /\ SumOver(g, A(n)) = SumOver(g, B) + SumOver(f, 1..n)
    BY <2>1
  <2>3. QED
    BY <2>2 DEF f, Grown, ValuesOf

\* A sum over the elements that are chosen.
LEMMA SumChosen ==
    ASSUME NEW S, IsFiniteSet(S), NEW C \in SUBSET S, NEW f, NEW g,
           \A x \in S : f[x] \in Int /\ g[x] = IF x \in C THEN f[x] ELSE 0
    PROVE  SumOver(f, C) = SumOver(g, S)
<1> DEFINE G == {T \in SUBSET S : SumOver(g, T) = SumOver(f, T \cap C)}
<1>1. {} \in G
  <2>1. {} \cap C = {}
    OBVIOUS
  <2>2. QED
    BY <2>1, SumEmpty
<1>2. \A T \in SUBSET S : T # {} /\ T \ {Pick(T)} \in G => T \in G
  <2> SUFFICES ASSUME NEW T \in SUBSET S, T # {}, T \ {Pick(T)} \in G
               PROVE  T \in G
    OBVIOUS
  <2> DEFINE x == Pick(T)
  <2>1. x \in T
    BY DEF Pick
  <2> HIDE DEF x
  <2>2. IsFiniteSet(T) /\ IsFiniteSet(T \cap C)
    BY FS_Subset
  <2>3. SumOver(g, T) = g[x] + SumOver(g, T \ {x})
    BY <2>2, SumPick DEF x
  <2>4. SumOver(g, T \ {x}) = SumOver(f, (T \ {x}) \cap C)
    BY DEF x
  <2>5. SumOver(g, T \ {x}) \in Int
    <3>1. IsFiniteSet(T \ {x})
      BY <2>2, FS_Subset
    <3>2. QED
      BY <3>1, SumInt
  <2>6. CASE x \in C
    <3>1. x \in T \cap C /\ (T \cap C) \ {x} = (T \ {x}) \cap C
      BY <2>1, <2>6
    <3>2. SumOver(f, T \cap C) = f[x] + SumOver(f, (T \cap C) \ {x})
      BY <2>2, <3>1, SumRemove
    <3>3. g[x] = f[x]
      BY <2>1, <2>6
    <3>4. SumOver(g, T) = SumOver(f, T \cap C)
      BY <2>3, <2>4, <3>1, <3>2, <3>3
    <3>5. QED
      BY <3>4
  <2>7. CASE x \notin C
    <3>1. T \cap C = (T \ {x}) \cap C
      BY <2>7
    <3>2. g[x] = 0
      BY <2>1, <2>7
    <3>3. SumOver(g, T) = SumOver(g, T \ {x})
      BY <2>3, <2>5, <3>2
    <3>4. SumOver(g, T) = SumOver(f, T \cap C)
      BY <2>4, <3>1, <3>3, Zenon
    <3>5. QED
      BY <3>4
  <2>8. QED
    BY <2>6, <2>7
<1>3. S \in G
  <2> HIDE DEF G
  <2>1. QED
    BY <1>1, <1>2, PickInduction
<1>4. S \cap C = C
  OBVIOUS
<1>5. QED
  BY <1>3, <1>4
=============================================================================
