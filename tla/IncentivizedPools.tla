------------------------- MODULE IncentivizedPools -------------------------
(***************************************************************************)
(* The list of incentivized pools of the DEX global store, and the module  *)
(* method by which DEX Governance changes it (dex/method.ts).              *)
(* A pool ID is a natural number: only identity and order matter.          *)
(***************************************************************************)
EXTENDS Integers, Sequences, FiniteSets, SequencesExt

\* The part of DexGlobalStoreData that the method reads and writes.
EmptyDexGlobal == [incentivizedPools |-> <<>>, totalIncentivesMultiplier |-> 0]

\* Mutant of DropPool: the pool's old entry stays.
KeepPool(global, poolId) == global

(***************************************************************************)
(* forEach with a splice inside: dropping the entry at the cursor moves    *)
(* the next one under it, so the entry after a dropped one is not visited. *)
(***************************************************************************)
DropPool(global, poolId) ==
    LET visit(state, entry) ==
            IF state.skip \/ entry.poolId # poolId
            THEN [state EXCEPT !.kept = Append(@, entry), !.skip = FALSE]
            ELSE [state EXCEPT !.total = @ - entry.multiplier, !.skip = TRUE]
        last == FoldLeft(visit,
                         [kept |-> <<>>, total |-> global.totalIncentivesMultiplier, skip |-> FALSE],
                         global.incentivizedPools)
    IN  [incentivizedPools |-> last.kept, totalIncentivesMultiplier |-> last.total]

\* sort: an entry takes the place that counts the entries up to it; of two with
\* one pool ID the earlier one stays before the later.
Sorted(list) ==
    LET upTo(j) == {k \in DOMAIN list :
                      \/ list[k].poolId < list[j].poolId
                      \/ list[k].poolId = list[j].poolId /\ k <= j}
    IN  [n \in DOMAIN list |-> list[CHOOSE j \in DOMAIN list : Cardinality(upTo(j)) = n]]

AddPool(global, poolId, multiplier) ==
    [incentivizedPools |->
        Sorted(Append(global.incentivizedPools, [poolId |-> poolId, multiplier |-> multiplier])),
     totalIncentivesMultiplier |-> global.totalIncentivesMultiplier + multiplier]

\* updatePoolIncentives, called first for every listed pool, returns without a
\* change: its Buffer identity test (allPoolIds.includes) never succeeds.
UpdateIncentivizedPools(global, poolId, multiplier) ==
    IF multiplier > 0
    THEN AddPool(DropPool(global, poolId), poolId, multiplier)
    ELSE DropPool(global, poolId)
=============================================================================
