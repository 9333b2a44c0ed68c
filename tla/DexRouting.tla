----------------------------- MODULE DexRouting -----------------------------
(***************************************************************************)
(* The search for a route between two tokens (dex/utils/swapFunctions.ts). *)
(* Pools are the edges of a graph whose vertices are tokens.               *)
(***************************************************************************)
EXTENDS DexStores

CONSTANT MaxTurns    \* bound: turns of a search that are looked at

ASSUME TurnsAssumption == MaxTurns \in Nat

\* The order of the keys of pools.
Before(p, q) == \E i \in DOMAIN p : p[i] < q[i] /\ \A j \in 1..(i - 1) : p[j] = q[j]

\* The pools in the order of their keys: a pool comes after as many as are before it.
AllPoolIDs(pools) ==
    [i \in 1..Cardinality(pools) |->
        CHOOSE p \in pools : Cardinality({q \in pools : Before(q, p)}) = i - 1]

\* Mutant of GetAdjacent: pools lead from their first token only.
FromFirstToken(pools, vertex) ==
    LET edges == AllPoolIDs({p \in pools : vertex = Token0(p)})
    IN  [i \in DOMAIN edges |-> [edge |-> edges[i], vertex |-> Token1(edges[i])]]

\* The pools that have a token.
PoolsOf(pools, token) == {p \in pools : token \in {Token0(p), Token1(p)}}

\* The pools of a token, each with its other token; a pool that has the token
\* twice leads back to it.
GetAdjacent(pools, vertex) ==
    LET edges == AllPoolIDs(PoolsOf(pools, vertex))
    IN  [i \in DOMAIN edges |->
            [edge |-> edges[i],
             vertex |-> IF Token0(edges[i]) = vertex THEN Token1(edges[i]) ELSE Token0(edges[i])]]

\* computeRegularRoute looks for tokens among the IDs of pools, which are longer.
IsEdge(adjacent, token) == \E i \in DOMAIN adjacent : adjacent[i].edge = token

ComputeRegularRoute(pools, tokenIn, tokenOut) ==
    LET lskAdjacent == GetAdjacent(pools, TokenLSK)
    IN  IF IsEdge(lskAdjacent, <<tokenIn>>) /\ IsEdge(lskAdjacent, <<tokenOut>>)
        THEN <<tokenIn, TokenLSK, tokenOut>>
        ELSE IF IsEdge(GetAdjacent(pools, tokenIn), <<tokenOut>>) THEN <<tokenIn, tokenOut>>
        ELSE <<>>

-----------------------------------------------------------------------------
(* computeExceptionalRoute.  Every route under way has the same array as its *)
(* path.  A visited token is looked for by identity and never found, so that *)
(* every adjacent token is visited again.                                    *)

Turn(pools, tokenOut, search) ==
    LET adjacent == GetAdjacent(pools, Head(search.endVertices))
    IN  IF Head(search.endVertices) = tokenOut
        THEN [search EXCEPT !.found = TRUE, !.path = Append(@, <<tokenOut>>)]
        ELSE [search EXCEPT
                !.endVertices = Tail(@) \o [i \in DOMAIN adjacent |-> adjacent[i].vertex],
                !.path = @ \o [i \in DOMAIN adjacent |-> adjacent[i].edge]]

Ended(search) == search.found \/ search.endVertices = <<>>

FirstSearch(tokenIn) == [endVertices |-> <<tokenIn>>, path |-> <<>>, found |-> FALSE]

\* The search after as many turns as are looked at, or when it ended.
ExceptionalSearch(pools, tokenIn, tokenOut) ==
    LET after[n \in 0..MaxTurns] ==
            IF n = 0 THEN FirstSearch(tokenIn)
            ELSE LET search == after[n - 1]
                 IN  IF Ended(search) THEN search ELSE Turn(pools, tokenOut, search)
    IN  after[MaxTurns]

\* What is returned when the search ends.
ComputeExceptionalRoute(pools, tokenIn, tokenOut) ==
    LET search == ExceptionalSearch(pools, tokenIn, tokenOut)
    IN  IF ~Ended(search) THEN {} ELSE IF search.found THEN {search.path} ELSE {<<>>}
=============================================================================
