---------------------------- MODULE DexEndpoint ----------------------------
(***************************************************************************)
(* Queries of the DEX module (dex/endpoint.ts): the dry runs of swaps.     *)
(* They read the stores and change nothing.                                *)
(***************************************************************************)
EXTENDS PoolSwaps

CONSTANT MaxHops     \* MAX_HOPS_SWAP

ASSUME HopsAssumption == MaxHops \in Nat \ {0}

OtherToken(poolID, token) == IF Token0(poolID) = token THEN Token1(poolID) ELSE Token0(poolID)

\* What is passed on from pool to pool in a dry run: the token, its amount, and
\* the other amount of the last swap.
PassedOn(token, amount) == [token |-> token, amount |-> amount, last |-> 0]

\* The swaps of a dry run with an exact input have an exact output.
DryRunHopIn(s, poolID, passed) ==
    LET zeroToOne == Token0(poolID) = passed.token
    IN  {[token |-> OtherToken(poolID, passed.token), amount |-> swap.out, last |-> swap.in] :
            swap \in Swap(s, poolID, zeroToOne, Limit(zeroToOne), passed.amount, FALSE)}

\* The swaps of a dry run with an exact output have an exact input, and go from
\* the first token of the pool when that is the one to come out.
DryRunHopOut(s, poolID, passed) ==
    LET zeroToOne == Token0(poolID) = passed.token
    IN  {[token |-> OtherToken(poolID, passed.token), amount |-> swap.in, last |-> swap.out] :
            swap \in Swap(s, poolID, zeroToOne, Limit(zeroToOne), passed.amount, TRUE)}

\* The answers of the dry runs.  The comparison of the two token IDs is one of
\* objects and never true.
DryRunSwapExactIn(s, tokenIn, tokenOut, route, amountIn, minAmountOut) ==
    LET passed[n \in 0..Len(route)] ==
          IF n = 0 THEN {PassedOn(tokenIn, amountIn)}
          ELSE UNION {DryRunHopIn(s, route[n], p) : p \in passed[n - 1]}
    IN  IF Len(route) \notin 1..MaxHops
             \/ ComputeCurrentPrice(s.pools, tokenIn, tokenOut, route) = {}
        THEN {}
        ELSE {[in |-> p.last, out |-> p.amount] :
                p \in {p \in passed[Len(route)] : p.amount >= minAmountOut}}

\* The price after it is computed along the reversed route.
DryRunSwapExactOut(s, tokenIn, tokenOut, swapRoute, amountOut, maxAmountIn) ==
    LET route == Reverse(swapRoute)
        passed[n \in 0..Len(route)] ==
          IF n = 0 THEN {PassedOn(tokenOut, amountOut)}
          ELSE UNION {DryRunHopOut(s, route[n], p) : p \in passed[n - 1]}
    IN  IF \/ Len(swapRoute) \notin 1..MaxHops
           \/ ComputeCurrentPrice(s.pools, tokenIn, tokenOut, swapRoute) = {}
           \/ ComputeCurrentPrice(s.pools, tokenIn, tokenOut, route) = {}
        THEN {}
        ELSE {[in |-> p.amount, out |-> p.last] :
                p \in {p \in passed[Len(route)] : p.amount <= maxAmountIn}}
=============================================================================
