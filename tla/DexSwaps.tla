------------------------------ MODULE DexSwaps ------------------------------
(***************************************************************************)
(* The commands swapExactIn, swapExactOut and swapWithPriceLimit of the DEX *)
(* module (dex/commands/) and the settlement of their swaps.               *)
(*                                                                         *)
(* A command decides in one step.  The calls that pay for its swaps are    *)
(* started one after the other and none is awaited: the reads and writes   *)
(* of all calls under way interleave, with one another and with the next   *)
(* commands.                                                               *)
(***************************************************************************)
EXTENDS DexPositions, DexEndpoint, Numbers

CONSTANTS
    Senders,     \* addresses made of the first bytes of a public key
    RoutesIn,    \* bound: the routes users propose for an exact input
    RoutesOut,   \* bound: the routes users propose for an exact output
    Limits,      \* bound: the limits users set to the square root of a price
    SwapAmounts, \* bound: the amounts users swap
    MaxSwaps,    \* bound: swaps
    MaxUnderWay  \* bound: calls under way at a time

ASSUME CommandsAssumption ==
    /\ IsFiniteSet(Addresses)
    /\ Senders \subseteq Accounts /\ RoutesIn \cup RoutesOut \subseteq Seq(Pools)
    /\ Limits \subseteq Nat /\ SwapAmounts \subseteq Nat
    /\ MaxSwaps \in Nat /\ MaxUnderWay \in Nat

VARIABLES
    opening,     \* the balances before the first swap
    swapped,     \* the SwappedEvents
    getting,     \* calls of the token module, before a read
    setting,     \* the same calls before the write that follows
    clashed,     \* records that a call read before another one's write to it
    refused      \* calls that threw: a balance was too low

settlement == <<getting, setting, clashed, refused>>
swapsVars == <<vars, opening, swapped, settlement>>

SwapsInit ==
    /\ Init
    /\ opening = state.ledger
    /\ swapped = <<>>
    /\ getting = {} /\ setting = {}
    /\ clashed = {} /\ refused = {}

-----------------------------------------------------------------------------
(* Settlement *)

\* Mutant of TransferPoolToPool: the tokens are locked before they arrive.
LockedFirst(from, to, token, amount) ==
    Unlock(from, token, amount) \o Lock(to, token, amount) \o Transfer(from, to, token, amount)

TransferPoolToPool(from, to, token, amount) ==
    Unlock(from, token, amount) \o Transfer(from, to, token, amount) \o Lock(to, token, amount)

\* Mutant of TransferFeesFromPool: the fee is not locked where it arrives.
FeesNotLocked(amount, token, pool) ==
    LET fee == ValidatorFee(AsNumber(amount), token)
    IN  IF fee > 0 THEN <<TransferFromPool(pool, ValidatorIncentives, token, fee)>> ELSE <<>>

\* Two calls, of which the second does not wait for the first.  The fees of the
\* swap are handed over as a number.
TransferFeesFromPool(amount, token, pool) ==
    LET fee == ValidatorFee(AsNumber(amount), token)
    IN  IF fee > 0 THEN <<TransferFromPool(pool, ValidatorIncentives, token, fee),
                          Lock(ValidatorIncentives, token, fee)>>
                   ELSE <<>>

\* The calls for the tokens that pass from each pool of a walk to the next.
BetweenPools(route, walk, feeBehind, feeAhead) ==
    FlattenSeq([i \in 1..(Len(route) - 1) |->
        LET token == walk.tokens[i + 1]
        IN  TransferFeesFromPool(walk.fees[i][feeBehind], token.id, route[i])
            \o <<TransferPoolToPool(route[i], route[i + 1], token.id, token.amount)>>
            \o TransferFeesFromPool(walk.fees[i + 1][feeAhead], token.id, route[i + 1])])

\* A SwappedEvent and the start of all calls that settle it.
Settle(sender, tokenIn, amountIn, tokenOut, amountOut, calls) ==
    /\ Cardinality(getting) + Cardinality(setting) + Len(calls) <= MaxUnderWay
    /\ swapped' = Append(swapped,
          [sender |-> sender, tokenIn |-> tokenIn, amountIn |-> amountIn,
           tokenOut |-> tokenOut, amountOut |-> amountOut])
    /\ getting' = getting \cup
          {[id |-> <<Len(swapped), i>>, steps |-> calls[i]] : i \in DOMAIN calls}
    /\ UNCHANGED <<vars, opening, setting, clashed, refused>>

-----------------------------------------------------------------------------
(* Swaps along a route *)

ValidRoute(tokenIn, tokenOut, route) ==
    /\ tokenIn # tokenOut
    /\ Len(route) \in 1..MaxHops
    /\ tokenIn \in {Token0(route[1]), Token1(route[1])}
    /\ Token0(Last(route)) = tokenOut \/ Token1(route[1]) = tokenOut

Walked(walk, token, amount, swap) ==
    [tokens |-> Append(walk.tokens, [id |-> token, amount |-> amount]),
     fees |-> Append(walk.fees, [in |-> swap.feesIn, out |-> swap.feesOut])]

SwapsLeft == Len(swapped) < MaxSwaps

\* The swap of a pool is always one of its first token.
HopExactIn(s, poolID, walk) ==
    LET given == Last(walk.tokens)
        zeroToOne == Token0(poolID) = given.id
    IN  IF given.id \notin {Token0(poolID), Token1(poolID)} THEN {}
        ELSE {Walked(walk, TokenOf(poolID, IF zeroToOne THEN 1 ELSE 0), swap.out, swap) :
                swap \in Swap(s, poolID, TRUE, Limit(zeroToOne), given.amount, TRUE)}

HopExactOut(s, poolID, walk) ==
    LET asked == Last(walk.tokens)
        zeroToOne == Token1(poolID) = asked.id
    IN  IF asked.id \notin {Token0(poolID), Token1(poolID)} THEN {}
        ELSE {Walked(walk, TokenOf(poolID, IF zeroToOne THEN 0 ELSE 1), swap.in, swap) :
                swap \in Swap(s, poolID, zeroToOne, Limit(zeroToOne), asked.amount, FALSE)}

Start(token, amount) == [tokens |-> <<[id |-> token, amount |-> amount]>>, fees |-> <<>>]

\* The tokens, amounts and fees of the swaps along a route.
WalksExactIn(s, route, token, amount) ==
    LET walks[n \in 0..Len(route)] ==
          IF n = 0 THEN {Start(token, amount)}
          ELSE UNION {HopExactIn(s, route[n], w) : w \in walks[n - 1]}
    IN  walks[Len(route)]

WalksExactOut(s, route, token, amount) ==
    LET walks[n \in 0..Len(route)] ==
          IF n = 0 THEN {Start(token, amount)}
          ELSE UNION {HopExactOut(s, route[n], w) : w \in walks[n - 1]}
    IN  walks[Len(route)]

-----------------------------------------------------------------------------
(* Commands.  One that fails leaves a SwapFailedEvent and nothing else; the  *)
(* minima and maxima of a transaction are those of one that gets through.    *)

SwapExactIn(sender, tokenIn, tokenOut, route, amount) ==
    /\ SwapsLeft
    /\ ValidRoute(tokenIn, tokenOut, route)
    /\ ComputeCurrentPrice(state.pools, tokenIn, tokenOut, route) # {}
    /\ \E walk \in WalksExactIn(state, route, tokenIn, amount) :
          Settle(sender, tokenIn, amount, tokenOut, Last(walk.tokens).amount,
              <<TransferToPool(sender, route[1], tokenIn, amount)>>
              \o TransferFeesFromPool(walk.fees[1].in, tokenIn, route[1])
              \o BetweenPools(route, walk, "out", "in")
              \o TransferFeesFromPool(Last(walk.fees).out, tokenOut, Last(route))
              \o <<TransferFromPool(Last(route), sender, tokenOut, Last(walk.tokens).amount)>>)

\* The route is reversed in place before its price is computed; the walk starts
\* with the token given, and the amount asked for.
SwapExactOut(sender, tokenIn, tokenOut, swapRoute, amount) ==
    LET route == Reverse(swapRoute)
    IN  /\ SwapsLeft
        /\ ValidRoute(tokenIn, tokenOut, swapRoute)
        /\ ComputeCurrentPrice(state.pools, tokenIn, tokenOut, route) # {}
        /\ \E walk \in WalksExactOut(state, route, tokenIn, amount) :
              Settle(sender, tokenIn, Last(walk.tokens).amount, tokenOut, amount,
                  <<TransferFromPool(route[1], sender, tokenOut, amount)>>
                  \o TransferFeesFromPool(walk.fees[1].out, tokenOut, route[1])
                  \o BetweenPools(route, walk, "in", "out")
                  \o TransferFeesFromPool(Last(walk.fees).in, tokenIn, Last(route))
                  \o <<TransferToPool(sender, Last(route), tokenIn, Last(walk.tokens).amount)>>)

SwapWithPriceLimit(sender, tokenIn, tokenOut, poolID, limit, amount) ==
    /\ SwapsLeft
    /\ tokenIn # tokenOut
    /\ {tokenIn, tokenOut} \subseteq {Token0(poolID), Token1(poolID)}
    /\ ComputeCurrentPrice(state.pools, tokenIn, tokenOut, <<poolID>>) # {}
    /\ limit \in MinSqrtRatio..MaxSqrtRatio
    /\ \E swap \in Swap(state, poolID, Token0(poolID) = tokenIn, limit, amount, TRUE) :
          Settle(sender, tokenIn, swap.in, tokenOut, swap.out,
              <<TransferToPool(sender, poolID, tokenIn, swap.in)>>
              \o TransferFeesFromPool(swap.feesIn, tokenIn, poolID)
              \o <<TransferFromPool(poolID, sender, tokenOut, swap.out)>>
              \o TransferFeesFromPool(swap.feesOut, tokenOut, poolID))

\* Bound: positions do not change once there was a swap.  A command that only
\* leaves an event is left out.
PositionCommand ==
    /\ swapped = <<>>
    /\ \E sender \in Accounts \ Senders : Command(sender)
    /\ opening' = state'.ledger
    /\ UNCHANGED <<event, swapped, settlement>>

-----------------------------------------------------------------------------
(* Calls under way *)

Reads(c) == state.ledger[Head(c.steps).key]

Clashes(key) == {key} \cap {Head(w.call.steps).key : w \in setting}

TokenGet(c) ==
    LET covered == Covers(Reads(c), Head(c.steps))
    IN  /\ getting' = getting \ {c}
        /\ setting' = IF covered
                      THEN setting \cup {[call |-> c, account |-> Moved(Reads(c), Head(c.steps))]}
                      ELSE setting
        /\ clashed' = clashed \cup Clashes(Head(c.steps).key)
        /\ refused' = IF covered THEN refused ELSE refused \cup {c.id}
        /\ UNCHANGED <<vars, opening, swapped>>

TokenSet(w) ==
    LET rest == Tail(w.call.steps)
    IN  /\ setting' = setting \ {w}
        /\ state' = [state EXCEPT !.ledger[Head(w.call.steps).key] = w.account]
        /\ getting' = IF rest = <<>> THEN getting ELSE getting \cup {[w.call EXCEPT !.steps = rest]}
        /\ UNCHANGED <<event, created, opening, swapped, clashed, refused>>

SwapsNext ==
    \/ PositionCommand
    \/ \E sender \in Senders, tokenIn, tokenOut \in Tokens, route \in RoutesIn, amount \in SwapAmounts :
          SwapExactIn(sender, tokenIn, tokenOut, route, amount)
    \/ \E sender \in Senders, tokenIn, tokenOut \in Tokens, route \in RoutesOut, amount \in SwapAmounts :
          SwapExactOut(sender, tokenIn, tokenOut, route, amount)
    \/ \E sender \in Senders, tokenIn, tokenOut \in Tokens, poolID \in Pools,
          limit \in Limits, amount \in SwapAmounts :
          SwapWithPriceLimit(sender, tokenIn, tokenOut, poolID, limit, amount)
    \/ \E c \in getting : TokenGet(c)
    \/ \E w \in setting : TokenSet(w)

SwapsSpec == SwapsInit /\ [][SwapsNext]_swapsVars

-----------------------------------------------------------------------------
(* Properties *)

\* The amounts of every event are natural numbers, whatever fees were taken from
\* them, and in whatever order reads and writes interleave no balance is negative.
SwapsTypeOK ==
    /\ TypeOK
    /\ \A i \in DOMAIN swapped :
          swapped[i] \in [sender : Senders, tokenIn : Tokens, amountIn : Nat,
                         tokenOut : Tokens, amountOut : Nat]
    /\ \A c \in getting : c.steps # <<>>

\* What the proofs about amounts assume of the fee tiers: no fee is as large as the
\* partition, by which amounts would be divided, nor larger than One.
FeesModest ==
    \A p \in Pools : FeeTier(p) \div 2 # FeeTierPartition /\ FeeTier(p) \div 2 <= One

\* What the proof about the amounts of a swap assumes of them: next to One = 2^96
\* those of 64 bits are small, and their products with half of a fee tier, too.
AmountsSmall ==
    \A a \in Amounts \cup SwapAmounts :
        /\ LiquidityLimit + a <= One
        /\ \A p \in Pools :
              a * (FeeTier(p) \div 2) < One /\ LiquidityLimit * (FeeTier(p) \div 2) < One

\* Whatever the pools a sequence of commands leaves, a swap in one of them gives
\* out tokens only for tokens, takes no more than was offered, gives no more than
\* was asked for, and its fees are part of what is paid.  Swaps do not change the
\* stores it depends on.
NothingForFree ==
    swapped = <<>> =>
      \A poolID \in DOMAIN state.pools, zeroToOne, exactInput \in BOOLEAN,
                          amount \in Amounts \cup SwapAmounts :
      \A swap \in Swap(state, poolID, zeroToOne, Limit(zeroToOne), amount, exactInput) :
          /\ swap.out > 0 => swap.in > 0
          /\ swap.feesIn \in 0..swap.in /\ swap.feesOut >= 0 /\ swap.out >= 0
          /\ IF exactInput THEN swap.in <= amount ELSE swap.out <= amount

\* The tokens at both ends of every pool of a route lead from one to the other.
IsWalk(tokenIn, tokenOut, route) ==
    \E tokens \in [0..Len(route) -> Tokens] :
        /\ tokens[0] = tokenIn /\ tokens[Len(route)] = tokenOut
        /\ \A i \in DOMAIN route :
              /\ route[i] \in DOMAIN state.pools
              /\ {tokens[i - 1], tokens[i]} = {Token0(route[i]), Token1(route[i])}

\* Exactly the routes that lead from one token to the other through pools that
\* exist have a price.  A dry run answers only along such a route, and one with
\* an exact output, which reverses it on the way, only if its reverse is one too.
RoutesAreWalks ==
    swapped = <<>> =>
      \A tokenIn, tokenOut \in Tokens, route \in RoutesIn \cup RoutesOut, amount \in SwapAmounts :
        /\ ComputeCurrentPrice(state.pools, tokenIn, tokenOut, route) # {}
             <=> IsWalk(tokenIn, tokenOut, route)
        /\ DryRunSwapExactIn(state, tokenIn, tokenOut, route, amount, 0) # {}
             => IsWalk(tokenIn, tokenOut, route)
        /\ DryRunSwapExactOut(state, tokenIn, tokenOut, route, amount, Balance) # {}
             => IsWalk(tokenIn, tokenOut, route) /\ IsWalk(tokenIn, tokenOut, Reverse(route))

AllSettled == getting = {} /\ setting = {} /\ clashed = {} /\ refused = {}

TotalOf(ledger, accounts, token) ==
    FoldFunction(+, 0, [a \in accounts |-> ledger[<<a, token>>].available
                                          + ledger[<<a, token>>].locked])

EventSum(chosen(_), amount(_)) ==
    FoldFunction(+, 0, [i \in {i \in DOMAIN swapped : chosen(swapped[i])} |-> amount(swapped[i])])

\* Once all calls have settled, none refused and no two of them on a record at
\* once, the senders have paid and received what the events say; the pools and
\* the validators have the rest, all of it locked.
SettledAsSwapped ==
    AllSettled =>
      \A token \in Tokens :
        /\ \A a \in Senders :
              state.ledger[<<a, token>>].available =
                opening[<<a, token>>].available
                - EventSum(LAMBDA e : e.sender = a /\ e.tokenIn = token, LAMBDA e : e.amountIn)
                + EventSum(LAMBDA e : e.sender = a /\ e.tokenOut = token, LAMBDA e : e.amountOut)
        /\ \A a \in Pools \cup {ValidatorIncentives} : state.ledger[<<a, token>>].available = 0
        /\ TotalOf(state.ledger, Addresses, token) = TotalOf(opening, Addresses, token)

\* A call is paid as a whole or not at all, although its parts are awaited one by
\* one while other calls take from the same pool.  Whatever is refused, the payment
\* of a sender, a payout or the lock of a fee: once all calls have ended, no two of
\* them on a record at once, no token is lost or new, no pool is left with tokens
\* that are not locked, and no sender has lost more than the events say.
RefusedCallsLeaveNothing ==
    getting = {} /\ setting = {} /\ clashed = {} =>
      \A token \in Tokens :
        /\ TotalOf(state.ledger, Addresses, token) = TotalOf(opening, Addresses, token)
        /\ \A p \in Pools : state.ledger[<<p, token>>].available = 0
        /\ \A a \in Senders :
              state.ledger[<<a, token>>].available >=
                opening[<<a, token>>].available
                - EventSum(LAMBDA e : e.sender = a /\ e.tokenIn = token, LAMBDA e : e.amountIn)
=============================================================================
