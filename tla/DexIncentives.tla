--------------------------- MODULE DexIncentives ---------------------------
(***************************************************************************)
(* The DEX Incentives module (dexIncentives/): the liquidity provider      *)
(* incentives minted by every block and the payout, once a round, of the   *)
(* incentives locked for the validators, together with the fees of swaps   *)
(* that the DEX module locks for them (dex/utils/swapFunctions.ts).        *)
(*                                                                         *)
(* The transfers and locks of both are not awaited.  A call of the token   *)
(* module is a sequence of updates of accounts, each a read (getting) and  *)
(* a later write (setting) of one record, as in every store of the chain;  *)
(* the calls under way interleave.                                         *)
(***************************************************************************)
EXTENDS TokenLedger, FiniteSets, FiniteSetsExt, LPIncentives, Numbers

CONSTANTS
    Validators,       \* the validators of the round
    BftWeight,        \* their BFT weights, 0 for a standby validator
    Fees,             \* fees in LSK that a swap leaves for the validators
    Scale,            \* one in the fixed-point numbers: 2^96 in the code
    GenesisHeight,
    GenesisLocked,    \* amounts locked for the validators at genesis
    MaxHeight,        \* bound: the last block
    MaxSwaps          \* bound: swaps that leave a fee

ASSUME IncentivesAssumption ==
    /\ IsFiniteSet(Validators) /\ BftWeight \in [Validators -> Nat]
    /\ \E v \in Validators : BftWeight[v] # 0
    /\ Fees \subseteq Nat \ {0} /\ Scale \in Nat \ {0}
    /\ GenesisHeight \in Nat /\ GenesisLocked \subseteq Nat
    /\ MaxHeight \in Nat /\ MaxSwaps \in Nat

\* There are fewer validators, 103 in a round, than integers that are exact.
ASSUME PrecisionAssumption == Cardinality(Validators) <= ExactUpTo

\* TOKEN_ID_LSK of dex/constants.ts, in which the fees are paid, and of
\* dexIncentives/constants.ts, in which the payout is made.
DexTokenLSK == "0000000100000000"
PayoutTokenLSK == "0400000000000000"
Tokens == {DexTokenLSK, PayoutTokenLSK}

\* ADDRESS_VALIDATOR_INCENTIVES, the same in both modules.
ValidatorIncentives == "validatorIncentivesAccount"
Accounts == Validators \cup {ValidatorIncentives}

\* The address is a hash of the module's name; nobody has a key for it.
ASSUME AddressAssumption == ValidatorIncentives \notin Validators

Phases == {"transactions", "after", "done"}

VARIABLES
    height,      \* height of the block being executed
    phase,       \* where its execution stands
    minted,      \* height -> incentives locked for liquidity providers after it
    ledger,      \* <<account, token>> -> available and locked balance
    owed,        \* validator -> sum of the shares it was granted
    swaps,       \* swaps that left a fee
    getting,     \* calls of the token module, before a read
    setting      \* the same calls before the write that follows

vars == <<height, phase, minted, ledger, owed, swaps, getting, setting>>

Init ==
    /\ height = GenesisHeight
    /\ phase = "done"
    /\ minted = [h \in {GenesisHeight} |-> 0]
    /\ \E locked \in GenesisLocked :
          ledger = [key \in Accounts \X Tokens |->
            [available |-> 0,
             locked |-> IF key = <<ValidatorIncentives, PayoutTokenLSK>> THEN locked ELSE 0]]
    /\ owed = [v \in Validators |-> 0]
    /\ swaps = 0
    /\ getting = {}
    /\ setting = {}

-----------------------------------------------------------------------------
(* Calls of the token module.  An update of a call is refused when the     *)
(* balance it takes from is too low.                                       *)

\* Mutant of Covered: only the locked balance is looked at.
LockedCovered(step) == ledger[step.key].locked + step.locked >= 0

Covered(step) == Covers(ledger[step.key], step)

TokenGet(c) ==
    LET step == Head(c.steps)
    IN  /\ getting' = getting \ {c}
        /\ setting' = IF Covered(step)
                      THEN setting \cup {[call |-> c, account |-> Moved(ledger[step.key], step)]}
                      ELSE setting
        /\ UNCHANGED <<height, phase, minted, ledger, owed, swaps>>

TokenSet(w) ==
    LET rest == Tail(w.call.steps)
    IN  /\ setting' = setting \ {w}
        /\ ledger' = [ledger EXCEPT ![Head(w.call.steps).key] = w.account]
        /\ getting' = IF rest = <<>> THEN getting
                      ELSE getting \cup {[w.call EXCEPT !.steps = rest]}
        /\ UNCHANGED <<height, phase, minted, owed, swaps>>

-----------------------------------------------------------------------------
(* Blocks *)

\* The promises left by the last block have settled.
NextBlock ==
    /\ phase = "done"
    /\ getting = {} /\ setting = {}
    /\ height < MaxHeight
    /\ height' = height + 1
    /\ phase' = "transactions"
    /\ UNCHANGED <<minted, ledger, owed, swaps, getting, setting>>

\* transferFeesFromPool: the fee leaves the pool and is locked for the
\* validators, two calls that are not awaited.  The pool has the fee.
TransferFeesFromPool(fee) ==
    /\ phase = "transactions"
    /\ swaps < MaxSwaps
    /\ swaps' = swaps + 1
    /\ getting' = getting \cup
          {[id |-> <<"transfer", swaps>>, steps |-> <<Credit(ValidatorIncentives, DexTokenLSK, fee)>>],
           [id |-> <<"lock", swaps>>, steps |-> Lock(ValidatorIncentives, DexTokenLSK, fee)]}
    /\ UNCHANGED <<height, phase, minted, ledger, owed, setting>>

\* afterTransactionsExecute mints the incentive of the block and locks it.
MintLiquidityIncentives ==
    /\ phase = "transactions"
    /\ minted' = [h \in DOMAIN minted \cup {height} |->
                    IF h = height
                    THEN minted[height - 1] + LiquidityIncentivesAtHeight(height)
                    ELSE minted[h]]
    /\ phase' = IF height % Cardinality(Validators) = 0 THEN "after" ELSE "done"
    /\ UNCHANGED <<height, ledger, owed, swaps, getting, setting>>

-----------------------------------------------------------------------------
(* The payout *)

Standby == {v \in Validators : BftWeight[v] = 0}
TotalWeight == MapThenSumSet(LAMBDA v : BftWeight[v], Validators)

\* Mutant of LeftForActive: the standby shares are not taken off.
NothingTakenOff(available) == available

\* The quotient goes through a number, which may round it up.
StandbyShare(available) == AsNumber(available \div Cardinality(Validators))

\* What the continuations of the first forEach leave when the second starts.
LeftForActive(available) == available - Cardinality(Standby) * StandbyShare(available)

IncentivePerBFTWeight(available) == (LeftForActive(available) * Scale) \div TotalWeight

\* The share of validator v: divQ96, mulQ96 and roundDownQ96 on numbers scaled
\* by Scale.
Share(v, available) ==
    IF v \in Standby THEN StandbyShare(available)
    ELSE (IncentivePerBFTWeight(available) * BftWeight[v]) \div Scale

Remainder(available) == available - MapThenSumSet(LAMBDA v : Share(v, available), Validators)

\* Mutant of Unlocked: the shares are transferred from the locked balance.
StillLocked(account) == account

Unlocked(account) == [available |-> account.available + account.locked, locked |-> 0]

\* transferAllValidatorLSKIncentives: unlocks what is locked, then issues the
\* transfers of all shares and the lock of the remainder without awaiting them.
PayOut ==
    LET account == <<ValidatorIncentives, PayoutTokenLSK>>
        available == ledger[account].locked
        pay(v) == [id |-> <<"share", v>>,
                   steps |-> Transfer(ValidatorIncentives, v, PayoutTokenLSK, Share(v, available))]
    IN  /\ phase = "after"
        /\ available # 0
        /\ ledger' = [ledger EXCEPT ![account] = Unlocked(@)]
        /\ getting' = getting \cup {pay(v) : v \in Validators} \cup
              {[id |-> <<"remainder", height>>,
                steps |-> Lock(ValidatorIncentives, PayoutTokenLSK, Remainder(available))]}
        /\ owed' = [v \in Validators |-> owed[v] + Share(v, available)]
        /\ phase' = "done"
        /\ UNCHANGED <<height, minted, swaps, setting>>

NothingToPay ==
    /\ phase = "after"
    /\ ledger[<<ValidatorIncentives, PayoutTokenLSK>>].locked = 0
    /\ phase' = "done"
    /\ UNCHANGED <<height, minted, ledger, owed, swaps, getting, setting>>

\* The bounded chain stops after the last block.
BoundReached ==
    /\ height = MaxHeight
    /\ phase = "done"
    /\ getting = {} /\ setting = {}
    /\ UNCHANGED vars

CallStep == (\E c \in getting : TokenGet(c)) \/ (\E w \in setting : TokenSet(w))
HookStep == MintLiquidityIncentives \/ PayOut \/ NothingToPay

Next ==
    \/ NextBlock
    \/ \E fee \in Fees : TransferFeesFromPool(fee)
    \/ MintLiquidityIncentives
    \/ PayOut
    \/ NothingToPay
    \/ \E c \in getting : TokenGet(c)
    \/ \E w \in setting : TokenSet(w)
    \/ BoundReached

Spec == Init /\ [][Next]_vars

\* Blocks keep coming, hooks run on and started calls settle.
Fairness == WF_vars(NextBlock) /\ WF_vars(HookStep) /\ WF_vars(CallStep)

FairSpec == Spec /\ Fairness

-----------------------------------------------------------------------------
(* Properties *)

\* The state has its shape.  That no balance is negative is what the token module
\* guards; whether its guard ever refuses a payout is the matter of SharesCovered.
TypeOK ==
    /\ height \in Nat /\ phase \in Phases /\ swaps \in Nat
    /\ GenesisHeight <= height
    /\ minted \in [GenesisHeight..(IF phase = "transactions" THEN height - 1 ELSE height) -> Nat]
    /\ ledger \in [Accounts \X Tokens -> [available : Nat, locked : Nat]]
    /\ owed \in [Validators -> Nat]

\* The formula by which a pool's accumulator advances from one height to a later
\* one is what the hooks of the blocks in between minted, those of the start
\* block excluded.
RangeIsMinted ==
    \A start, end \in DOMAIN minted :
        start < end => LPIncentivesInRange(start, end) = minted[end] - minted[start]

\* No call of the payout is refused: in whatever order the reads and writes of the
\* shares and the remainder interleave, the account has what the next one needs.
SharesCovered ==
    \A c \in getting : Head(c.steps).key[2] = PayoutTokenLSK => Covered(Head(c.steps))

\* Once the calls have settled each validator has received all its shares.  Of the
\* account that pays them this says nothing: debits that read it together overwrite
\* one another, and may overwrite the lock of the remainder.
OwedIsPaid ==
    getting \cup setting = {} =>
        \A v \in Validators : ledger[<<v, PayoutTokenLSK>>].available = owed[v]

\* A token locked for the validators in time for a payout of the bounded chain
\* reaches one of them.
ReachesValidators(token) ==
    (/\ ledger[<<ValidatorIncentives, token>>].locked >= Cardinality(Validators)
     /\ height + Cardinality(Validators) <= MaxHeight)
      ~> (\E v \in Validators : ledger[<<v, token>>].available > 0)

\* What is locked in the token of the payout reaches the validators.
LockedIsPaidOut == ReachesValidators(PayoutTokenLSK)

\* The fees that swaps leave for the validators reach them.
FeesArePaidOut == ReachesValidators(DexTokenLSK)
=============================================================================
