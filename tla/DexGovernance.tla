--------------------------- MODULE DexGovernance ---------------------------
(***************************************************************************)
(* The DEX Governance module of the chain (src/app/modules/dexGovernance): *)
(* the proposals, votes and index substores, the two transaction commands, *)
(* the beforeTransactionsExecute hook and the genesis initialisation.      *)
(*                                                                         *)
(* A block is one NextBlock, the steps of the hook's two loops, and then   *)
(* up to MaxTxsPerBlock transactions.  voteOnProposal does not await its   *)
(* calls of addVotes: each is a read (getting) and a later write (setting) *)
(* that interleave with one another and with the transactions that follow *)
(* in the block.                                                           *)
(***************************************************************************)
EXTENDS Integers, Sequences, FiniteSets, FiniteSetsExt, IncentivizedPools

CONSTANTS
    Voters,                \* accounts that hold staked tokens
    Stakes,                \* amounts getLockedStakedAmount may return for one of them
    KnownPools,            \* pools found by the PoolsStore createProposal looks in
    Multipliers,           \* incentive multipliers a proposal may ask for
    QuorumDuration,        \* QUORUM_DURATION, in blocks
    VoteDuration,          \* VOTE_DURATION, in blocks
    MaxRecordedVotes,      \* MAX_NUM_RECORDED_VOTES
    QuorumPercentage,      \* QUORUM_PERCENTAGE, parts per million of the supply
    GenesisHeight, GenesisSupply,
    GenesisProposals,      \* proposalsStore of the module's genesis asset
    GenesisVotes,          \* votesStore of the module's genesis asset
    SeededVotes,           \* votes substores a chain may start with
    BlockMint,             \* amounts by which the token supply may grow in a block
    MaxHeight,             \* bound: the last block
    MaxProposals,          \* bound: proposals ever created
    MaxTxsPerBlock         \* bound: transactions executed in a block

PROPOSAL_STATUS_ACTIVE == 0
PROPOSAL_STATUS_FINISHED_ACCEPTED == 1
PROPOSAL_STATUS_FINISHED_FAILED == 2
PROPOSAL_STATUS_FAILED_QUORUM == 3
Statuses == 0..3

DECISION_YES == 0
DECISION_NO == 1
DECISION_PASS == 2
Decisions == 0..2

\* A universal proposal carries an empty pool ID; pools are positive numbers.
NoPool == 0

\* The index substore holds one record per key: the module uses the empty key,
\* the createProposal command the key '0'.
BlockKey == ""
CommandKey == "0"
IndexKeys == {BlockKey, CommandKey}

\* votesYes, votesNo and votesPass are tally[DECISION_YES], ...
Proposal == [creationHeight : Nat, tally : [Decisions -> Nat], poolID : Nat,
             multiplier : Nat, status : Statuses]
VoteInfo == [proposalIndex : Nat, decision : Decisions, amount : Nat]
IndexStoreData == [newestIndex : Int, nextOutcomeCheckIndex : Nat, nextQuorumCheckIndex : Nat]
Phases == {"quorum", "outcome", "transactions"}

ASSUME GovernanceAssumption ==
    /\ QuorumDuration \in Nat \ {0} /\ VoteDuration \in Nat /\ MaxRecordedVotes \in Nat \ {0}
    /\ QuorumPercentage \in Nat /\ GenesisHeight \in Nat /\ GenesisSupply \in Nat
    /\ MaxHeight \in Nat /\ MaxProposals \in Nat /\ MaxTxsPerBlock \in Nat
    /\ Stakes \subseteq Nat /\ Multipliers \subseteq Nat /\ BlockMint \subseteq Nat
    /\ KnownPools \subseteq Nat \ {NoPool}

\* constants.ts: 260000 - 130000 blocks lie between the ends of the two periods,
\* many more than the 100 proposals that may be in their voting period.
ASSUME DurationsApart == VoteDuration - QuorumDuration >= MaxRecordedVotes

ASSUME SeededAssumption ==
    \A v \in SeededVotes : DOMAIN v \subseteq Voters /\ \A a \in DOMAIN v : v[a] \in Seq(VoteInfo)

VARIABLES
    height,      \* height of the block being executed
    phase,       \* where its execution stands
    txs,         \* transactions executed in it
    supply,      \* total supply of the token, kept by the token module
    proposals,   \* proposals substore: index -> Proposal
    votes,       \* votes substore: voter -> sequence of VoteInfo
    indexStore,  \* index substore: key -> IndexStoreData
    indexRead,   \* the hook's local indexStoreData, read before its loops
    getting,     \* un-awaited addVotes calls before their read of the proposal
    setting,     \* the same calls before their write of it
    dexGlobal    \* incentivized pools in the DEX module's global store

vars == <<height, phase, txs, supply, proposals, votes, indexStore, indexRead,
          getting, setting, dexGlobal>>
stores == <<proposals, votes, indexStore, dexGlobal>>
calls == <<getting, setting>>

Turnout(p) == p.tally[DECISION_YES] + p.tally[DECISION_NO] + p.tally[DECISION_PASS]

\* Mutant of HasEnded: a period that lasts one block more.
EndedOneLater(index, duration) ==
    \/ index < 0
    \/ /\ index \in DOMAIN proposals
       /\ height - proposals[index].creationHeight > duration

HasEnded(index, duration) ==
    \/ index < 0
    \/ /\ index \in DOMAIN proposals
       /\ height - proposals[index].creationHeight >= duration

-----------------------------------------------------------------------------
(* Genesis *)

\* Amount recorded in the votes substore v for decision d on proposal i.
RecordedVotes(v, i, d) ==
    LET entries == UNION {{<<a, k>> : k \in DOMAIN v[a]} : a \in DOMAIN v}
        counted == {e \in entries : v[e[1]][e[2]].proposalIndex = i /\ v[e[1]][e[2]].decision = d}
    IN  MapThenSumSet(LAMBDA e : v[e[1]][e[2]].amount, counted)

\* The tallies of the proposals with recorded votes are the sums of the records.
TallyMatches(ps, v) ==
    \A i \in DOMAIN ps, d \in Decisions :
        i >= Cardinality(DOMAIN ps) - MaxRecordedVotes => ps[i].tally[d] = RecordedVotes(v, i, d)

VerifyGenesisBlock(ps, v) ==
    /\ \A i, j \in DOMAIN ps : i < j => ps[i].creationHeight <= ps[j].creationHeight
    /\ \A i \in DOMAIN ps :
        /\ ps[i].creationHeight < GenesisHeight
        /\ ps[i].poolID = NoPool => ps[i].multiplier = 0
    /\ \A a \in DOMAIN v : \A k \in DOMAIN v[a] : v[a][k].proposalIndex \in DOMAIN ps
    /\ TallyMatches(ps, v)

(***************************************************************************)
(* initGenesisState verifies the asset of the genesis block but lists the  *)
(* proposals and votes of its own substores, which hold none yet: it       *)
(* stores none of the asset's, and the index record of an empty chain.     *)
(***************************************************************************)
GenesisIndex == [newestIndex |-> -1, nextOutcomeCheckIndex |-> 0, nextQuorumCheckIndex |-> 0]

(***************************************************************************)
(* The chain after the genesis block, which carries no transactions.  Two  *)
(* records that the commands read are written by no code of the module:    *)
(* createProposal's own index record, and the first votes record of a      *)
(* voter.  They are absent, or seeded as the tests of the commands do.     *)
(***************************************************************************)
Init ==
    /\ height = GenesisHeight
    /\ phase = "transactions"
    /\ txs = MaxTxsPerBlock
    /\ supply = GenesisSupply
    /\ VerifyGenesisBlock(GenesisProposals, GenesisVotes)
    /\ proposals = <<>>
    /\ votes \in SeededVotes
    /\ \E keys \in {{BlockKey}, IndexKeys} : indexStore = [k \in keys |-> GenesisIndex]
    /\ indexRead = GenesisIndex
    /\ getting = {}
    /\ setting = {}
    /\ dexGlobal = EmptyDexGlobal

-----------------------------------------------------------------------------
(* The block hook *)

\* Mutant of ReadIndex: the record of the previous block is kept in memory.
CachedIndex == indexRead

ReadIndex == indexStore[BlockKey]

\* A new block: the state machine calls beforeTransactionsExecute, which reads
\* the index record once.  The promises left by the last block have settled.
NextBlock ==
    /\ phase = "transactions"
    /\ getting = {} /\ setting = {}
    /\ height < MaxHeight
    /\ height' = height + 1
    /\ txs' = 0
    /\ \E m \in BlockMint : supply' = supply + m
    /\ phase' = "quorum"
    /\ indexRead' = ReadIndex
    /\ UNCHANGED <<stores, calls>>

MissesQuorum(p) == Turnout(p) * 1000000 < QuorumPercentage * supply

\* Mutant of AfterQuorumCheck: the index is not advanced.
QuorumIndexKept == indexRead

\* What the loop's body stores: the local record, its quorum index advanced.
AfterQuorumCheck == [indexRead EXCEPT !.nextQuorumCheckIndex = @ + 1]

QuorumDue == HasEnded(indexStore[BlockKey].nextQuorumCheckIndex, QuorumDuration)

\* The loop's condition reads the stored record, its body the local one.
QuorumCheck ==
    LET i == indexRead.nextQuorumCheckIndex IN
    /\ phase = "quorum"
    /\ QuorumDue
    /\ proposals' = IF MissesQuorum(proposals[i])
                    THEN [proposals EXCEPT ![i].status = PROPOSAL_STATUS_FAILED_QUORUM]
                    ELSE proposals
    /\ indexStore' = [indexStore EXCEPT ![BlockKey] = AfterQuorumCheck]
    /\ UNCHANGED <<height, phase, txs, supply, votes, indexRead, calls, dexGlobal>>

QuorumLoopEnds ==
    /\ phase = "quorum"
    /\ ~QuorumDue
    /\ phase' = "outcome"
    /\ UNCHANGED <<height, txs, supply, stores, indexRead, calls>>

VoteOutcome(p) ==
    IF p.tally[DECISION_YES] * p.tally[DECISION_YES] * Turnout(p)
         > p.tally[DECISION_NO] * p.tally[DECISION_NO] * supply
    THEN PROPOSAL_STATUS_FINISHED_ACCEPTED
    ELSE PROPOSAL_STATUS_FINISHED_FAILED

\* Deciding an active proposal: its status and, for an accepted incentivization
\* proposal, the incentivized pools of the DEX module.
Decide(i) ==
    LET p == proposals[i]
        outcome == VoteOutcome(p)
    IN  /\ proposals' = [proposals EXCEPT ![i].status = outcome]
        /\ dexGlobal' = IF p.poolID # NoPool /\ outcome = PROPOSAL_STATUS_FINISHED_ACCEPTED
                        THEN UpdateIncentivizedPools(dexGlobal, p.poolID, p.multiplier)
                        ELSE dexGlobal

\* Mutant of NeedsOutcome: only an accepted proposal is skipped.
NotYetAccepted(p) == p.status # PROPOSAL_STATUS_FINISHED_ACCEPTED

NeedsOutcome(p) == p.status = PROPOSAL_STATUS_ACTIVE

\* Mutant of OutcomeDue: the wrong period.
OutcomeDueEarly == HasEnded(indexStore[BlockKey].nextOutcomeCheckIndex, QuorumDuration)

OutcomeDue == HasEnded(indexStore[BlockKey].nextOutcomeCheckIndex, VoteDuration)

OutcomeCheck ==
    LET i == indexRead.nextOutcomeCheckIndex IN
    /\ phase = "outcome"
    /\ OutcomeDue
    /\ IF NeedsOutcome(proposals[i])
       THEN Decide(i)
       ELSE UNCHANGED <<proposals, dexGlobal>>
    /\ indexStore' = [indexStore EXCEPT ![BlockKey] =
                        [indexRead EXCEPT !.nextOutcomeCheckIndex = i + 1]]
    /\ UNCHANGED <<height, phase, txs, supply, votes, indexRead, calls>>

OutcomeLoopEnds ==
    /\ phase = "outcome"
    /\ ~OutcomeDue
    /\ phase' = "transactions"
    /\ UNCHANGED <<height, txs, supply, stores, indexRead, calls>>

-----------------------------------------------------------------------------
(* Transactions *)

ExecuteTransaction ==
    /\ phase = "transactions"
    /\ txs < MaxTxsPerBlock
    /\ txs' = txs + 1
    /\ UNCHANGED <<height, phase, supply, indexRead, dexGlobal>>

\* Mutant of CreationAllowed: the limit is off by one.
OneTooMany(pool) ==
    /\ CommandKey \in DOMAIN indexStore
    /\ HasEnded(indexStore[CommandKey].newestIndex - MaxRecordedVotes, VoteDuration)
    /\ pool \in KnownPools

\* createProposal.execute.  The record taken from the index substore is its
\* own; the limit looks at the proposal MaxRecordedVotes before the new one.
CreationAllowed(pool) ==
    /\ CommandKey \in DOMAIN indexStore
    /\ HasEnded(indexStore[CommandKey].newestIndex - MaxRecordedVotes + 1, VoteDuration)
    /\ pool \in KnownPools

\* Mutant of NewIndex: the new proposal takes the place of the newest one.
NewestIndex == indexStore[CommandKey].newestIndex

NewIndex == indexStore[CommandKey].newestIndex + 1

\* Mutant of NewProposal: it is dated one block ahead.
DatedAhead(pool, multiplier) ==
    [creationHeight |-> height + 1, tally |-> [d \in Decisions |-> 0], poolID |-> pool,
     multiplier |-> multiplier, status |-> PROPOSAL_STATUS_ACTIVE]

NewProposal(pool, multiplier) ==
    [creationHeight |-> height, tally |-> [d \in Decisions |-> 0], poolID |-> pool,
     multiplier |-> multiplier, status |-> PROPOSAL_STATUS_ACTIVE]

CreateProposal(pool, multiplier) ==
    LET i == NewIndex
        p == NewProposal(pool, multiplier)
    IN  /\ ExecuteTransaction
        /\ CreationAllowed(pool)
        /\ i < MaxProposals
        /\ proposals' = [j \in DOMAIN proposals \cup {i} |-> IF j = i THEN p ELSE proposals[j]]
        /\ indexStore' = [indexStore EXCEPT ![CommandKey].newestIndex = i]
        /\ UNCHANGED <<votes, calls>>

\* The three ways execute throws: no index record, the limit, no such pool (a
\* universal proposal has no pool).  The state machine restores the state.
CreateProposalFails ==
    /\ ExecuteTransaction
    /\ \E pool \in KnownPools \cup {NoPool} : ~CreationAllowed(pool)
    /\ UNCHANGED <<proposals, votes, indexStore, calls>>

\* Mutant of Votable: verify looks for the proposal alone.
Exists(i) == i \in DOMAIN proposals

Votable(i) ==
    /\ i \in DOMAIN proposals
    /\ proposals[i].status = PROPOSAL_STATUS_ACTIVE

(***************************************************************************)
(* voteOnProposal.  verify admits active proposals only; execute needs a   *)
(* votes record of the sender (get throws without one).  Each earlier vote *)
(* on the proposal is taken back, the record is replaced by the new vote   *)
(* alone, and the new vote is added.  With no earlier vote on the proposal *)
(* the new one is put in a decoded copy of the record, which is dropped.   *)
(***************************************************************************)
VoteOnProposal(voter, i, decision, stake) ==
    LET earlier == {k \in DOMAIN votes[voter] : votes[voter][k].proposalIndex = i}
        add(leg, amount, d) ==
            [tx |-> txs, leg |-> leg, index |-> i, votes |-> amount, decision |-> d]
    IN  /\ ExecuteTransaction
        /\ voter \in DOMAIN votes
        /\ Votable(i)
        /\ getting' = getting \cup {add(0, stake, decision)}
              \cup {add(k, -votes[voter][k].amount, votes[voter][k].decision) : k \in earlier}
        /\ votes' = IF earlier = {} THEN votes
                    ELSE [votes EXCEPT ![voter] =
                            <<[proposalIndex |-> i, decision |-> decision, amount |-> stake]>>]
        /\ UNCHANGED <<proposals, indexStore, setting>>

VoteOnProposalFails ==
    /\ ExecuteTransaction
    /\ Voters \ DOMAIN votes # {}
    /\ \E i \in DOMAIN proposals : Votable(i)
    /\ UNCHANGED <<proposals, votes, indexStore, calls>>

-----------------------------------------------------------------------------
(* addVotes, up to its first await and from there to its write *)

\* Mutant of Acceptable: no check of the sum.
AnySum(sum) == TRUE

\* checkNonNegative
Acceptable(sum) == sum >= 0

\* A sum below zero makes the call throw: nobody awaits it, so it only ends.
AddVotesGet(c) ==
    LET p == proposals[c.index]
        sum == c.votes + p.tally[c.decision]
    IN  /\ getting' = getting \ {c}
        /\ setting' = IF Acceptable(sum)
                      THEN setting \cup {[tx |-> c.tx, leg |-> c.leg, index |-> c.index,
                                          proposal |-> [p EXCEPT !.tally[c.decision] = sum]]}
                      ELSE setting
        /\ UNCHANGED <<height, phase, txs, supply, stores, indexRead>>

AddVotesSet(c) ==
    /\ setting' = setting \ {c}
    /\ proposals' = [proposals EXCEPT ![c.index] = c.proposal]
    /\ UNCHANGED <<height, phase, txs, supply, votes, indexStore, indexRead, getting, dexGlobal>>

\* The bounded chain stops after the last block.
BoundReached ==
    /\ height = MaxHeight
    /\ phase = "transactions"
    /\ calls = <<{}, {}>>
    /\ UNCHANGED vars

HookStep == QuorumCheck \/ QuorumLoopEnds \/ OutcomeCheck \/ OutcomeLoopEnds
CallStep == (\E c \in getting : AddVotesGet(c)) \/ (\E c \in setting : AddVotesSet(c))

Next ==
    \/ NextBlock
    \/ QuorumCheck
    \/ QuorumLoopEnds
    \/ OutcomeCheck
    \/ OutcomeLoopEnds
    \/ \E pool \in KnownPools, multiplier \in Multipliers : CreateProposal(pool, multiplier)
    \/ CreateProposalFails
    \/ \E voter \in Voters, i \in DOMAIN proposals, decision \in Decisions, stake \in Stakes :
          VoteOnProposal(voter, i, decision, stake)
    \/ VoteOnProposalFails
    \/ \E c \in getting : AddVotesGet(c)
    \/ \E c \in setting : AddVotesSet(c)
    \/ BoundReached

Spec == Init /\ [][Next]_vars

\* The state machine keeps executing: the hook runs on, started promises are
\* settled, and blocks keep coming.  No fairness for the arrival of transactions.
Fairness == WF_vars(HookStep) /\ WF_vars(CallStep) /\ WF_vars(NextBlock)

FairSpec == Spec /\ Fairness

-----------------------------------------------------------------------------
(* Properties *)

Ended(p, duration) == height - p.creationHeight >= duration

\* The shapes of the substores and of the un-awaited calls.
ProposalsShape(ps) == \E n \in 0..MaxProposals : ps \in [0..n - 1 -> Proposal]
VotesShape(v) == DOMAIN v \subseteq Voters /\ \A a \in DOMAIN v : v[a] \in Seq(VoteInfo)
IndexShape(s) == /\ {BlockKey} \subseteq DOMAIN s /\ DOMAIN s \subseteq IndexKeys
                 /\ \A k \in DOMAIN s : s[k] \in IndexStoreData
GettingCalls(D) == [tx : Nat, leg : Nat, index : D, votes : Int, decision : Decisions]
SettingCalls(D) == [tx : Nat, leg : Nat, index : D, proposal : Proposal]

\* The state has its shape: in particular tallies never go below zero, and an
\* un-awaited call concerns an existing proposal.
TypeOK ==
    /\ height \in Nat /\ phase \in Phases /\ txs \in Nat /\ supply \in Nat
    /\ ProposalsShape(proposals) /\ VotesShape(votes) /\ IndexShape(indexStore)
    /\ indexRead \in IndexStoreData
    /\ getting \subseteq GettingCalls(DOMAIN proposals)
    /\ setting \subseteq SettingCalls(DOMAIN proposals)

\* The proposals of a verified genesis block are stored, as the comments of
\* initGenesisState say ("initialize proposals subsotre").
GenesisProposalsStored ==
    \A i \in DOMAIN GenesisProposals :
        /\ i \in DOMAIN proposals
        /\ proposals[i].creationHeight = GenesisProposals[i].creationHeight

\* Creation order, which genesis verification demands of its proposals
\* ("Proposals must be indexed in the creation order") and the hook relies on
\* when it stops at the first proposal that has not ended.
CreationOrder ==
    /\ \A i \in DOMAIN proposals : proposals[i].creationHeight <= height
    /\ \A i, j \in DOMAIN proposals :
          i < j => proposals[i].creationHeight <= proposals[j].creationHeight

\* MAX_NUM_RECORDED_VOTES bounds the proposals in their voting period: of two
\* proposals that many places apart the older one has left it.
LiveProposalLimit ==
    \A i, j \in DOMAIN proposals :
        j - i >= MaxRecordedVotes => Ended(proposals[i], VoteDuration)

\* No proposal is passed over: every proposal below the stored outcome index is
\* closed, and none is decided at or above it.
OutcomeIndexIsFrontier ==
    \A i \in DOMAIN proposals :
        LET status == proposals[i].status IN
        IF i < indexStore[BlockKey].nextOutcomeCheckIndex
        THEN status # PROPOSAL_STATUS_ACTIVE
        ELSE status \in {PROPOSAL_STATUS_ACTIVE, PROPOSAL_STATUS_FAILED_QUORUM}

\* A proposal is decided after its voting period and fails the quorum after its
\* quorum period, never before.
ClosedInTime ==
    \A i \in DOMAIN proposals :
        LET p == proposals[i] IN
        /\ p.status \in {PROPOSAL_STATUS_FINISHED_ACCEPTED, PROPOSAL_STATUS_FINISHED_FAILED}
             => Ended(p, VoteDuration)
        /\ p.status = PROPOSAL_STATUS_FAILED_QUORUM => Ended(p, QuorumDuration)

\* The multiplier of a pool is the one of the last decided proposal about it that
\* was accepted, listed once and not at all when it is 0; the total is their sum.
IncentivesFollowOutcomes ==
    LET accepted(pool) == {i \in DOMAIN proposals :
            /\ proposals[i].poolID = pool
            /\ proposals[i].status = PROPOSAL_STATUS_FINISHED_ACCEPTED}
        wanted(pool) == IF accepted(pool) = {} THEN 0
                        ELSE proposals[Max(accepted(pool))].multiplier
        listed == dexGlobal.incentivizedPools
        entries == {listed[k] : k \in DOMAIN listed}
    IN  /\ entries = {e \in [poolId : KnownPools, multiplier : Multipliers] :
                        e.multiplier = wanted(e.poolId) /\ e.multiplier > 0}
        /\ Len(listed) = Cardinality(entries)
        /\ dexGlobal.totalIncentivesMultiplier = MapThenSumSet(wanted, KnownPools)

\* A closed proposal keeps its status for ever: the quorum check, which a stale
\* index may run again, never closes or reopens what was decided.
FinalStatusStable ==
    [][\A i \in DOMAIN proposals :
          proposals[i].status # PROPOSAL_STATUS_ACTIVE
            => proposals'[i].status = proposals[i].status]_vars

\* No vote reaches a closed proposal, not even one cast before it was closed.
ClosedTallyFrozen ==
    [][\A i \in DOMAIN proposals :
          proposals[i].status # PROPOSAL_STATUS_ACTIVE
            => proposals'[i].tally = proposals[i].tally]_vars

\* A block never takes back an outcome check.
OutcomeIndexMonotone ==
    [][indexStore'[BlockKey].nextOutcomeCheckIndex >= indexStore[BlockKey].nextOutcomeCheckIndex]_vars

\* The module implements the life cycle it promises.
Lifecycle == INSTANCE ProposalLifecycle WITH
    MaxLive <- MaxRecordedVotes,
    now <- height,
    created <- [i \in DOMAIN proposals |-> proposals[i].creationHeight],
    status <- [i \in DOMAIN proposals |-> proposals[i].status]

ImplementsLifecycle == Lifecycle!LifecycleSpec

\* When no call is under way the tallies are what the voters' records say, as
\* genesis verification demands of a chain's state.
TallyMatchesRecords == calls = <<{}, {}>> => TallyMatches(proposals, votes)

\* The hook always gets to the transactions of its block.
HookReachesTransactions == (phase = "quorum") ~> (phase = "transactions")

\* Every proposal whose voting period fits in the bounded chain is closed.
EveryProposalIsClosed ==
    \A i \in 0..MaxProposals - 1 :
        (i \in DOMAIN proposals /\ proposals[i].creationHeight + VoteDuration <= MaxHeight)
          ~> (i \in DOMAIN proposals /\ proposals[i].status # PROPOSAL_STATUS_ACTIVE)
=============================================================================
