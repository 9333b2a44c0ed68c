CONSTANTS
    alice = alice
    bob = bob
    Voters = {alice, bob}
    Stakes = {2}
    KnownPools = {1}
    Multipliers = {0, 1}
    QuorumDuration = 2
    VoteDuration = 4
    MaxRecordedVotes = 2
    QuorumPercentage = 10000
    GenesisHeight = 1
    GenesisSupply = 100
    GenesisProposals <- MCGenesisProposals
    GenesisVotes <- AliceVoted
    SeededVotes <- MCSeededVotes
    BlockMint = {20}
    MaxHeight = 10
    MaxProposals = 3
    MaxTxsPerBlock = 1
SPECIFICATION Spec
INVARIANTS
    TypeOK
    CreationOrder
    LiveProposalLimit
    OutcomeIndexIsFrontier
    ClosedInTime
    IncentivesFollowOutcomes
PROPERTIES
    FinalStatusStable
    ClosedTallyFrozen
    OutcomeIndexMonotone
    ImplementsLifecycle
