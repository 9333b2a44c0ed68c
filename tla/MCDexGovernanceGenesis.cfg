CONSTANTS
    alice = alice
    bob = bob
    Voters = {alice, bob}
    Stakes = {2}
    KnownPools = {1}
    Multipliers = {0, 1}
    QuorumDuration = 1
    VoteDuration = 3
    MaxRecordedVotes = 2
    QuorumPercentage = 10000
    GenesisHeight = 1
    GenesisSupply = 100
    GenesisProposals <- MCGenesisProposals
    GenesisVotes <- AliceVoted
    SeededVotes <- NoVotesSeeded
    BlockMint = {20}
    MaxHeight = 3
    MaxProposals = 3
    MaxTxsPerBlock = 1
SPECIFICATION Spec
INVARIANTS
    GenesisProposalsStored
