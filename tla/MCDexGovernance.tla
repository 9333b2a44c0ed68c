-------------------------- MODULE MCDexGovernance --------------------------
(* Small instances of DexGovernance. *)
EXTENDS DexGovernance

CONSTANTS alice, bob

\* The asset of the genesis block: a proposal alice has voted on.
MCGenesisProposals == [i \in {0} |->
    [creationHeight |-> 0, tally |-> [d \in Decisions |-> IF d = DECISION_YES THEN 2 ELSE 0],
     poolID |-> 1, multiplier |-> 1, status |-> PROPOSAL_STATUS_ACTIVE]]
AliceVoted == (alice :> <<[proposalIndex |-> 0, decision |-> DECISION_YES, amount |-> 2]>>)

\* A seeded record of alice without a vote, or with one on the first proposal.
NoVotes == (alice :> <<>>)
MCSeededVotes == {NoVotes, AliceVoted}
NoVotesSeeded == {NoVotes}
=============================================================================
