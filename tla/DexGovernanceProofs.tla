------------------------ MODULE DexGovernanceProofs ------------------------
(***************************************************************************)
(* Theorems about DexGovernance, for every value of its constants.         *)
(***************************************************************************)
EXTENDS DexGovernance, FiniteSums

-----------------------------------------------------------------------------
(* The inductive invariant *)

Closed(i) == proposals[i].status # PROPOSAL_STATUS_ACTIVE

Outcomes == {PROPOSAL_STATUS_FINISHED_ACCEPTED, PROPOSAL_STATUS_FINISHED_FAILED}

Decided(i) == proposals[i].status \in Outcomes

\* createProposal's own record names the newest proposal.
NewestIndexAgrees ==
    CommandKey \in DOMAIN indexStore =>
        /\ indexStore[CommandKey].newestIndex >= -1
        /\ DOMAIN proposals = 0..indexStore[CommandKey].newestIndex

\* A call of addVotes is under way only among the transactions of a block and
\* for an active proposal, and writes back what it read but for a tally.
CallsOnActive ==
    /\ phase # "transactions" => getting = {} /\ setting = {}
    /\ \A c \in getting : ~Closed(c.index)
    /\ \A c \in setting :
        /\ ~Closed(c.index)
        /\ c.proposal.status = PROPOSAL_STATUS_ACTIVE
        /\ c.proposal.creationHeight = proposals[c.index].creationHeight

\* Each loop has advanced its stored index by at most one from the hook's copy,
\* and the outcome loop puts the quorum index back.
LoopIndexes ==
    LET Q == indexStore[BlockKey].nextQuorumCheckIndex
        O == indexStore[BlockKey].nextOutcomeCheckIndex
        q == indexRead.nextQuorumCheckIndex
        o == indexRead.nextOutcomeCheckIndex
    IN  /\ O > 0 => O - 1 \in DOMAIN proposals
        /\ phase # "transactions" => Q \in {q, q + 1}
        /\ phase = "quorum" => O = o
        /\ phase = "outcome" => O \in {o, o + 1}

TypeInv == TypeOK /\ NewestIndexAgrees

SafetyInv ==
    /\ CreationOrder
    /\ LiveProposalLimit
    /\ CallsOnActive
    /\ LoopIndexes
    /\ OutcomeIndexIsFrontier
    /\ ClosedInTime

-----------------------------------------------------------------------------
(* Type correctness *)

\* The chain starts without proposals.
LEMMA NoProposals ==
    ASSUME Init
    PROVE  /\ proposals \in [0..0 - 1 -> Proposal]
           /\ DOMAIN proposals = {} /\ DOMAIN proposals = 0..-1
<1>1. DOMAIN proposals = {} /\ 0..0 - 1 = {}
  BY DEF Init
<1>2. proposals = [i \in {} |-> proposals[i]]
  BY <1>1 DEF Init
<1>3. QED
  BY <1>1, <1>2

\* The record of the genesis block names no newest proposal.
LEMMA GenesisIndexType ==
    /\ GenesisIndex \in IndexStoreData
    /\ GenesisIndex.newestIndex = -1 /\ GenesisIndex.newestIndex >= -1
    /\ GenesisIndex.nextOutcomeCheckIndex = 0 /\ GenesisIndex.nextQuorumCheckIndex = 0
  BY DEF GenesisIndex, IndexStoreData

\* The genesis block establishes the type invariant.
LEMMA TypeInit == Init => TypeInv
<1> SUFFICES ASSUME Init PROVE TypeInv
  OBVIOUS
<1> USE DEF BlockKey, CommandKey, IndexKeys
<1>1. ProposalsShape(proposals)
  <2>1. 0 \in 0..MaxProposals
    BY GovernanceAssumption
  <2>2. QED
    BY <2>1, NoProposals DEF ProposalsShape
<1>2. VotesShape(votes)
  BY SeededAssumption DEF Init, VotesShape
<1>3. PICK keys \in {{BlockKey}, IndexKeys} : indexStore = [k \in keys |-> GenesisIndex]
  BY DEF Init
<1>4. /\ {BlockKey} \subseteq DOMAIN indexStore /\ DOMAIN indexStore \subseteq IndexKeys
      /\ \A k \in DOMAIN indexStore : indexStore[k] = GenesisIndex
  BY <1>3
<1>5. IndexShape(indexStore) /\ indexRead \in IndexStoreData
  BY <1>4, GenesisIndexType DEF Init, IndexShape
<1>6. TypeOK
  BY <1>1, <1>2, <1>5, GovernanceAssumption DEF Init, TypeOK, Phases
<1>7. NewestIndexAgrees
  BY <1>4, NoProposals, GenesisIndexType DEF NewestIndexAgrees
<1>8. QED
  BY <1>6, <1>7 DEF TypeInv

\* A tally of a proposal may be overwritten with any natural number.
LEMMA TallyUpdate ==
    ASSUME NEW p \in Proposal, NEW d \in Decisions, NEW a \in Nat
    PROVE  [p EXCEPT !.tally[d] = a] \in Proposal
  BY DEF Proposal

\* Every step preserves the type invariant.
LEMMA TypeStep == TypeInv /\ [Next]_vars => TypeInv'
<1> SUFFICES ASSUME TypeInv, [Next]_vars PROVE TypeInv'
  OBVIOUS
<1> USE DEF BlockKey, CommandKey, IndexKeys
<1>t. /\ height \in Nat /\ phase \in Phases /\ txs \in Nat /\ supply \in Nat
      /\ ProposalsShape(proposals) /\ VotesShape(votes) /\ IndexShape(indexStore)
      /\ indexRead \in IndexStoreData
      /\ getting \subseteq GettingCalls(DOMAIN proposals)
      /\ setting \subseteq SettingCalls(DOMAIN proposals)
      /\ NewestIndexAgrees
  BY DEF TypeInv, TypeOK
<1>i. /\ BlockKey \in DOMAIN indexStore
      /\ \A k \in DOMAIN indexStore : indexStore[k] \in IndexStoreData
  BY <1>t DEF IndexShape
<1>n. PICK n \in 0..MaxProposals : proposals \in [0..n - 1 -> Proposal]
  BY <1>t DEF ProposalsShape
<1>m. n \in Nat /\ MaxProposals \in Nat /\ DOMAIN proposals = 0..n - 1
  BY <1>n, GovernanceAssumption
<1>u. ASSUME UNCHANGED stores PROVE NewestIndexAgrees'
  BY <1>t, <1>u DEF NewestIndexAgrees, stores
<1>p. ASSUME NEW data \in IndexStoreData, indexStore' = [indexStore EXCEPT ![BlockKey] = data],
             DOMAIN proposals' = DOMAIN proposals
      PROVE  IndexShape(indexStore') /\ NewestIndexAgrees'
  BY <1>t, <1>p DEF IndexShape, NewestIndexAgrees
<1>1. CASE NextBlock
  <2>1. supply' \in Nat
    <3>1. PICK m \in BlockMint : supply' = supply + m
      BY <1>1 DEF NextBlock
    <3>2. m \in Nat
      BY GovernanceAssumption
    <3>3. QED
      BY <1>t, <3>1, <3>2
  <2>2. indexRead' \in IndexStoreData
    BY <1>i, <1>1 DEF NextBlock, ReadIndex
  <2>3. height' \in Nat /\ phase' \in Phases /\ txs' \in Nat
    BY <1>t, <1>1 DEF NextBlock, Phases
  <2>4. UNCHANGED stores /\ UNCHANGED calls
    BY <1>1 DEF NextBlock
  <2>5. QED
    BY <1>t, <1>u, <2>1, <2>2, <2>3, <2>4 DEF TypeInv, TypeOK, stores, calls
<1>2. CASE QuorumCheck
  <2> DEFINE i == indexRead.nextQuorumCheckIndex
             p == [proposals[i] EXCEPT !.status = PROPOSAL_STATUS_FAILED_QUORUM]
  <2>1. ASSUME i \in 0..n - 1 PROVE p \in Proposal
    <3>1. proposals[i] \in Proposal
      BY <1>n, <2>1
    <3>2. QED
      BY <3>1 DEF Proposal, PROPOSAL_STATUS_FAILED_QUORUM, Statuses
  <2>2. proposals' = proposals \/ proposals' = [proposals EXCEPT ![i] = p]
    BY <1>2 DEF QuorumCheck
  <2>3. proposals' \in [0..n - 1 -> Proposal] /\ DOMAIN proposals' = DOMAIN proposals
    BY <1>n, <1>m, <2>1, <2>2
  <2>4. AfterQuorumCheck \in IndexStoreData
    BY <1>t DEF AfterQuorumCheck, IndexStoreData
  <2>5. IndexShape(indexStore') /\ NewestIndexAgrees'
    BY <1>p, <1>2, <2>3, <2>4 DEF QuorumCheck
  <2>6. QED
    BY <1>t, <1>2, <2>3, <2>5 DEF QuorumCheck, TypeInv, TypeOK, ProposalsShape, calls
<1>3. CASE QuorumLoopEnds
  BY <1>t, <1>3, <1>u DEF QuorumLoopEnds, TypeInv, TypeOK, Phases, stores, calls
<1>4. CASE OutcomeCheck
  <2> DEFINE i == indexRead.nextOutcomeCheckIndex
             p == [proposals[i] EXCEPT !.status = VoteOutcome(proposals[i])]
             data == [indexRead EXCEPT !.nextOutcomeCheckIndex = i + 1]
  <2>1. ASSUME i \in 0..n - 1 PROVE p \in Proposal
    <3>1. proposals[i] \in Proposal
      BY <1>n, <2>1
    <3>2. VoteOutcome(proposals[i]) \in Statuses
      BY DEF VoteOutcome, Statuses, PROPOSAL_STATUS_FINISHED_ACCEPTED,
             PROPOSAL_STATUS_FINISHED_FAILED
    <3>3. QED
      BY <3>1, <3>2 DEF Proposal
  <2>2. proposals' = proposals \/ proposals' = [proposals EXCEPT ![i] = p]
    BY <1>4 DEF OutcomeCheck, Decide
  <2>3. proposals' \in [0..n - 1 -> Proposal] /\ DOMAIN proposals' = DOMAIN proposals
    BY <1>n, <1>m, <2>1, <2>2
  <2>4. data \in IndexStoreData
    BY <1>t DEF IndexStoreData
  <2>5. IndexShape(indexStore') /\ NewestIndexAgrees'
    BY <1>p, <1>4, <2>3, <2>4 DEF OutcomeCheck
  <2>6. QED
    BY <1>t, <1>4, <2>3, <2>5 DEF OutcomeCheck, TypeInv, TypeOK, ProposalsShape, calls
<1>5. CASE OutcomeLoopEnds
  BY <1>t, <1>5, <1>u DEF OutcomeLoopEnds, TypeInv, TypeOK, Phases, stores, calls
<1>x. ASSUME ExecuteTransaction
      PROVE  /\ height' \in Nat /\ phase' \in Phases /\ txs' \in Nat /\ supply' \in Nat
             /\ indexRead' \in IndexStoreData
  BY <1>t, <1>x DEF ExecuteTransaction
<1>6. ASSUME NEW pool \in KnownPools, NEW multiplier \in Multipliers,
             CreateProposal(pool, multiplier)
      PROVE  TypeInv'
  <2> DEFINE p == NewProposal(pool, multiplier)
  <2>1. CommandKey \in DOMAIN indexStore /\ ExecuteTransaction
    BY <1>6 DEF CreateProposal, CreationAllowed
  <2>2. NewIndex = n
    <3>1. indexStore[CommandKey].newestIndex \in Int /\ indexStore[CommandKey].newestIndex >= -1
      BY <1>i, <1>t, <2>1 DEF IndexStoreData, NewestIndexAgrees
    <3>2. 0..n - 1 = 0..indexStore[CommandKey].newestIndex
      BY <1>t, <1>m, <2>1 DEF NewestIndexAgrees
    <3>3. QED
      BY <3>1, <3>2, <1>m DEF NewIndex
  <2>3. p \in Proposal
    <3>1. pool \in Nat /\ multiplier \in Nat
      BY GovernanceAssumption
    <3>2. QED
      BY <1>t, <3>1 DEF NewProposal, Proposal, Statuses, PROPOSAL_STATUS_ACTIVE
  <2>4. /\ proposals' = [j \in DOMAIN proposals \cup {n} |-> IF j = n THEN p ELSE proposals[j]]
        /\ n < MaxProposals
        /\ indexStore' = [indexStore EXCEPT ![CommandKey].newestIndex = n]
    BY <1>6, <2>2 DEF CreateProposal
  <2>5. /\ DOMAIN proposals' = 0..n
        /\ proposals' \in [0..n -> Proposal]
    BY <1>n, <1>m, <2>3, <2>4
  <2>6. ProposalsShape(proposals')
    <3>1. n + 1 \in 0..MaxProposals /\ (n + 1) - 1 = n
      BY <1>m, <2>4
    <3>2. QED
      BY <2>5, <3>1 DEF ProposalsShape
  <2>7. IndexShape(indexStore')
    <3>1. PICK data \in IndexStoreData : data = indexStore[CommandKey]
      BY <1>i, <2>1
    <3>2. [data EXCEPT !.newestIndex = n] \in IndexStoreData
      BY <1>m DEF IndexStoreData
    <3>3. indexStore' = [indexStore EXCEPT ![CommandKey] = [data EXCEPT !.newestIndex = n]]
      BY <2>4, <3>1
    <3>4. QED
      BY <1>t, <3>2, <3>3 DEF IndexShape
  <2>8. NewestIndexAgrees'
    <3>1. indexStore'[CommandKey].newestIndex = n
      BY <1>i, <2>1, <2>4 DEF IndexStoreData
    <3>2. QED
      BY <1>m, <2>5, <3>1 DEF NewestIndexAgrees
  <2>9. /\ getting' \subseteq GettingCalls(DOMAIN proposals')
        /\ setting' \subseteq SettingCalls(DOMAIN proposals')
    <3>1. getting' = getting /\ setting' = setting
      BY <1>6 DEF CreateProposal, calls
    <3>2. DOMAIN proposals \subseteq DOMAIN proposals'
      BY <1>m, <2>5
    <3>3. QED
      BY <1>t, <3>1, <3>2 DEF GettingCalls, SettingCalls
  <2>10. VotesShape(votes')
    BY <1>t, <1>6 DEF CreateProposal
  <2>11. QED
    BY <1>x, <2>1, <2>6, <2>7, <2>8, <2>9, <2>10 DEF TypeInv, TypeOK
<1>7. CASE CreateProposalFails
  <2>1. ExecuteTransaction /\ UNCHANGED <<proposals, votes, indexStore, calls>>
    BY <1>7 DEF CreateProposalFails
  <2>2. UNCHANGED stores
    BY <2>1 DEF stores, ExecuteTransaction
  <2>3. QED
    BY <1>t, <1>x, <1>u, <2>1, <2>2 DEF TypeInv, TypeOK, calls
<1>8. ASSUME NEW voter \in Voters, NEW i \in DOMAIN proposals, NEW decision \in Decisions,
             NEW stake \in Stakes, VoteOnProposal(voter, i, decision, stake)
      PROVE  TypeInv'
  <2>1. voter \in DOMAIN votes /\ votes[voter] \in Seq(VoteInfo)
    BY <1>t, <1>8 DEF VoteOnProposal, VotesShape
  <2>2. \A k \in DOMAIN votes[voter] : k \in Nat /\ votes[voter][k] \in VoteInfo
    BY <2>1
  <2>3. stake \in Nat
    BY GovernanceAssumption
  <2>4. getting' \subseteq GettingCalls(DOMAIN proposals)
    <3> DEFINE add(leg, amount, d) ==
                 [tx |-> txs, leg |-> leg, index |-> i, votes |-> amount, decision |-> d]
               earlier == {k \in DOMAIN votes[voter] : votes[voter][k].proposalIndex = i}
    <3>1. add(0, stake, decision) \in GettingCalls(DOMAIN proposals)
      BY <1>t, <2>3 DEF GettingCalls
    <3>2. ASSUME NEW k \in earlier
          PROVE  add(k, -votes[voter][k].amount, votes[voter][k].decision)
                   \in GettingCalls(DOMAIN proposals)
      <4>1. k \in Nat /\ -votes[voter][k].amount \in Int /\ votes[voter][k].decision \in Decisions
        BY <2>2 DEF VoteInfo
      <4>2. QED
        BY <1>t, <4>1 DEF GettingCalls
    <3>3. getting' = getting \cup {add(0, stake, decision)}
             \cup {add(k, -votes[voter][k].amount, votes[voter][k].decision) : k \in earlier}
      BY <1>8 DEF VoteOnProposal
    <3>4. QED
      BY <1>t, <3>1, <3>2, <3>3
  <2>5. <<[proposalIndex |-> i, decision |-> decision, amount |-> stake]>> \in Seq(VoteInfo)
    <3>1. i \in Nat
      BY <1>m
    <3>2. [proposalIndex |-> i, decision |-> decision, amount |-> stake] \in VoteInfo
      BY <3>1, <2>3 DEF VoteInfo
    <3>3. QED
      BY <3>2
  <2>6. VotesShape(votes')
    <3>1. \/ votes' = votes
          \/ votes' = [votes EXCEPT ![voter] =
                         <<[proposalIndex |-> i, decision |-> decision, amount |-> stake]>>]
      BY <1>8 DEF VoteOnProposal
    <3>2. QED
      BY <1>t, <2>5, <3>1 DEF VotesShape
  <2>7. ExecuteTransaction /\ UNCHANGED <<proposals, indexStore, setting>>
    BY <1>8 DEF VoteOnProposal
  <2>8. NewestIndexAgrees'
    BY <1>t, <2>7 DEF NewestIndexAgrees
  <2>9. QED
    BY <1>t, <1>x, <2>4, <2>6, <2>7, <2>8 DEF TypeInv, TypeOK
<1>9. CASE VoteOnProposalFails
  <2>1. ExecuteTransaction /\ UNCHANGED <<proposals, votes, indexStore, calls>>
    BY <1>9 DEF VoteOnProposalFails
  <2>2. UNCHANGED stores
    BY <2>1 DEF stores, ExecuteTransaction
  <2>3. QED
    BY <1>t, <1>x, <1>u, <2>1, <2>2 DEF TypeInv, TypeOK, calls
<1>10. ASSUME NEW c \in getting, AddVotesGet(c)
       PROVE  TypeInv'
  <2> DEFINE sum == c.votes + proposals[c.index].tally[c.decision]
             w == [tx |-> c.tx, leg |-> c.leg, index |-> c.index,
                   proposal |-> [proposals[c.index] EXCEPT !.tally[c.decision] = sum]]
  <2>1. /\ c.tx \in Nat /\ c.leg \in Nat /\ c.index \in DOMAIN proposals
        /\ c.votes \in Int /\ c.decision \in Decisions
    BY <1>t DEF GettingCalls
  <2>2. proposals[c.index] \in Proposal /\ sum \in Int
    <3>1. proposals[c.index] \in Proposal
      BY <1>n, <2>1
    <3>2. proposals[c.index].tally[c.decision] \in Nat
      BY <2>1, <3>1 DEF Proposal
    <3>3. QED
      BY <2>1, <3>1, <3>2
  <2>3. sum >= 0 => [proposals[c.index] EXCEPT !.tally[c.decision] = sum] \in Proposal
    <3> HIDE DEF sum
    <3>1. sum >= 0 => sum \in Nat
      BY <2>2
    <3>2. QED
      BY <2>1, <2>2, <3>1, TallyUpdate
  <2>4. sum >= 0 => w \in SettingCalls(DOMAIN proposals)
    BY <2>1, <2>3 DEF SettingCalls
  <2>5. setting' = setting \/ (sum >= 0 /\ setting' = setting \cup {w})
    BY <1>10 DEF AddVotesGet, Acceptable
  <2>6. setting' \subseteq SettingCalls(DOMAIN proposals)
    BY <1>t, <2>4, <2>5
  <2>7. /\ getting' \subseteq getting
        /\ UNCHANGED <<height, phase, txs, supply, indexRead>> /\ UNCHANGED stores
    BY <1>10 DEF AddVotesGet
  <2>8. QED
    BY <1>t, <1>u, <2>6, <2>7 DEF TypeInv, TypeOK, stores
<1>11. ASSUME NEW c \in setting, AddVotesSet(c)
       PROVE  TypeInv'
  <2>1. c.index \in DOMAIN proposals /\ c.proposal \in Proposal
    BY <1>t DEF SettingCalls
  <2>2. proposals' \in [0..n - 1 -> Proposal] /\ DOMAIN proposals' = DOMAIN proposals
    BY <1>n, <1>11, <2>1 DEF AddVotesSet
  <2>3. /\ setting' \subseteq setting
        /\ UNCHANGED <<height, phase, txs, supply, votes, indexStore, indexRead, getting>>
    BY <1>11 DEF AddVotesSet
  <2>4. ProposalsShape(proposals')
    BY <2>2 DEF ProposalsShape
  <2>5. NewestIndexAgrees'
    BY <1>t, <2>2, <2>3 DEF NewestIndexAgrees
  <2>6. QED
    BY <1>t, <2>2, <2>3, <2>4, <2>5 DEF TypeInv, TypeOK
<1>12. CASE BoundReached \/ UNCHANGED vars
  <2>1. UNCHANGED vars
    BY <1>12 DEF BoundReached
  <2>2. QED
    BY <1>t, <2>1 DEF vars, TypeInv, TypeOK, NewestIndexAgrees
<1>13. QED
  BY <1>1, <1>2, <1>3, <1>4, <1>5, <1>6, <1>7, <1>8, <1>9, <1>10, <1>11, <1>12 DEF Next

\* The stores keep their shape and tallies never go below zero, whatever the
\* order in which the un-awaited calls of addVotes run.
THEOREM TypeCorrect == Spec => []TypeOK
<1>1. Spec => []TypeInv
  BY TypeInit, TypeStep, PTL DEF Spec
<1>2. TypeInv => TypeOK
  BY DEF TypeInv
<1>3. QED
  BY <1>1, <1>2, PTL

-----------------------------------------------------------------------------
(* What each step does to the proposals *)

\* Proposals are numbered from 0 without a gap, and the fields have their types.
LEMMA Fields ==
    ASSUME TypeInv
    PROVE  /\ \A i \in DOMAIN proposals :
                /\ i \in Nat
                /\ proposals[i] \in Proposal
                /\ proposals[i].creationHeight \in Nat /\ proposals[i].status \in Statuses
                /\ \A j \in Nat : j <= i => j \in DOMAIN proposals
           /\ height \in Nat
           /\ indexStore[BlockKey] \in IndexStoreData /\ indexRead \in IndexStoreData
           /\ indexStore[BlockKey].nextOutcomeCheckIndex \in Nat
           /\ indexStore[BlockKey].nextQuorumCheckIndex \in Nat
           /\ indexRead.nextOutcomeCheckIndex \in Nat
           /\ indexRead.nextQuorumCheckIndex \in Nat
<1>t. TypeOK
  BY DEF TypeInv
<1>1. PICK n \in 0..MaxProposals : proposals \in [0..n - 1 -> Proposal]
  BY <1>t DEF TypeOK, ProposalsShape
<1>2. n \in Nat /\ DOMAIN proposals = 0..n - 1
  BY <1>1, GovernanceAssumption
<1>3. \A i \in DOMAIN proposals : proposals[i] \in Proposal
  BY <1>1
<1>4. indexStore[BlockKey] \in IndexStoreData /\ indexRead \in IndexStoreData
  BY <1>t DEF TypeOK, IndexShape
<1>5. QED
  BY <1>t, <1>2, <1>3, <1>4 DEF TypeOK, Proposal, IndexStoreData

WithStatus(ps, i, s) == [ps EXCEPT ![i].status = s]

\* Setting a status touches no other field and no other proposal.
LEMMA StatusSet ==
    ASSUME TypeInv, NEW i \in DOMAIN proposals, NEW s,
           proposals' = WithStatus(proposals, i, s)
    PROVE  /\ DOMAIN proposals' = DOMAIN proposals
           /\ proposals'[i].status = s
           /\ \A j \in DOMAIN proposals :
                /\ proposals'[j].creationHeight = proposals[j].creationHeight
                /\ proposals'[j].tally = proposals[j].tally
                /\ j # i => proposals'[j].status = proposals[j].status
<1>1. PICK p \in Proposal : p = proposals[i]
  BY Fields
<1>2. proposals' = [proposals EXCEPT ![i] = [p EXCEPT !.status = s]]
  BY <1>1 DEF WithStatus
<1>3. LET r == [p EXCEPT !.status = s]
      IN  r.status = s /\ r.creationHeight = p.creationHeight /\ r.tally = p.tally
  BY DEF Proposal
<1>4. QED
  BY <1>1, <1>2, <1>3

\* The two records of the index substore are distinct: createProposal's own one
\* leaves the hook's alone.
LEMMA KeysDiffer == BlockKey # CommandKey
  BY DEF BlockKey, CommandKey

\* The quorum loop looks at a proposal that has left its quorum period, even
\* when it runs once more for the index it has just stored.
LEMMA QuorumEffect ==
    ASSUME TypeInv, CreationOrder, LoopIndexes, QuorumCheck
    PROVE  LET q == indexRead.nextQuorumCheckIndex
           IN  /\ q \in DOMAIN proposals
               /\ Ended(proposals[q], QuorumDuration)
               /\ DOMAIN proposals' = DOMAIN proposals
               /\ proposals'[q].status =
                    IF MissesQuorum(proposals[q]) THEN PROPOSAL_STATUS_FAILED_QUORUM
                    ELSE proposals[q].status
               /\ \A j \in DOMAIN proposals :
                    /\ proposals'[j].creationHeight = proposals[j].creationHeight
                    /\ proposals'[j].tally = proposals[j].tally
                    /\ j # q => proposals'[j].status = proposals[j].status
               /\ indexStore'[BlockKey].nextQuorumCheckIndex = q + 1
               /\ indexStore'[BlockKey].nextOutcomeCheckIndex = indexRead.nextOutcomeCheckIndex
               /\ indexRead.nextOutcomeCheckIndex = indexStore[BlockKey].nextOutcomeCheckIndex
<1> DEFINE q == indexRead.nextQuorumCheckIndex
           Q == indexStore[BlockKey].nextQuorumCheckIndex
<1>1. Q \in {q, q + 1} /\ q \in Nat /\ Q \in Nat
  BY Fields DEF QuorumCheck, LoopIndexes
<1>2. Q \in DOMAIN proposals /\ Ended(proposals[Q], QuorumDuration)
  BY <1>1 DEF QuorumCheck, QuorumDue, HasEnded, Ended
<1>3. q \in DOMAIN proposals /\ q <= Q
  BY <1>1, <1>2, Fields
<1>4. Ended(proposals[q], QuorumDuration)
  <2>1. proposals[q].creationHeight <= proposals[Q].creationHeight
    BY <1>1, <1>2, <1>3, Fields DEF CreationOrder
  <2>2. QED
    BY <1>2, <1>3, <2>1, Fields, GovernanceAssumption DEF Ended
<1>5. /\ indexStore'[BlockKey].nextQuorumCheckIndex = q + 1
      /\ indexStore'[BlockKey].nextOutcomeCheckIndex = indexRead.nextOutcomeCheckIndex
      /\ indexRead.nextOutcomeCheckIndex = indexStore[BlockKey].nextOutcomeCheckIndex
  <2>1. BlockKey \in DOMAIN indexStore
    BY DEF TypeInv, TypeOK, IndexShape
  <2>2. indexStore'[BlockKey] = AfterQuorumCheck
    BY <2>1 DEF QuorumCheck
  <2>3. /\ AfterQuorumCheck.nextQuorumCheckIndex = q + 1
        /\ AfterQuorumCheck.nextOutcomeCheckIndex = indexRead.nextOutcomeCheckIndex
    BY Fields DEF AfterQuorumCheck, IndexStoreData
  <2>4. QED
    BY <2>2, <2>3 DEF LoopIndexes, QuorumCheck
<1>6. CASE MissesQuorum(proposals[q])
  <2>1. proposals' = WithStatus(proposals, q, PROPOSAL_STATUS_FAILED_QUORUM)
    BY <1>6 DEF QuorumCheck, WithStatus
  <2>2. QED
    BY <1>3, <1>4, <1>5, <1>6, <2>1, StatusSet
<1>7. CASE ~MissesQuorum(proposals[q])
  <2>1. proposals' = proposals
    BY <1>7 DEF QuorumCheck
  <2>2. QED
    BY <1>3, <1>4, <1>5, <1>7, <2>1
<1>8. QED
  BY <1>6, <1>7

\* The outcome loop decides one proposal that has left its voting period, or
\* passes over one that is closed already.
LEMMA OutcomeEffect ==
    ASSUME TypeInv, CreationOrder, LoopIndexes, OutcomeCheck
    PROVE  LET o == indexRead.nextOutcomeCheckIndex
           IN  /\ o \in DOMAIN proposals
               /\ Ended(proposals[o], VoteDuration)
               /\ DOMAIN proposals' = DOMAIN proposals
               /\ IF Closed(o)
                  THEN proposals'[o].status = proposals[o].status
                  ELSE proposals'[o].status \in Outcomes
               /\ \A j \in DOMAIN proposals :
                    /\ proposals'[j].creationHeight = proposals[j].creationHeight
                    /\ proposals'[j].tally = proposals[j].tally
                    /\ j # o => proposals'[j].status = proposals[j].status
               /\ indexStore'[BlockKey].nextOutcomeCheckIndex = o + 1
               /\ indexStore'[BlockKey].nextQuorumCheckIndex = indexRead.nextQuorumCheckIndex
<1> DEFINE o == indexRead.nextOutcomeCheckIndex
           O == indexStore[BlockKey].nextOutcomeCheckIndex
<1>1. O \in {o, o + 1} /\ o \in Nat /\ O \in Nat
  BY Fields DEF OutcomeCheck, LoopIndexes
<1>2. O \in DOMAIN proposals /\ Ended(proposals[O], VoteDuration)
  BY <1>1 DEF OutcomeCheck, OutcomeDue, HasEnded, Ended
<1>3. o \in DOMAIN proposals /\ o <= O
  BY <1>1, <1>2, Fields
<1>4. Ended(proposals[o], VoteDuration)
  <2>1. proposals[o].creationHeight <= proposals[O].creationHeight
    BY <1>1, <1>2, <1>3, Fields DEF CreationOrder
  <2>2. QED
    BY <1>2, <1>3, <2>1, Fields, GovernanceAssumption DEF Ended
<1>5. /\ indexStore'[BlockKey].nextOutcomeCheckIndex = o + 1
      /\ indexStore'[BlockKey].nextQuorumCheckIndex = indexRead.nextQuorumCheckIndex
  <2> DEFINE data == [indexRead EXCEPT !.nextOutcomeCheckIndex = o + 1]
  <2>1. BlockKey \in DOMAIN indexStore
    BY DEF TypeInv, TypeOK, IndexShape
  <2>2. indexStore'[BlockKey] = data
    BY <2>1 DEF OutcomeCheck
  <2>3. /\ data.nextOutcomeCheckIndex = o + 1
        /\ data.nextQuorumCheckIndex = indexRead.nextQuorumCheckIndex
    BY Fields DEF IndexStoreData
  <2>4. QED
    BY <2>2, <2>3
<1>6. CASE Closed(o)
  <2>1. proposals' = proposals
    BY <1>6 DEF OutcomeCheck, NeedsOutcome, Closed
  <2>2. QED
    BY <1>3, <1>4, <1>5, <1>6, <2>1
<1>7. CASE ~Closed(o)
  <2> DEFINE outcome == VoteOutcome(proposals[o])
  <2>1. proposals' = WithStatus(proposals, o, outcome)
    BY <1>7 DEF OutcomeCheck, NeedsOutcome, Closed, Decide, WithStatus
  <2>2. outcome \in Outcomes
    BY DEF VoteOutcome, Outcomes
  <2>3. QED
    <3> HIDE DEF outcome
    <3>1. QED
      BY <1>3, <1>4, <1>5, <1>7, <2>1, <2>2, StatusSet
<1>8. QED
  BY <1>6, <1>7

\* A new proposal is active, dated now and numbered after all others, and the
\* one MaxRecordedVotes places before it has left its voting period.
LEMMA CreateEffect ==
    ASSUME TypeInv, NEW pool, NEW multiplier, CreateProposal(pool, multiplier)
    PROVE  \E n \in Nat :
               /\ DOMAIN proposals = 0..n - 1
               /\ n - MaxRecordedVotes >= 0 =>
                    Ended(proposals[n - MaxRecordedVotes], VoteDuration)
               /\ DOMAIN proposals' = 0..n
               /\ proposals'[n].creationHeight = height
               /\ proposals'[n].status = PROPOSAL_STATUS_ACTIVE
               /\ \A j \in DOMAIN proposals : proposals'[j] = proposals[j]
               /\ height' = height
               /\ indexStore'[BlockKey] = indexStore[BlockKey]
<1>1. PICK n \in 0..MaxProposals : proposals \in [0..n - 1 -> Proposal]
  BY DEF TypeInv, TypeOK, ProposalsShape
<1>2. n \in Nat /\ DOMAIN proposals = 0..n - 1
  BY <1>1, GovernanceAssumption
<1> DEFINE newest == indexStore[CommandKey].newestIndex
<1>3. CommandKey \in DOMAIN indexStore
  BY DEF CreateProposal, CreationAllowed
<1>4. newest \in Int /\ newest >= -1 /\ DOMAIN proposals = 0..newest
  BY <1>3 DEF TypeInv, TypeOK, IndexShape, IndexStoreData, NewestIndexAgrees
<1>5. NewIndex = n /\ n = newest + 1
  <2>1. 0..n - 1 = 0..newest
    BY <1>2, <1>4
  <2>2. QED
    BY <1>2, <1>4, <2>1 DEF NewIndex
<1>6. proposals' = [j \in DOMAIN proposals \cup {n} |->
                      IF j = n THEN NewProposal(pool, multiplier) ELSE proposals[j]]
  BY <1>5 DEF CreateProposal
<1>7. /\ DOMAIN proposals' = 0..n
      /\ proposals'[n] = NewProposal(pool, multiplier)
      /\ \A j \in DOMAIN proposals : proposals'[j] = proposals[j]
  BY <1>2, <1>6
<1>8. /\ NewProposal(pool, multiplier).creationHeight = height
      /\ NewProposal(pool, multiplier).status = PROPOSAL_STATUS_ACTIVE
  BY DEF NewProposal
<1>9. n - MaxRecordedVotes >= 0 => Ended(proposals[n - MaxRecordedVotes], VoteDuration)
  <2>1. newest - MaxRecordedVotes + 1 = n - MaxRecordedVotes
    BY <1>2, <1>4, <1>5, GovernanceAssumption
  <2>2. HasEnded(n - MaxRecordedVotes, VoteDuration)
    BY <2>1 DEF CreateProposal, CreationAllowed
  <2>3. n - MaxRecordedVotes \in Int
    BY <1>2, GovernanceAssumption
  <2>4. QED
    BY <2>2, <2>3 DEF HasEnded, Ended
<1>10. indexStore'[BlockKey] = indexStore[BlockKey]
  BY KeysDiffer DEF CreateProposal, TypeInv, TypeOK, IndexShape
<1>11. height' = height
  BY DEF CreateProposal, ExecuteTransaction
<1>12. QED
  BY <1>2, <1>7, <1>8, <1>9, <1>10, <1>11

\* The write of an un-awaited call changes a tally of an active proposal only.
LEMMA WriteEffect ==
    ASSUME TypeInv, CallsOnActive, NEW c \in setting, AddVotesSet(c)
    PROVE  /\ DOMAIN proposals' = DOMAIN proposals
           /\ \A j \in DOMAIN proposals :
                /\ proposals'[j].creationHeight = proposals[j].creationHeight
                /\ proposals'[j].status = proposals[j].status
                /\ Closed(j) => proposals'[j] = proposals[j]
           /\ UNCHANGED <<height, phase, supply, indexStore, indexRead, getting>>
           /\ setting' = setting \ {c}
<1>1. /\ c.index \in DOMAIN proposals /\ ~Closed(c.index)
      /\ c.proposal.status = PROPOSAL_STATUS_ACTIVE
      /\ c.proposal.creationHeight = proposals[c.index].creationHeight
  BY DEF TypeInv, TypeOK, SettingCalls, CallsOnActive
<1>2. proposals' = [proposals EXCEPT ![c.index] = c.proposal]
  BY DEF AddVotesSet
<1>3. DOMAIN proposals' = DOMAIN proposals
  BY <1>2
<1>4. \A j \in DOMAIN proposals :
         proposals'[j] = IF j = c.index THEN c.proposal ELSE proposals[j]
  BY <1>2
<1>5. QED
  BY <1>1, <1>3, <1>4 DEF AddVotesSet, Closed

\* Every other step leaves the proposals as they are.
QuietStep ==
    /\ UNCHANGED proposals
    /\ height' >= height
    /\ indexStore'[BlockKey] = indexStore[BlockKey]

\* Every step is one of the four that change proposals or the stored indexes,
\* or leaves both alone.
LEMMA StepKinds ==
    ASSUME TypeInv, [Next]_vars
    PROVE  \/ QuorumCheck
           \/ OutcomeCheck
           \/ \E pool \in KnownPools, multiplier \in Multipliers : CreateProposal(pool, multiplier)
           \/ \E c \in setting : AddVotesSet(c)
           \/ QuietStep
<1>1. height \in Nat
  BY Fields
<1>2. CASE NextBlock
  BY <1>1, <1>2 DEF NextBlock, QuietStep, stores
<1>3. CASE QuorumLoopEnds \/ OutcomeLoopEnds
  BY <1>1, <1>3 DEF QuorumLoopEnds, OutcomeLoopEnds, QuietStep, stores
<1>4. CASE CreateProposalFails \/ VoteOnProposalFails
  BY <1>1, <1>4 DEF CreateProposalFails, VoteOnProposalFails, ExecuteTransaction, QuietStep
<1>5. ASSUME NEW voter \in Voters, NEW i \in DOMAIN proposals, NEW decision \in Decisions,
             NEW stake \in Stakes, VoteOnProposal(voter, i, decision, stake)
      PROVE  QuietStep
  BY <1>1, <1>5 DEF VoteOnProposal, ExecuteTransaction, QuietStep
<1>6. ASSUME NEW c \in getting, AddVotesGet(c) PROVE QuietStep
  BY <1>1, <1>6 DEF AddVotesGet, QuietStep, stores
<1>7. CASE BoundReached \/ UNCHANGED vars
  BY <1>1, <1>7 DEF BoundReached, vars, QuietStep
<1>8. QED
  BY <1>2, <1>3, <1>4, <1>5, <1>6, <1>7 DEF Next

-----------------------------------------------------------------------------
(* Safety *)

\* No step redates a proposal, and a new one comes last, dated now.
LEMMA Datings ==
    ASSUME TypeInv, CreationOrder, LoopIndexes, CallsOnActive, [Next]_vars
    PROVE  /\ height' >= height
           /\ \A j \in DOMAIN proposals :
                /\ j \in DOMAIN proposals'
                /\ proposals'[j].creationHeight = proposals[j].creationHeight
           /\ \A j \in DOMAIN proposals' \ DOMAIN proposals :
                /\ j \in Nat /\ DOMAIN proposals = 0..j - 1 /\ DOMAIN proposals' = 0..j
                /\ proposals'[j].creationHeight = height' /\ height' = height
                /\ proposals'[j].status = PROPOSAL_STATUS_ACTIVE
                /\ j - MaxRecordedVotes >= 0 =>
                     Ended(proposals[j - MaxRecordedVotes], VoteDuration)
<1>1. height \in Nat
  BY Fields
<1>2. CASE QuorumCheck
  BY <1>1, <1>2, QuorumEffect DEF QuorumCheck
<1>3. CASE OutcomeCheck
  BY <1>1, <1>3, OutcomeEffect DEF OutcomeCheck
<1>4. ASSUME NEW pool, NEW multiplier, CreateProposal(pool, multiplier)
      PROVE  /\ height' >= height
             /\ \A j \in DOMAIN proposals : j \in DOMAIN proposals' /\ proposals'[j] = proposals[j]
             /\ \A j \in DOMAIN proposals' \ DOMAIN proposals :
                  /\ j \in Nat /\ DOMAIN proposals = 0..j - 1 /\ DOMAIN proposals' = 0..j
                  /\ proposals'[j].creationHeight = height' /\ height' = height
                  /\ proposals'[j].status = PROPOSAL_STATUS_ACTIVE
                  /\ j - MaxRecordedVotes >= 0 =>
                       Ended(proposals[j - MaxRecordedVotes], VoteDuration)
  <2>1. PICK n \in Nat :
               /\ DOMAIN proposals = 0..n - 1
               /\ n - MaxRecordedVotes >= 0 =>
                    Ended(proposals[n - MaxRecordedVotes], VoteDuration)
               /\ DOMAIN proposals' = 0..n
               /\ proposals'[n].creationHeight = height
               /\ proposals'[n].status = PROPOSAL_STATUS_ACTIVE
               /\ \A j \in DOMAIN proposals : proposals'[j] = proposals[j]
               /\ height' = height
    BY <1>4, CreateEffect
  <2>2. DOMAIN proposals' \ DOMAIN proposals = {n}
    BY <2>1
  <2>3. QED
    BY <1>1, <2>1, <2>2
<1>5. ASSUME NEW c \in setting, AddVotesSet(c)
      PROVE  /\ height' = height
             /\ DOMAIN proposals' = DOMAIN proposals
             /\ \A j \in DOMAIN proposals :
                  proposals'[j].creationHeight = proposals[j].creationHeight
  BY <1>5, WriteEffect
<1>6. CASE QuietStep
  BY <1>6 DEF QuietStep
<1>7. QED
  BY <1>1, <1>2, <1>3, <1>4, <1>5, <1>6, StepKinds

\* Every step keeps the proposals in the order of their creation.
LEMMA OrderStep ==
    ASSUME TypeInv, TypeInv', CreationOrder, LoopIndexes, CallsOnActive, [Next]_vars
    PROVE  CreationOrder'
<1>1. /\ height \in Nat /\ height' \in Nat
      /\ \A j \in DOMAIN proposals : j \in Nat /\ proposals[j].creationHeight \in Nat
      /\ \A j \in DOMAIN proposals' : j \in Nat /\ proposals'[j].creationHeight \in Nat
  BY Fields, SMTT(60) DEF TypeInv, TypeOK, ProposalsShape, Proposal
<1>2. ASSUME NEW j \in DOMAIN proposals'
      PROVE  proposals'[j].creationHeight <= height'
  <2>1. CASE j \in DOMAIN proposals
    BY <1>1, <2>1, Datings DEF CreationOrder
  <2>2. CASE j \notin DOMAIN proposals
    BY <1>1, <2>2, Datings
  <2>3. QED
    BY <2>1, <2>2
<1>3. ASSUME NEW i \in DOMAIN proposals', NEW j \in DOMAIN proposals', i < j
      PROVE  proposals'[i].creationHeight <= proposals'[j].creationHeight
  <2>1. CASE j \in DOMAIN proposals
    <3>1. i \in DOMAIN proposals
      BY <1>1, <1>3, <2>1, Fields
    <3>2. QED
      BY <1>3, <2>1, <3>1, Datings DEF CreationOrder
  <2>2. CASE j \notin DOMAIN proposals
    <3>1. proposals'[j].creationHeight = height'
      BY <2>2, Datings
    <3>2. QED
      BY <1>2, <3>1
  <2>3. QED
    BY <2>1, <2>2
<1>4. QED
  BY <1>2, <1>3 DEF CreationOrder

\* Every step keeps the number of live proposals within its limit.
LEMMA LimitStep ==
    ASSUME TypeInv, TypeInv', CreationOrder, LiveProposalLimit, LoopIndexes, CallsOnActive,
           [Next]_vars
    PROVE  LiveProposalLimit'
<1>a. /\ height \in Nat /\ height' >= height
      /\ \A j \in DOMAIN proposals : j \in Nat /\ proposals[j].creationHeight \in Nat
  BY Fields, Datings
<1>b. height' \in Nat /\ \A j \in DOMAIN proposals' : j \in Nat
  BY DEF TypeInv, TypeOK, ProposalsShape
<1>c. MaxRecordedVotes \in Nat /\ MaxRecordedVotes > 0 /\ VoteDuration \in Nat
  BY GovernanceAssumption
<1>1. /\ height \in Nat /\ height' \in Nat /\ height' >= height
      /\ \A j \in DOMAIN proposals : j \in Nat /\ proposals[j].creationHeight \in Nat
      /\ \A j \in DOMAIN proposals' : j \in Nat
      /\ MaxRecordedVotes \in Nat /\ MaxRecordedVotes > 0 /\ VoteDuration \in Nat
  BY <1>a, <1>b, <1>c
<1>2. ASSUME NEW i \in DOMAIN proposals', NEW j \in DOMAIN proposals', j - i >= MaxRecordedVotes
      PROVE  Ended(proposals[i], VoteDuration) /\ i \in DOMAIN proposals
  <2>1. CASE j \in DOMAIN proposals
    <3>1. i \in DOMAIN proposals
      BY <1>1, <1>2, <2>1, Fields
    <3>2. QED
      BY <1>2, <2>1, <3>1 DEF LiveProposalLimit
  <2>2. CASE j \notin DOMAIN proposals
    <3> DEFINE k == j - MaxRecordedVotes
    <3>1. k \in Nat /\ i <= k /\ k < j /\ i \in Nat
      BY <1>1, <1>2
    <3>2. DOMAIN proposals = 0..j - 1 /\ Ended(proposals[k], VoteDuration)
      BY <2>2, <3>1, Datings
    <3>3. k \in DOMAIN proposals /\ i \in DOMAIN proposals
      BY <1>1, <3>1, <3>2
    <3>4. proposals[i].creationHeight <= proposals[k].creationHeight
      BY <3>1, <3>3, <1>1 DEF CreationOrder
    <3>5. QED
      BY <1>1, <3>2, <3>3, <3>4 DEF Ended
  <2>3. QED
    BY <2>1, <2>2
<1>3. ASSUME NEW i \in DOMAIN proposals', NEW j \in DOMAIN proposals', j - i >= MaxRecordedVotes
      PROVE  Ended(proposals[i], VoteDuration)'
  <2>1. proposals'[i].creationHeight = proposals[i].creationHeight
    BY <1>2, <1>3, Datings
  <2>2. QED
    BY <1>1, <1>2, <1>3, <2>1 DEF Ended
<1>4. QED
  BY <1>3 DEF LiveProposalLimit

\* Age only grows.
LEMMA EndedStays ==
    ASSUME TypeInv, TypeInv', CreationOrder, LoopIndexes, CallsOnActive, [Next]_vars,
           NEW i \in DOMAIN proposals, NEW d \in Nat, Ended(proposals[i], d)
    PROVE  height' - proposals'[i].creationHeight >= d
<1>1. height \in Nat /\ height' \in Nat /\ proposals[i].creationHeight \in Nat
  BY Fields DEF TypeInv, TypeOK
<1>2. height' >= height /\ proposals'[i].creationHeight = proposals[i].creationHeight
  BY Datings
<1>3. QED
  BY <1>1, <1>2 DEF Ended

\* Every step leaves proposals closed when their period is over.
LEMMA ClosedInTimeStep ==
    ASSUME TypeInv, TypeInv', CreationOrder, LoopIndexes, CallsOnActive, ClosedInTime, [Next]_vars
    PROVE  ClosedInTime'
<1> USE DEF PROPOSAL_STATUS_ACTIVE, PROPOSAL_STATUS_FINISHED_ACCEPTED,
            PROPOSAL_STATUS_FINISHED_FAILED, PROPOSAL_STATUS_FAILED_QUORUM
<1>d. QuorumDuration \in Nat /\ VoteDuration \in Nat
  BY GovernanceAssumption
<1>o. \A i \in DOMAIN proposals :
        /\ proposals[i].status \in Outcomes => Ended(proposals[i], VoteDuration)
        /\ proposals[i].status = PROPOSAL_STATUS_FAILED_QUORUM =>
             Ended(proposals[i], QuorumDuration)
  BY DEF ClosedInTime, Outcomes
<1>1. ASSUME NEW i \in DOMAIN proposals'
      PROVE  \/ /\ i \in DOMAIN proposals
                /\ proposals'[i].status \in Outcomes => Ended(proposals[i], VoteDuration)
                /\ proposals'[i].status = PROPOSAL_STATUS_FAILED_QUORUM =>
                     Ended(proposals[i], QuorumDuration)
             \/ proposals'[i].status = PROPOSAL_STATUS_ACTIVE
  <2>1. CASE i \notin DOMAIN proposals
    BY <2>1, Datings
  <2>2. CASE i \in DOMAIN proposals /\ proposals'[i].status = proposals[i].status
    BY <1>o, <2>2
  <2>3. CASE i \in DOMAIN proposals /\ proposals'[i].status # proposals[i].status
    <3>1. CASE QuorumCheck
      BY <1>o, <2>3, <3>1, QuorumEffect DEF Outcomes
    <3>2. CASE OutcomeCheck
      BY <1>o, <2>3, <3>2, OutcomeEffect DEF Outcomes
    <3>3. ASSUME NEW pool, NEW multiplier, CreateProposal(pool, multiplier)
          PROVE  proposals'[i].status = proposals[i].status
      BY <2>3, <3>3, CreateEffect
    <3>4. ASSUME NEW c \in setting, AddVotesSet(c)
          PROVE  proposals'[i].status = proposals[i].status
      BY <2>3, <3>4, WriteEffect
    <3>5. QED
      BY <2>3, <3>1, <3>2, <3>3, <3>4, StepKinds DEF QuietStep
  <2>4. QED
    BY <2>1, <2>2, <2>3
<1>2. ASSUME NEW i \in DOMAIN proposals'
      PROVE  /\ proposals'[i].status \in Outcomes =>
                  height' - proposals'[i].creationHeight >= VoteDuration
             /\ proposals'[i].status = PROPOSAL_STATUS_FAILED_QUORUM =>
                  height' - proposals'[i].creationHeight >= QuorumDuration
  <2>1. CASE proposals'[i].status = PROPOSAL_STATUS_ACTIVE
    BY <2>1 DEF Outcomes
  <2>2. CASE proposals'[i].status # PROPOSAL_STATUS_ACTIVE
    BY <1>1, <1>d, <2>2, EndedStays
  <2>3. QED
    BY <2>1, <2>2
<1>3. QED
  BY <1>2 DEF ClosedInTime, Ended, Outcomes

\* Every step leaves calls of addVotes under way for active proposals only.
LEMMA CallsStep ==
    ASSUME TypeInv, TypeInv', CreationOrder, LoopIndexes, CallsOnActive, [Next]_vars
    PROVE  CallsOnActive'
<1> USE DEF CallsOnActive
<1>t. /\ \A c \in getting : c.index \in DOMAIN proposals
      /\ \A c \in setting : c.index \in DOMAIN proposals
  BY DEF TypeInv, TypeOK, GettingCalls, SettingCalls
<1>1. CASE NextBlock
  BY <1>1 DEF NextBlock, calls
<1>2. CASE QuorumCheck \/ OutcomeCheck
  BY <1>2 DEF QuorumCheck, OutcomeCheck, calls
<1>3. CASE QuorumLoopEnds \/ OutcomeLoopEnds
  BY <1>3 DEF QuorumLoopEnds, OutcomeLoopEnds, calls
<1>4. ASSUME NEW pool \in KnownPools, NEW multiplier \in Multipliers,
             CreateProposal(pool, multiplier)
      PROVE  CallsOnActive'
  <2>1. \A j \in DOMAIN proposals : proposals'[j] = proposals[j]
    BY <1>4, CreateEffect
  <2>2. phase' = "transactions" /\ getting' = getting /\ setting' = setting
    BY <1>4 DEF CreateProposal, ExecuteTransaction, calls
  <2>3. QED
    BY <1>t, <2>1, <2>2 DEF Closed
<1>5. CASE CreateProposalFails \/ VoteOnProposalFails
  BY <1>5 DEF CreateProposalFails, VoteOnProposalFails, ExecuteTransaction, calls, Closed
<1>6. ASSUME NEW voter \in Voters, NEW i \in DOMAIN proposals, NEW decision \in Decisions,
             NEW stake \in Stakes, VoteOnProposal(voter, i, decision, stake)
      PROVE  CallsOnActive'
  <2>1. /\ phase' = "transactions" /\ proposals' = proposals /\ setting' = setting
        /\ ~Closed(i)
    BY <1>6 DEF VoteOnProposal, ExecuteTransaction, Votable, Closed
  <2>2. \A c \in getting' : c \in getting \/ c.index = i
    BY <1>6 DEF VoteOnProposal
  <2>3. QED
    BY <2>1, <2>2 DEF Closed
<1>7. ASSUME NEW c \in getting, AddVotesGet(c)
      PROVE  CallsOnActive'
  <2> DEFINE sum == c.votes + proposals[c.index].tally[c.decision]
             p == [proposals[c.index] EXCEPT !.tally[c.decision] = sum]
             w == [tx |-> c.tx, leg |-> c.leg, index |-> c.index, proposal |-> p]
  <2>1. c.index \in DOMAIN proposals /\ ~Closed(c.index)
    BY <1>t
  <2>2. p.status = proposals[c.index].status
        /\ p.creationHeight = proposals[c.index].creationHeight
    <3>1. PICK old \in Proposal : old = proposals[c.index]
      BY <2>1, Fields
    <3>2. p = [old EXCEPT !.tally[c.decision] = sum]
      BY <3>1
    <3>3. QED
      <4> HIDE DEF sum
      <4>1. [old EXCEPT !.tally[c.decision] = sum].status = old.status
            /\ [old EXCEPT !.tally[c.decision] = sum].creationHeight = old.creationHeight
        BY DEF Proposal
      <4>2. QED
        BY <3>1, <3>2, <4>1
  <2>3. /\ setting' \subseteq setting \cup {w} /\ getting' \subseteq getting
        /\ phase' = phase /\ proposals' = proposals
    BY <1>7 DEF AddVotesGet, stores
  <2>4. phase = "transactions"
    BY <1>7
  <2>5. QED
    <3> HIDE DEF p
    <3>1. /\ w.index = c.index /\ w.proposal = p
      OBVIOUS
    <3>2. w.proposal.status = PROPOSAL_STATUS_ACTIVE
      BY <2>1, <2>2, <3>1 DEF Closed
    <3>3. QED
      BY <2>1, <2>2, <2>3, <2>4, <3>1, <3>2 DEF Closed
<1>8. ASSUME NEW c \in setting, AddVotesSet(c)
      PROVE  CallsOnActive'
  BY <1>t, <1>8, WriteEffect DEF Closed
<1>9. CASE BoundReached \/ UNCHANGED vars
  BY <1>9 DEF BoundReached, vars, Closed
<1>10. QED
  BY <1>1, <1>2, <1>3, <1>4, <1>5, <1>6, <1>7, <1>8, <1>9 DEF Next

\* Every step keeps the loops' stored indexes with the hook's copy.
LEMMA IndexesStep ==
    ASSUME TypeInv, TypeInv', CreationOrder, LoopIndexes, CallsOnActive, [Next]_vars
    PROVE  LoopIndexes'
<1> USE DEF LoopIndexes
<1>d. \A i : i \in DOMAIN proposals => i \in DOMAIN proposals'
  BY Datings
<1>1. CASE NextBlock
  BY <1>1, <1>d DEF NextBlock, ReadIndex, stores
<1>2. CASE QuorumCheck
  BY <1>2, QuorumEffect DEF QuorumCheck
<1>3. CASE QuorumLoopEnds
  BY <1>3, <1>d DEF QuorumLoopEnds, stores
<1>4. CASE OutcomeCheck
  <2>1. /\ indexStore'[BlockKey].nextOutcomeCheckIndex = indexRead.nextOutcomeCheckIndex + 1
        /\ indexStore'[BlockKey].nextQuorumCheckIndex = indexRead.nextQuorumCheckIndex
        /\ indexRead.nextOutcomeCheckIndex \in DOMAIN proposals
        /\ indexRead.nextOutcomeCheckIndex \in Nat
    BY <1>4, OutcomeEffect, Fields
  <2>2. phase' = "outcome" /\ indexRead' = indexRead
    BY <1>4 DEF OutcomeCheck
  <2>3. QED
    BY <1>d, <2>1, <2>2
<1>5. CASE OutcomeLoopEnds
  BY <1>5, <1>d DEF OutcomeLoopEnds, stores
<1>6. CASE phase = "transactions" /\ phase' = "transactions"
           /\ indexStore'[BlockKey] = indexStore[BlockKey]
  BY <1>6, <1>d
<1>7. ASSUME NEW pool, NEW multiplier, CreateProposal(pool, multiplier)
      PROVE  LoopIndexes'
  <2>1. phase = "transactions" /\ phase' = "transactions"
    BY <1>7 DEF CreateProposal, ExecuteTransaction
  <2>2. QED
    BY <1>6, <1>7, <2>1, CreateEffect
<1>8. CASE CreateProposalFails \/ VoteOnProposalFails
  BY <1>6, <1>8 DEF CreateProposalFails, VoteOnProposalFails, ExecuteTransaction
<1>9. ASSUME NEW voter, NEW i, NEW decision, NEW stake, VoteOnProposal(voter, i, decision, stake)
      PROVE  LoopIndexes'
  BY <1>6, <1>9 DEF VoteOnProposal, ExecuteTransaction
<1>10. ASSUME NEW c, AddVotesGet(c) PROVE LoopIndexes'
  BY <1>d, <1>10 DEF AddVotesGet, stores
<1>11. ASSUME NEW c, AddVotesSet(c) PROVE LoopIndexes'
  BY <1>d, <1>11 DEF AddVotesSet
<1>12. CASE BoundReached \/ UNCHANGED vars
  BY <1>12 DEF BoundReached, vars
<1>13. QED
  BY <1>1, <1>2, <1>3, <1>4, <1>5, <1>7, <1>8, <1>9, <1>10, <1>11, <1>12 DEF Next

\* Every step keeps the outcome index between closed and open proposals.
LEMMA FrontierStep ==
    ASSUME TypeInv, TypeInv', CreationOrder, LoopIndexes, CallsOnActive, OutcomeIndexIsFrontier,
           [Next]_vars
    PROVE  OutcomeIndexIsFrontier'
<1> USE DEF OutcomeIndexIsFrontier
<1> DEFINE O == indexStore[BlockKey].nextOutcomeCheckIndex
           o == indexRead.nextOutcomeCheckIndex
<1>f. O \in Nat /\ o \in Nat /\ \A i \in DOMAIN proposals : i \in Nat
  BY Fields
<1>1. CASE QuorumCheck
  <2>1. indexStore'[BlockKey].nextOutcomeCheckIndex = O /\ DOMAIN proposals' = DOMAIN proposals
    BY <1>1, QuorumEffect
  <2>2. \A i \in DOMAIN proposals :
          proposals'[i].status \in {proposals[i].status, PROPOSAL_STATUS_FAILED_QUORUM}
    BY <1>1, QuorumEffect
  <2>3. QED
    BY <2>1, <2>2 DEF PROPOSAL_STATUS_FAILED_QUORUM, PROPOSAL_STATUS_ACTIVE
<1>2. CASE OutcomeCheck
  <2>1. /\ O \in {o, o + 1}
        /\ indexStore'[BlockKey].nextOutcomeCheckIndex = o + 1
        /\ DOMAIN proposals' = DOMAIN proposals
        /\ \A j \in DOMAIN proposals : j # o => proposals'[j].status = proposals[j].status
        /\ IF Closed(o) THEN proposals'[o].status = proposals[o].status
           ELSE proposals'[o].status \in Outcomes
    BY <1>2, OutcomeEffect DEF OutcomeCheck, LoopIndexes
  <2>2. proposals'[o].status # PROPOSAL_STATUS_ACTIVE
    BY <2>1 DEF Closed, Outcomes, PROPOSAL_STATUS_ACTIVE, PROPOSAL_STATUS_FINISHED_ACCEPTED,
                PROPOSAL_STATUS_FINISHED_FAILED
  <2>3. QED
    BY <1>f, <2>1, <2>2
<1>3. ASSUME NEW pool, NEW multiplier, CreateProposal(pool, multiplier)
      PROVE  OutcomeIndexIsFrontier'
  <2>1. PICK n \in Nat :
               /\ DOMAIN proposals = 0..n - 1
               /\ DOMAIN proposals' = 0..n
               /\ proposals'[n].status = PROPOSAL_STATUS_ACTIVE
               /\ \A j \in DOMAIN proposals : proposals'[j] = proposals[j]
               /\ indexStore'[BlockKey] = indexStore[BlockKey]
    BY <1>3, CreateEffect
  <2>2. O <= n
    BY <1>f, <2>1 DEF LoopIndexes
  <2>3. \A i \in 0..n : i \in DOMAIN proposals \/ i = n
    BY <2>1
  <2>4. QED
    BY <1>f, <2>1, <2>2, <2>3
<1>4. ASSUME NEW c \in setting, AddVotesSet(c) PROVE OutcomeIndexIsFrontier'
  BY <1>4, WriteEffect
<1>5. CASE QuietStep
  BY <1>5 DEF QuietStep
<1>6. QED
  BY <1>1, <1>2, <1>3, <1>4, <1>5, StepKinds

\* The genesis block establishes the safety invariant.
LEMMA SafetyInit == Init => SafetyInv
<1> SUFFICES ASSUME Init PROVE SafetyInv
  OBVIOUS
<1>1. indexStore[BlockKey] = GenesisIndex
  BY DEF Init, IndexKeys
<1>2. /\ CreationOrder /\ LiveProposalLimit /\ OutcomeIndexIsFrontier /\ ClosedInTime
  BY NoProposals DEF CreationOrder, LiveProposalLimit, OutcomeIndexIsFrontier, ClosedInTime
<1>3. CallsOnActive
  BY DEF Init, CallsOnActive
<1>4. LoopIndexes
  BY <1>1, GenesisIndexType DEF Init, LoopIndexes
<1>5. QED
  BY <1>2, <1>3, <1>4 DEF SafetyInv

\* The safety invariant is inductive on top of the type invariant.
LEMMA SafetyStep == TypeInv /\ SafetyInv /\ [Next]_vars => TypeInv' /\ SafetyInv'
<1> SUFFICES ASSUME TypeInv, SafetyInv, [Next]_vars PROVE TypeInv' /\ SafetyInv'
  OBVIOUS
<1> USE DEF SafetyInv
<1>1. TypeInv'
  BY TypeStep
<1>2. CreationOrder'
  BY <1>1, OrderStep
<1>3. LiveProposalLimit'
  BY <1>1, LimitStep
<1>4. CallsOnActive'
  BY <1>1, CallsStep
<1>5. LoopIndexes'
  BY <1>1, IndexesStep
<1>6. OutcomeIndexIsFrontier'
  BY <1>1, FrontierStep
<1>7. ClosedInTime'
  BY <1>1, ClosedInTimeStep
<1>8. QED
  BY <1>1, <1>2, <1>3, <1>4, <1>5, <1>6, <1>7

\* Both hold in every reachable state.
LEMMA SafetyCorrect == Spec => [](TypeInv /\ SafetyInv)
<1>1. Init => TypeInv /\ SafetyInv
  BY TypeInit, SafetyInit
<1>2. QED
  BY <1>1, SafetyStep, PTL DEF Spec

\* Proposals stay in the order of their creation, so the hook may stop at the
\* first one whose period has not ended.
THEOREM CreationOrderHolds == Spec => []CreationOrder
<1>1. SafetyInv => CreationOrder
  BY DEF SafetyInv
<1>2. QED
  BY <1>1, SafetyCorrect, PTL

\* No more than MAX_NUM_RECORDED_VOTES proposals are in their voting period.
THEOREM LiveProposalLimitHolds == Spec => []LiveProposalLimit
<1>1. SafetyInv => LiveProposalLimit
  BY DEF SafetyInv
<1>2. QED
  BY <1>1, SafetyCorrect, PTL

\* The stored outcome index separates what is closed from what is undecided, and
\* no proposal is passed over, although the hook writes back a stale record.
THEOREM OutcomeIndexIsFrontierHolds == Spec => []OutcomeIndexIsFrontier
<1>1. SafetyInv => OutcomeIndexIsFrontier
  BY DEF SafetyInv
<1>2. QED
  BY <1>1, SafetyCorrect, PTL

\* No proposal is decided or fails the quorum before its time.
THEOREM ClosedInTimeHolds == Spec => []ClosedInTime
<1>1. SafetyInv => ClosedInTime
  BY DEF SafetyInv
<1>2. QED
  BY <1>1, SafetyCorrect, PTL

\* No un-awaited vote reaches a proposal that is closed.
THEOREM ClosedTallyFrozenHolds == Spec => ClosedTallyFrozen
<1> DEFINE Frozen == \A i \in DOMAIN proposals :
                proposals[i].status # PROPOSAL_STATUS_ACTIVE
                  => proposals'[i].tally = proposals[i].tally
<1>1. TypeInv /\ SafetyInv /\ [Next]_vars => [Frozen]_vars
  <2> SUFFICES ASSUME TypeInv, SafetyInv, [Next]_vars PROVE Frozen
    OBVIOUS
  <2> USE DEF SafetyInv
  <2>1. CASE QuorumCheck
    BY <2>1, QuorumEffect
  <2>2. CASE OutcomeCheck
    BY <2>2, OutcomeEffect
  <2>3. ASSUME NEW pool, NEW multiplier, CreateProposal(pool, multiplier) PROVE Frozen
    BY <2>3, CreateEffect
  <2>4. ASSUME NEW c \in setting, AddVotesSet(c) PROVE Frozen
    BY <2>4, WriteEffect DEF Closed
  <2>5. CASE QuietStep
    BY <2>5 DEF QuietStep
  <2>6. QED
    BY <2>1, <2>2, <2>3, <2>4, <2>5, StepKinds
<1>2. QED
  BY <1>1, SafetyCorrect, PTL DEF Spec, ClosedTallyFrozen

\* The outcome loop, which writes its whole stale record, never moves the
\* outcome index back.
THEOREM OutcomeIndexMonotoneHolds == Spec => OutcomeIndexMonotone
<1> DEFINE Forward == indexStore'[BlockKey].nextOutcomeCheckIndex
                        >= indexStore[BlockKey].nextOutcomeCheckIndex
<1>1. TypeInv /\ SafetyInv /\ [Next]_vars => [Forward]_vars
  <2> SUFFICES ASSUME TypeInv, SafetyInv, [Next]_vars PROVE Forward
    OBVIOUS
  <2> USE DEF SafetyInv
  <2>n. indexStore[BlockKey].nextOutcomeCheckIndex \in Nat
        /\ indexRead.nextOutcomeCheckIndex \in Nat
    BY Fields
  <2>1. CASE QuorumCheck
    BY <2>n, <2>1, QuorumEffect
  <2>2. CASE OutcomeCheck
    BY <2>n, <2>2, OutcomeEffect DEF LoopIndexes, OutcomeCheck
  <2>3. ASSUME NEW pool, NEW multiplier, CreateProposal(pool, multiplier) PROVE Forward
    BY <2>n, <2>3, CreateEffect
  <2>4. ASSUME NEW c \in setting, AddVotesSet(c) PROVE Forward
    BY <2>n, <2>4, WriteEffect
  <2>5. CASE QuietStep
    BY <2>n, <2>5 DEF QuietStep
  <2>6. QED
    BY <2>1, <2>2, <2>3, <2>4, <2>5, StepKinds
<1>2. QED
  BY <1>1, SafetyCorrect, PTL DEF Spec, OutcomeIndexMonotone

-----------------------------------------------------------------------------
(* The quorum index and the outcome index *)

(***************************************************************************)
(* The outcome loop writes back the quorum index that its hook read, so a  *)
(* block that checks an outcome repeats its quorum checks in the next one. *)
(* A proposal that has been decided is never checked again all the same:   *)
(* the quorum index stays at or above the outcome index, because a block   *)
(* takes at most one outcome and fewer proposals than MaxRecordedVotes,    *)
(* so fewer blocks than lie between the ends of the two periods, can hold  *)
(* the quorum index up.                                                    *)
(***************************************************************************)

\* The indexes the next hook starts from, or the running one started from, and
\* the height of the last block whose hook has ended.
Frontiers == IF phase = "transactions" THEN indexStore[BlockKey] ELSE indexRead
LastHooked == IF phase = "transactions" THEN height ELSE height - 1

\* After the hook of the block at height last, with quorum index q and outcome
\* index o: every proposal from o on is in its voting period; q is not below o;
\* and the blocks the proposal at q has waited for its check are at most the
\* outcomes taken meanwhile.
AtFrontier(ps, last, q, o) ==
    /\ \A i \in DOMAIN ps :
        /\ ps[i].creationHeight <= last
        /\ i >= o => last - ps[i].creationHeight < VoteDuration
        /\ i - MaxRecordedVotes < o
    /\ o <= q
    /\ \A i \in DOMAIN ps :
        i = q /\ last - ps[i].creationHeight >= QuorumDuration
          => last - ps[i].creationHeight - QuorumDuration <= o - q + MaxRecordedVotes - 2

FrontierInv == AtFrontier(proposals, LastHooked, Frontiers.nextQuorumCheckIndex,
                          Frontiers.nextOutcomeCheckIndex)

\* In the outcome loop, no outcome has been taken and the quorum checks are done,
\* or one has been taken and the quorum index put back.
OutcomeInv ==
    LET Q == indexStore[BlockKey].nextQuorumCheckIndex
        O == indexStore[BlockKey].nextOutcomeCheckIndex
        q == indexRead.nextQuorumCheckIndex
        o == indexRead.nextOutcomeCheckIndex
    IN  phase = "outcome" =>
          \/ O = o /\ ~QuorumDue
          \/ O = o + 1 /\ Q = q /\ o \in DOMAIN proposals /\ Ended(proposals[o], VoteDuration)

FullInv == TypeInv /\ SafetyInv /\ FrontierInv /\ OutcomeInv

\* The indexes of the genesis block, which has no proposals.
LEMMA FrontierInit == Init => FrontierInv /\ OutcomeInv
<1> SUFFICES ASSUME Init PROVE FrontierInv /\ OutcomeInv
  OBVIOUS
<1>1. phase = "transactions" /\ indexStore[BlockKey] = GenesisIndex
  BY DEF Init, IndexKeys
<1>2. Frontiers.nextQuorumCheckIndex = 0 /\ Frontiers.nextOutcomeCheckIndex = 0
  BY <1>1, GenesisIndexType DEF Frontiers
<1>3. QED
  BY <1>1, <1>2, NoProposals DEF FrontierInv, AtFrontier, OutcomeInv

\* AtFrontier is about the numbers and dates of the proposals only.
LEMMA FrontierSame ==
    ASSUME NEW last, NEW q, NEW o, AtFrontier(proposals, last, q, o),
           DOMAIN proposals' = DOMAIN proposals,
           \A i \in DOMAIN proposals :
               proposals'[i].creationHeight = proposals[i].creationHeight
    PROVE  AtFrontier(proposals', last, q, o)
  BY DEF AtFrontier

\* A step that moves neither the indexes nor the last height nor a date.
LEMMA FrontierKept ==
    ASSUME FrontierInv, Frontiers' = Frontiers, LastHooked' = LastHooked,
           DOMAIN proposals' = DOMAIN proposals,
           \A i \in DOMAIN proposals :
               proposals'[i].creationHeight = proposals[i].creationHeight
    PROVE  FrontierInv'
<1>1. AtFrontier(proposals', LastHooked, Frontiers.nextQuorumCheckIndex,
                 Frontiers.nextOutcomeCheckIndex)
  BY FrontierSame DEF FrontierInv
<1>2. QED
  BY <1>1 DEF FrontierInv

\* A new proposal joins those in their voting period; the limit on their number
\* is what createProposal checks.
LEMMA FrontierCreate ==
    ASSUME TypeInv, FrontierInv, NEW pool, NEW multiplier, CreateProposal(pool, multiplier)
    PROVE  FrontierInv'
<1> DEFINE q == indexStore[BlockKey].nextQuorumCheckIndex
           o == indexStore[BlockKey].nextOutcomeCheckIndex
<1>1. PICK n \in Nat :
             /\ DOMAIN proposals = 0..n - 1
             /\ n - MaxRecordedVotes >= 0 =>
                  Ended(proposals[n - MaxRecordedVotes], VoteDuration)
             /\ DOMAIN proposals' = 0..n
             /\ proposals'[n].creationHeight = height
             /\ \A j \in DOMAIN proposals : proposals'[j] = proposals[j]
             /\ height' = height
             /\ indexStore'[BlockKey] = indexStore[BlockKey]
  BY CreateEffect
<1>2. phase = "transactions" /\ phase' = "transactions"
  BY DEF CreateProposal, ExecuteTransaction
<1>3. AtFrontier(proposals, height, q, o)
  BY <1>2 DEF FrontierInv, Frontiers, LastHooked
<1>4. height \in Nat /\ q \in Nat /\ o \in Nat
      /\ \A i \in DOMAIN proposals : i \in Nat /\ proposals[i].creationHeight \in Nat
  BY Fields
<1>c. /\ QuorumDuration \in Nat /\ QuorumDuration > 0 /\ VoteDuration \in Nat
      /\ MaxRecordedVotes \in Nat /\ MaxRecordedVotes > 0
      /\ VoteDuration - QuorumDuration >= MaxRecordedVotes
  BY GovernanceAssumption, DurationsApart
<1>5. n - MaxRecordedVotes < o
  <2>1. CASE n - MaxRecordedVotes >= 0
    <3>1. n - MaxRecordedVotes \in DOMAIN proposals
      BY <1>1, <1>c, <2>1
    <3>2. height - proposals[n - MaxRecordedVotes].creationHeight >= VoteDuration
      BY <1>1, <2>1 DEF Ended
    <3>3. QED
      BY <1>3, <1>4, <1>c, <3>1, <3>2 DEF AtFrontier
  <2>2. QED
    BY <1>1, <1>4, <1>c, <2>1
<1>6. ASSUME NEW i \in 0..n
      PROVE  /\ proposals'[i].creationHeight <= height
             /\ i >= o => height - proposals'[i].creationHeight < VoteDuration
             /\ i - MaxRecordedVotes < o
  <2>1. CASE i = n
    BY <1>1, <1>4, <1>5, <1>c, <2>1
  <2>2. CASE i \in 0..n - 1
    BY <1>1, <1>3, <2>2 DEF AtFrontier
  <2>3. QED
    BY <2>1, <2>2
<1>7. ASSUME NEW i \in 0..n, i = q, height - proposals'[i].creationHeight >= QuorumDuration
      PROVE  height - proposals'[i].creationHeight - QuorumDuration <= o - q + MaxRecordedVotes - 2
  <2>1. i # n
    BY <1>1, <1>4, <1>7, <1>c
  <2>2. i \in DOMAIN proposals
    BY <1>1, <2>1
  <2>3. proposals'[i] = proposals[i]
    BY <1>1, <2>2
  <2>4. QED
    BY <1>3, <1>7, <2>2, <2>3 DEF AtFrontier
<1>8. AtFrontier(proposals', height, q, o)
  BY <1>1, <1>3, <1>6, <1>7 DEF AtFrontier
<1>9. QED
  BY <1>1, <1>2, <1>8 DEF FrontierInv, Frontiers, LastHooked

\* The end of the hook: the one block that may hold the quorum index up.
LEMMA FrontierHooked ==
    ASSUME FullInv, OutcomeLoopEnds
    PROVE  FrontierInv'
<1> USE DEF FullInv, SafetyInv
<1> DEFINE Q == indexStore[BlockKey].nextQuorumCheckIndex
           O == indexStore[BlockKey].nextOutcomeCheckIndex
           q == indexRead.nextQuorumCheckIndex
           o == indexRead.nextOutcomeCheckIndex
           c(i) == proposals[i].creationHeight
<1>1. /\ phase = "outcome" /\ phase' = "transactions" /\ height' = height
      /\ UNCHANGED <<proposals, indexStore>> /\ ~OutcomeDue
  BY DEF OutcomeLoopEnds, stores
<1>2. /\ height \in Nat /\ q \in Nat /\ o \in Nat /\ Q \in Nat /\ O \in Nat
      /\ \A i \in DOMAIN proposals :
            i \in Nat /\ c(i) \in Nat /\ \A j \in Nat : j <= i => j \in DOMAIN proposals
  BY Fields
<1>c. /\ QuorumDuration \in Nat /\ QuorumDuration > 0 /\ VoteDuration \in Nat
      /\ MaxRecordedVotes \in Nat /\ MaxRecordedVotes > 0
      /\ VoteDuration - QuorumDuration >= MaxRecordedVotes
  BY GovernanceAssumption, DurationsApart
<1>3. /\ \A i \in DOMAIN proposals :
            /\ c(i) <= height - 1
            /\ i >= o => (height - 1) - c(i) < VoteDuration
            /\ i - MaxRecordedVotes < o
      /\ o <= q
      /\ \A i \in DOMAIN proposals :
            i = q /\ (height - 1) - c(i) >= QuorumDuration
              => (height - 1) - c(i) - QuorumDuration <= o - q + MaxRecordedVotes - 2
  BY <1>1 DEF FrontierInv, AtFrontier, Frontiers, LastHooked
<1>4. Q \in {q, q + 1} /\ O \in {o, o + 1}
  BY <1>1 DEF LoopIndexes
<1>5. ASSUME NEW i \in DOMAIN proposals, i >= O PROVE height - c(i) < VoteDuration
  <2>1. O \in DOMAIN proposals
    BY <1>2, <1>5
  <2>2. height - c(O) < VoteDuration
    BY <1>1, <1>2, <1>c, <2>1 DEF OutcomeDue, HasEnded
  <2>3. O = i \/ c(O) <= c(i)
    BY <1>2, <1>5, <2>1 DEF CreationOrder
  <2>4. QED
    BY <1>2, <1>c, <2>1, <2>2, <2>3
<1>6. CASE O = o /\ ~QuorumDue
  <2>1. ASSUME NEW i \in DOMAIN proposals, i = Q PROVE ~(height - c(i) >= QuorumDuration)
    BY <1>6, <2>1 DEF QuorumDue, HasEnded
  <2>2. o <= Q
    BY <1>2, <1>3, <1>4
  <2>3. \A i \in DOMAIN proposals : c(i) <= height
    BY <1>2, <1>3
  <2>4. AtFrontier(proposals, height, Q, O)
    BY <1>3, <1>5, <1>6, <2>1, <2>2, <2>3 DEF AtFrontier
  <2>5. QED
    BY <1>1, <2>4 DEF FrontierInv, Frontiers, LastHooked
<1>7. CASE O = o + 1 /\ Q = q /\ o \in DOMAIN proposals /\ Ended(proposals[o], VoteDuration)
  <2>1. o # q
    <3>1. SUFFICES ASSUME o = q PROVE FALSE
      OBVIOUS
    <3>2. (height - 1) - c(o) = VoteDuration - 1
      BY <1>2, <1>3, <1>7, <1>c DEF Ended
    <3>3. (height - 1) - c(o) - QuorumDuration <= o - q + MaxRecordedVotes - 2
      BY <1>3, <1>7, <1>c, <3>1, <3>2
    <3>4. QED
      BY <1>2, <1>c, <3>1, <3>2, <3>3
  <2>2. O <= Q
    BY <1>2, <1>3, <1>7, <2>1
  <2>3. \A i \in DOMAIN proposals : c(i) <= height /\ i - MaxRecordedVotes < O
    BY <1>2, <1>3, <1>7, <1>c
  <2>4. ASSUME NEW i \in DOMAIN proposals, i = Q, height - c(i) >= QuorumDuration
        PROVE  height - c(i) - QuorumDuration <= O - Q + MaxRecordedVotes - 2
    <3>1. CASE (height - 1) - c(i) >= QuorumDuration
      <4>1. (height - 1) - c(i) - QuorumDuration <= o - q + MaxRecordedVotes - 2
        BY <1>3, <1>7, <2>4, <3>1
      <4>2. QED
        BY <1>2, <1>7, <1>c, <4>1
    <3>2. CASE height - c(i) = QuorumDuration
      <4>1. i - MaxRecordedVotes < o
        BY <1>3
      <4>2. QED
        BY <1>2, <1>7, <1>c, <2>4, <3>2, <4>1
    <3>3. QED
      BY <1>2, <1>c, <2>4, <3>1, <3>2
  <2>5. AtFrontier(proposals, height, Q, O)
    BY <1>5, <2>2, <2>3, <2>4 DEF AtFrontier
  <2>6. QED
    BY <1>1, <2>5 DEF FrontierInv, Frontiers, LastHooked
<1>8. QED
  BY <1>1, <1>6, <1>7 DEF OutcomeInv

\* Every step keeps the indexes where AtFrontier says.
LEMMA IndexFrontierStep ==
    ASSUME FullInv, [Next]_vars
    PROVE  FrontierInv'
<1> USE DEF FullInv, SafetyInv
<1>1. CASE NextBlock
  <2>1. /\ phase = "transactions" /\ phase' = "quorum" /\ height' = height + 1
        /\ indexRead' = indexStore[BlockKey] /\ proposals' = proposals
    BY <1>1 DEF NextBlock, ReadIndex, stores
  <2>2. Frontiers' = Frontiers /\ LastHooked' = LastHooked
    BY <2>1, Fields DEF Frontiers, LastHooked
  <2>3. QED
    BY <2>1, <2>2, FrontierKept
<1>2. CASE QuorumCheck
  <2>1. Frontiers' = Frontiers /\ LastHooked' = LastHooked
    BY <1>2 DEF QuorumCheck, Frontiers, LastHooked
  <2>2. /\ DOMAIN proposals' = DOMAIN proposals
        /\ \A i \in DOMAIN proposals :
              proposals'[i].creationHeight = proposals[i].creationHeight
    BY <1>2, QuorumEffect
  <2>3. QED
    BY <2>1, <2>2, FrontierKept
<1>3. CASE OutcomeCheck
  <2>1. Frontiers' = Frontiers /\ LastHooked' = LastHooked
    BY <1>3 DEF OutcomeCheck, Frontiers, LastHooked
  <2>2. /\ DOMAIN proposals' = DOMAIN proposals
        /\ \A i \in DOMAIN proposals :
              proposals'[i].creationHeight = proposals[i].creationHeight
    BY <1>3, OutcomeEffect
  <2>3. QED
    BY <2>1, <2>2, FrontierKept
<1>4. CASE QuorumLoopEnds
  BY <1>4, FrontierKept DEF QuorumLoopEnds, Frontiers, LastHooked, stores
<1>5. CASE OutcomeLoopEnds
  BY <1>5, FrontierHooked
<1>6. ASSUME NEW pool, NEW multiplier, CreateProposal(pool, multiplier) PROVE FrontierInv'
  BY <1>6, FrontierCreate
<1>7. ASSUME UNCHANGED <<height, phase, indexStore, indexRead, proposals>> PROVE FrontierInv'
  BY <1>7, FrontierKept DEF Frontiers, LastHooked
<1>8. CASE CreateProposalFails \/ VoteOnProposalFails
  BY <1>7, <1>8 DEF CreateProposalFails, VoteOnProposalFails, ExecuteTransaction
<1>9. ASSUME NEW voter, NEW i, NEW decision, NEW stake, VoteOnProposal(voter, i, decision, stake)
      PROVE  FrontierInv'
  BY <1>7, <1>9 DEF VoteOnProposal, ExecuteTransaction
<1>10. ASSUME NEW c, AddVotesGet(c) PROVE FrontierInv'
  BY <1>7, <1>10 DEF AddVotesGet, stores
<1>11. ASSUME NEW c \in setting, AddVotesSet(c) PROVE FrontierInv'
  <2>1. /\ DOMAIN proposals' = DOMAIN proposals
        /\ \A i \in DOMAIN proposals :
              proposals'[i].creationHeight = proposals[i].creationHeight
        /\ UNCHANGED <<height, phase, indexStore, indexRead>>
    BY <1>11, WriteEffect
  <2>2. Frontiers' = Frontiers /\ LastHooked' = LastHooked
    BY <2>1 DEF Frontiers, LastHooked
  <2>3. QED
    BY <2>1, <2>2, FrontierKept
<1>12. CASE BoundReached \/ UNCHANGED vars
  BY <1>7, <1>12 DEF BoundReached, vars
<1>13. QED
  BY <1>1, <1>2, <1>3, <1>4, <1>5, <1>6, <1>8, <1>9, <1>10, <1>11, <1>12 DEF Next

\* Every step keeps what the outcome loop relies on.
LEMMA OutcomeLoopStep ==
    ASSUME FullInv, [Next]_vars
    PROVE  OutcomeInv'
<1> USE DEF FullInv, SafetyInv
<1>1. CASE QuorumLoopEnds
  <2>1. /\ indexStore[BlockKey].nextOutcomeCheckIndex = indexRead.nextOutcomeCheckIndex
        /\ ~QuorumDue
        /\ UNCHANGED <<height, proposals, indexStore, indexRead>>
    BY <1>1 DEF QuorumLoopEnds, LoopIndexes, stores
  <2>2. QED
    BY <2>1 DEF OutcomeInv, QuorumDue, HasEnded
<1>2. CASE OutcomeCheck
  <2>1. /\ indexStore'[BlockKey].nextOutcomeCheckIndex = indexRead.nextOutcomeCheckIndex + 1
        /\ indexStore'[BlockKey].nextQuorumCheckIndex = indexRead.nextQuorumCheckIndex
        /\ indexRead.nextOutcomeCheckIndex \in DOMAIN proposals
        /\ Ended(proposals[indexRead.nextOutcomeCheckIndex], VoteDuration)
        /\ DOMAIN proposals' = DOMAIN proposals
        /\ proposals'[indexRead.nextOutcomeCheckIndex].creationHeight
             = proposals[indexRead.nextOutcomeCheckIndex].creationHeight
    BY <1>2, OutcomeEffect
  <2>2. indexRead' = indexRead /\ height' = height
    BY <1>2 DEF OutcomeCheck
  <2>3. QED
    BY <2>1, <2>2 DEF OutcomeInv, Ended
<1>3. CASE NextBlock \/ QuorumCheck \/ OutcomeLoopEnds
  BY <1>3 DEF NextBlock, QuorumCheck, OutcomeLoopEnds, OutcomeInv
<1>4. ASSUME phase' = "transactions" PROVE OutcomeInv'
  BY <1>4 DEF OutcomeInv
<1>5. ASSUME ExecuteTransaction PROVE OutcomeInv'
  BY <1>4, <1>5 DEF ExecuteTransaction
<1>6. CASE CreateProposalFails \/ VoteOnProposalFails
  BY <1>5, <1>6 DEF CreateProposalFails, VoteOnProposalFails
<1>7. ASSUME NEW pool, NEW multiplier, CreateProposal(pool, multiplier) PROVE OutcomeInv'
  BY <1>5, <1>7 DEF CreateProposal
<1>8. ASSUME NEW voter, NEW i, NEW decision, NEW stake, VoteOnProposal(voter, i, decision, stake)
      PROVE  OutcomeInv'
  BY <1>5, <1>8 DEF VoteOnProposal
<1>9. ASSUME NEW c \in getting, AddVotesGet(c) PROVE OutcomeInv'
  BY <1>4, <1>9 DEF AddVotesGet, CallsOnActive
<1>10. ASSUME NEW c \in setting, AddVotesSet(c) PROVE OutcomeInv'
  BY <1>4, <1>10 DEF AddVotesSet, CallsOnActive
<1>11. CASE BoundReached \/ UNCHANGED vars
  <2>1. UNCHANGED vars
    BY <1>11 DEF BoundReached
  <2>2. QED
    BY <2>1 DEF vars, OutcomeInv, QuorumDue, HasEnded, Ended
<1>12. QED
  BY <1>1, <1>2, <1>3, <1>6, <1>7, <1>8, <1>9, <1>10, <1>11 DEF Next

\* What FrontierInv is for: a repeated quorum check meets no decided proposal.
LEMMA ClosedStays ==
    ASSUME FullInv, [Next]_vars, NEW i \in DOMAIN proposals, Closed(i)
    PROVE  proposals'[i].status = proposals[i].status
<1> USE DEF FullInv, SafetyInv
<1>1. CASE QuorumCheck
  <2> DEFINE q == indexRead.nextQuorumCheckIndex
             o == indexRead.nextOutcomeCheckIndex
  <2>1. /\ i # q => proposals'[i].status = proposals[i].status
        /\ proposals'[q].status = IF MissesQuorum(proposals[q])
                                  THEN PROPOSAL_STATUS_FAILED_QUORUM ELSE proposals[q].status
        /\ o = indexStore[BlockKey].nextOutcomeCheckIndex
    BY <1>1, QuorumEffect
  <2>2. o <= q /\ o \in Nat /\ q \in Nat /\ i \in Nat
    BY <1>1, Fields DEF FrontierInv, AtFrontier, Frontiers, QuorumCheck
  <2>3. i = q => proposals[i].status = PROPOSAL_STATUS_FAILED_QUORUM
    BY <2>1, <2>2 DEF OutcomeIndexIsFrontier, Closed
  <2>4. QED
    BY <2>1, <2>3
<1>2. CASE OutcomeCheck
  BY <1>2, OutcomeEffect
<1>3. ASSUME NEW pool, NEW multiplier, CreateProposal(pool, multiplier)
      PROVE  proposals'[i].status = proposals[i].status
  BY <1>3, CreateEffect
<1>4. ASSUME NEW c \in setting, AddVotesSet(c)
      PROVE  proposals'[i].status = proposals[i].status
  BY <1>4, WriteEffect
<1>5. CASE QuietStep
  BY <1>5 DEF QuietStep
<1>6. QED
  BY <1>1, <1>2, <1>3, <1>4, <1>5, StepKinds

\* All the invariants are inductive together.
LEMMA FullStep == FullInv /\ [Next]_vars => FullInv'
  BY SafetyStep, IndexFrontierStep, OutcomeLoopStep DEF FullInv

\* And they hold in every reachable state.
LEMMA FullCorrect == Spec => []FullInv
<1>1. Init => FullInv
  BY TypeInit, SafetyInit, FrontierInit DEF FullInv
<1>2. QED
  BY <1>1, FullStep, PTL DEF Spec

\* A closed proposal keeps its status for ever, however the token supply grows:
\* although the outcome loop takes back the advance of the quorum index, a check
\* that is repeated under a larger supply meets no decided proposal.
THEOREM FinalStatusStableHolds == Spec => FinalStatusStable
<1> DEFINE Stable == \A i \in DOMAIN proposals :
                proposals[i].status # PROPOSAL_STATUS_ACTIVE
                  => proposals'[i].status = proposals[i].status
<1>1. FullInv /\ [Next]_vars => [Stable]_vars
  BY ClosedStays DEF Closed
<1>2. QED
  BY <1>1, FullCorrect, PTL DEF Spec, FinalStatusStable

-----------------------------------------------------------------------------
(* Refinement *)

Created == [i \in DOMAIN proposals |-> proposals[i].creationHeight]
Status == [i \in DOMAIN proposals |-> proposals[i].status]

\* A step that dates and numbers no proposal anew stutters in the life cycle when
\* it changes no status and no height.
LEMMA SameLifecycle ==
    ASSUME DOMAIN proposals' = DOMAIN proposals, height' = height,
           \A i \in DOMAIN proposals :
               /\ proposals'[i].creationHeight = proposals[i].creationHeight
               /\ proposals'[i].status = proposals[i].status
    PROVE  UNCHANGED Lifecycle!lifecycle
  BY DEF Lifecycle!lifecycle

\* An initial state of the governance is one of the abstract life cycle.
LEMMA LifecycleInitial == Init => Lifecycle!LifecycleInit
<1> SUFFICES ASSUME Init PROVE Lifecycle!LifecycleInit
  OBVIOUS
<1>1. /\ Created = [i \in {} |-> 0]
      /\ Status = [i \in {} |-> 0]
  BY NoProposals DEF Created, Status
<1>2. height \in Nat
  BY GovernanceAssumption DEF Init
<1>3. QED
  BY <1>1, <1>2 DEF Lifecycle!LifecycleInit, Created, Status

\* A change of one status shows in the life cycle as a change of that status.
LEMMA OneStatus ==
    ASSUME TypeInv, DOMAIN proposals' = DOMAIN proposals, NEW i \in DOMAIN proposals,
           \A j \in DOMAIN proposals :
               /\ proposals'[j].creationHeight = proposals[j].creationHeight
               /\ j # i => proposals'[j].status = proposals[j].status
    PROVE  Created' = Created /\ Status' = [Status EXCEPT ![i] = proposals'[i].status]
<1>1. Created' = Created
  BY DEF Created
<1>2. DOMAIN Status = DOMAIN proposals /\ \A j \in DOMAIN proposals : Status[j] = proposals[j].status
  BY DEF Status
<1>3. Status' = [j \in DOMAIN proposals |-> proposals'[j].status]
  BY DEF Status
<1>4. QED
  BY <1>1, <1>2, <1>3

\* Every step of the governance is a step of the life cycle, or none.
LEMMA LifecycleStep ==
    ASSUME FullInv, [Next]_vars
    PROVE  [Lifecycle!LifecycleNext]_(Lifecycle!lifecycle)
<1> USE DEF FullInv, SafetyInv
<1> USE DEF PROPOSAL_STATUS_ACTIVE, PROPOSAL_STATUS_FINISHED_ACCEPTED,
            PROPOSAL_STATUS_FINISHED_FAILED, PROPOSAL_STATUS_FAILED_QUORUM,
            Lifecycle!PROPOSAL_STATUS_ACTIVE, Lifecycle!PROPOSAL_STATUS_FINISHED_ACCEPTED,
            Lifecycle!PROPOSAL_STATUS_FINISHED_FAILED, Lifecycle!PROPOSAL_STATUS_FAILED_QUORUM
<1>c. /\ DOMAIN Created = DOMAIN proposals /\ DOMAIN Status = DOMAIN proposals
      /\ \A i \in DOMAIN proposals :
            Created[i] = proposals[i].creationHeight /\ Status[i] = proposals[i].status
  BY DEF Created, Status
<1>1. CASE QuorumCheck
  <2> DEFINE q == indexRead.nextQuorumCheckIndex
  <2>1. /\ q \in DOMAIN proposals /\ Ended(proposals[q], QuorumDuration)
        /\ DOMAIN proposals' = DOMAIN proposals
        /\ proposals'[q].status = IF MissesQuorum(proposals[q])
                                  THEN PROPOSAL_STATUS_FAILED_QUORUM ELSE proposals[q].status
        /\ \A j \in DOMAIN proposals :
             /\ proposals'[j].creationHeight = proposals[j].creationHeight
             /\ j # q => proposals'[j].status = proposals[j].status
    BY <1>1, QuorumEffect
  <2>2. height' = height
    BY <1>1 DEF QuorumCheck
  <2>3. CASE proposals'[q].status = proposals[q].status
    BY <2>1, <2>2, <2>3, SameLifecycle
  <2>4. CASE proposals'[q].status # proposals[q].status
    <3>1. PICK i \in DOMAIN proposals : i = q
      BY <2>1
    <3>2. proposals[i].status = PROPOSAL_STATUS_ACTIVE
      BY <2>1, <2>4, <3>1, ClosedStays DEF Closed
    <3>3. proposals'[i].status = PROPOSAL_STATUS_FAILED_QUORUM
      BY <2>1, <2>4, <3>1
    <3>4. Created' = Created /\ Status' = [Status EXCEPT ![i] = PROPOSAL_STATUS_FAILED_QUORUM]
      BY <2>1, <3>1, <3>3, OneStatus
    <3>5. Status[i] = PROPOSAL_STATUS_ACTIVE /\ height - Created[i] >= QuorumDuration
      BY <1>c, <2>1, <3>1, <3>2 DEF Ended
    <3>6. Lifecycle!FailQuorum(i)
      BY <2>2, <3>4, <3>5 DEF Lifecycle!FailQuorum, Lifecycle!Age, Created, Status
    <3>7. i \in DOMAIN Created
      BY <1>c
    <3>8. QED
      BY <3>6, <3>7 DEF Lifecycle!LifecycleNext, Created
  <2>5. QED
    BY <2>3, <2>4
<1>2. CASE OutcomeCheck
  <2> DEFINE o == indexRead.nextOutcomeCheckIndex
  <2>1. /\ o \in DOMAIN proposals /\ Ended(proposals[o], VoteDuration)
        /\ DOMAIN proposals' = DOMAIN proposals
        /\ IF Closed(o) THEN proposals'[o].status = proposals[o].status
           ELSE proposals'[o].status \in Outcomes
        /\ \A j \in DOMAIN proposals :
             /\ proposals'[j].creationHeight = proposals[j].creationHeight
             /\ j # o => proposals'[j].status = proposals[j].status
    BY <1>2, OutcomeEffect
  <2>2. height' = height
    BY <1>2 DEF OutcomeCheck
  <2>3. CASE Closed(o)
    BY <2>1, <2>2, <2>3, SameLifecycle
  <2>4. CASE ~Closed(o)
    <3>1. PICK i \in DOMAIN proposals : i = o
      BY <2>1
    <3>2. PICK outcome \in Outcomes : outcome = proposals'[i].status
      BY <2>1, <2>4, <3>1
    <3>3. Created' = Created /\ Status' = [Status EXCEPT ![i] = outcome]
      BY <2>1, <3>1, <3>2, OneStatus
    <3>4. \A j \in DOMAIN proposals : j < i => proposals[j].status # PROPOSAL_STATUS_ACTIVE
      <4>1. indexStore[BlockKey].nextOutcomeCheckIndex \in {i, i + 1} /\ i \in Nat
        BY <1>2, <3>1, Fields DEF LoopIndexes, OutcomeCheck
      <4>2. QED
        BY <4>1, Fields DEF OutcomeIndexIsFrontier
    <3>5. /\ Status[i] = PROPOSAL_STATUS_ACTIVE /\ height - Created[i] >= VoteDuration
          /\ \A j \in DOMAIN Created : j < i => Status[j] # PROPOSAL_STATUS_ACTIVE
      BY <1>c, <2>1, <2>4, <3>1, <3>4 DEF Ended, Closed
    <3>6. Lifecycle!Decide(i, outcome)
      BY <2>2, <3>3, <3>5 DEF Lifecycle!Decide, Lifecycle!Age, Created, Status
    <3>7. i \in DOMAIN Created
      BY <1>c
    <3>8. QED
      BY <3>6, <3>7 DEF Lifecycle!LifecycleNext, Created, Outcomes
  <2>5. QED
    BY <2>3, <2>4
<1>3. ASSUME NEW pool \in KnownPools, NEW multiplier \in Multipliers,
             CreateProposal(pool, multiplier)
      PROVE  Lifecycle!Propose
  <2>1. PICK n \in Nat :
               /\ DOMAIN proposals = 0..n - 1
               /\ n - MaxRecordedVotes >= 0 =>
                    Ended(proposals[n - MaxRecordedVotes], VoteDuration)
               /\ DOMAIN proposals' = 0..n
               /\ proposals'[n].creationHeight = height
               /\ proposals'[n].status = PROPOSAL_STATUS_ACTIVE
               /\ \A j \in DOMAIN proposals : proposals'[j] = proposals[j]
               /\ height' = height
    BY <1>3, CreateEffect
  <2>2. n \in 0..MaxProposals - 1
    <3>1. TypeInv'
      BY TypeStep
    <3>2. PICK m \in 0..MaxProposals : proposals' \in [0..m - 1 -> Proposal]
      BY <3>1 DEF TypeInv, TypeOK, ProposalsShape
    <3>3. 0..n = 0..m - 1
      BY <2>1, <3>2
    <3>4. QED
      BY <3>3, GovernanceAssumption
  <2>3. Created' = [i \in 0..n |-> IF i = n THEN height ELSE Created[i]]
    BY <1>c, <2>1 DEF Created
  <2>4. Status' = [i \in 0..n |-> IF i = n THEN PROPOSAL_STATUS_ACTIVE ELSE Status[i]]
    BY <1>c, <2>1 DEF Status
  <2>5. n - MaxRecordedVotes \in DOMAIN Created =>
          height - Created[n - MaxRecordedVotes] >= VoteDuration
    BY <1>c, <2>1, Fields DEF Ended
  <2>6. DOMAIN Created = 0..n - 1
    BY <1>c, <2>1
  <2>7. QED
    BY <2>1, <2>2, <2>3, <2>4, <2>5, <2>6 DEF Lifecycle!Propose, Lifecycle!Age, Created, Status
<1>4. ASSUME NEW c \in setting, AddVotesSet(c)
      PROVE  UNCHANGED Lifecycle!lifecycle
  BY <1>4, WriteEffect, SameLifecycle
<1>5. CASE UNCHANGED proposals /\ height' = height
  BY <1>5, SameLifecycle
<1>6. CASE NextBlock
  <2>1. proposals' = proposals /\ height' = height + 1
    BY <1>6 DEF NextBlock, stores
  <2>2. Lifecycle!NextBlockHeight
    BY <2>1 DEF Lifecycle!NextBlockHeight
  <2>3. QED
    BY <2>2 DEF Lifecycle!LifecycleNext
<1>7. CASE QuorumLoopEnds \/ OutcomeLoopEnds
  BY <1>5, <1>7 DEF QuorumLoopEnds, OutcomeLoopEnds, stores
<1>8. CASE CreateProposalFails \/ VoteOnProposalFails
  BY <1>5, <1>8 DEF CreateProposalFails, VoteOnProposalFails, ExecuteTransaction
<1>9. ASSUME NEW voter, NEW i, NEW decision, NEW stake, VoteOnProposal(voter, i, decision, stake)
      PROVE  UNCHANGED Lifecycle!lifecycle
  BY <1>9, SameLifecycle DEF VoteOnProposal, ExecuteTransaction
<1>10. ASSUME NEW c, AddVotesGet(c)
       PROVE  UNCHANGED Lifecycle!lifecycle
  BY <1>10, SameLifecycle DEF AddVotesGet, stores
<1>11. CASE BoundReached \/ UNCHANGED vars
  BY <1>5, <1>11 DEF BoundReached, vars
<1>12. QED
  BY <1>1, <1>2, <1>3, <1>4, <1>6, <1>7, <1>8, <1>9, <1>10, <1>11
  DEF Next, Lifecycle!LifecycleNext

\* The module implements the life cycle of ProposalLifecycle: its stale index
\* records, repeated checks and un-awaited votes do not show in it.
THEOREM Refinement == Spec => ImplementsLifecycle
<1>1. FullInv /\ [Next]_vars => [Lifecycle!LifecycleNext]_(Lifecycle!lifecycle)
  BY LifecycleStep
<1>2. QED
  BY <1>1, LifecycleInitial, FullCorrect, PTL
  DEF Spec, ImplementsLifecycle, Lifecycle!LifecycleSpec

-----------------------------------------------------------------------------
(* Dropping a pool from the list *)

\* The body of the forEach in DropPool.
Visit(pool, state, entry) ==
    IF state.skip \/ entry.poolId # pool
    THEN [state EXCEPT !.kept = Append(@, entry), !.skip = FALSE]
    ELSE [state EXCEPT !.total = @ - entry.multiplier, !.skip = TRUE]

\* Its variables before the first entry.
Unvisited(total) == [kept |-> <<>>, total |-> total, skip |-> FALSE]

\* The state after the entries at the places T.
VisitedTo(pool, base, list, T) ==
    MapThenFoldSet(LAMBDA x, y : Visit(pool, y, x), base, LAMBDA i : list[i], LAMBDA S : Max(S), T)

\* DropPool visits every entry.
LEMMA DropVisits ==
    ASSUME NEW global, NEW pool
    PROVE  LET list == global.incentivizedPools
               last == VisitedTo(pool, Unvisited(global.totalIncentivesMultiplier), list, DOMAIN list)
           IN  DropPool(global, pool) =
                 [incentivizedPools |-> last.kept, totalIncentivesMultiplier |-> last.total]
BY DEF DropPool, FoldLeft, VisitedTo, Visit, Unvisited

\* The function of sets of places that the fold is the value of.
IsVisit(iter, pool, base, list, T) ==
    iter = [s \in SUBSET T |-> IF s = {} THEN base
                               ELSE Visit(pool, iter[s \ {Max(s)}], list[Max(s)])]

VisitFold(pool, base, list, T) ==
    CHOOSE iter : iter = [s \in SUBSET T |-> IF s = {} THEN base
                               ELSE Visit(pool, iter[s \ {Max(s)}], list[Max(s)])]

\* The state after the visits is given by a fold.
LEMMA VisitedIsFold ==
    ASSUME NEW pool, NEW base, NEW list, NEW T
    PROVE  VisitedTo(pool, base, list, T) = VisitFold(pool, base, list, T)[T]
BY DEF VisitedTo, VisitFold, MapThenFoldSet

\* The function exists, is unique, and its values are the states after the visits.
LEMMA FoldIsVisited ==
    ASSUME NEW pool, NEW base, NEW list, NEW S, IsFiniteSet(S),
           \A s \in SUBSET S : s # {} => Max(s) \in s
    PROVE  IsVisit([s \in SUBSET S |-> VisitedTo(pool, base, list, s)], pool, base, list, S)
<1> DEFINE visited(T) == [s \in SUBSET T |-> VisitedTo(pool, base, list, s)]
           G == {T \in SUBSET S : /\ IsVisit(visited(T), pool, base, list, T)
                                  /\ \A h : IsVisit(h, pool, base, list, T) => h = visited(T)}
<1>1. ASSUME NEW T \in SUBSET S, \A U \in SUBSET T : U # T => U \in G
      PROVE  T \in G
  <2> DEFINE below == IF T = {} THEN base ELSE Visit(pool, VisitedTo(pool, base, list, T \ {Max(T)}), list[Max(T)])
             g == [s \in SUBSET T |-> IF s = T THEN below ELSE VisitedTo(pool, base, list, s)]
  <2>1. \A s \in SUBSET T : s # {} => Max(s) \in s
    OBVIOUS
  <2>2. \A s \in SUBSET T : s # T =>
           VisitedTo(pool, base, list, s) = IF s = {} THEN base ELSE Visit(pool, VisitedTo(pool, base, list, s \ {Max(s)}), list[Max(s)])
    <3> SUFFICES ASSUME NEW s \in SUBSET T, s # T
                 PROVE  VisitedTo(pool, base, list, s) = IF s = {} THEN base
                                        ELSE Visit(pool, VisitedTo(pool, base, list, s \ {Max(s)}), list[Max(s)])
      OBVIOUS
    <3>1. IsVisit(visited(s), pool, base, list, s)
      BY <1>1
    <3>2. visited(s)[s] = IF s = {} THEN base ELSE Visit(pool, visited(s)[s \ {Max(s)}], list[Max(s)])
      BY <3>1 DEF IsVisit
    <3>3. QED
      BY <3>2
  <2>3. IsVisit(g, pool, base, list, T)
    <3>1. \A s \in SUBSET T : g[s] = IF s = {} THEN base ELSE Visit(pool, g[s \ {Max(s)}], list[Max(s)])
      <4> SUFFICES ASSUME NEW s \in SUBSET T
                   PROVE  g[s] = IF s = {} THEN base ELSE Visit(pool, g[s \ {Max(s)}], list[Max(s)])
        OBVIOUS
      <4>1. CASE s = {}
        BY <2>2, <4>1
      <4>2. CASE s # {}
        <5>1. Max(s) \in s /\ s \ {Max(s)} \in SUBSET T /\ s \ {Max(s)} # T
          BY <2>1, <4>2
        <5>2. g[s \ {Max(s)}] = VisitedTo(pool, base, list, s \ {Max(s)})
          BY <5>1
        <5>3. QED
          BY <2>2, <4>2, <5>2
      <4>3. QED
        BY <4>1, <4>2
    <3>2. QED
      BY <3>1, Zenon DEF IsVisit
  <2>4. ASSUME NEW h, IsVisit(h, pool, base, list, T) PROVE h = g
    <3>0. /\ h = [s \in SUBSET T |-> h[s]]
          /\ \A s \in SUBSET T : h[s] = IF s = {} THEN base ELSE Visit(pool, h[s \ {Max(s)}], list[Max(s)])
      BY <2>4 DEF IsVisit
    <3>1. \A s \in SUBSET T : s # T => h[s] = VisitedTo(pool, base, list, s)
      <4> SUFFICES ASSUME NEW s \in SUBSET T, s # T
                   PROVE  h[s] = VisitedTo(pool, base, list, s)
        OBVIOUS
      <4> DEFINE k == [u \in SUBSET s |-> h[u]]
      <4>1. IsVisit(k, pool, base, list, s)
        <5>1. \A u \in SUBSET s : h[u] = IF u = {} THEN base ELSE Visit(pool, k[u \ {Max(u)}], list[Max(u)])
          BY <3>0
        <5>2. QED
          BY <5>1 DEF IsVisit
      <4>2. k = visited(s)
        BY <1>1, <4>1
      <4>3. QED
        BY <4>2
    <3>2. h[T] = below
      <4>1. CASE T = {}
        BY <3>0, <4>1
      <4>2. CASE T # {}
        <5>1. T \ {Max(T)} \in SUBSET T /\ T \ {Max(T)} # T
          BY <2>1, <4>2
        <5>2. QED
          BY <3>0, <3>1, <4>2, <5>1
      <4>3. QED
        BY <4>1, <4>2
    <3>3. QED
      BY <3>0, <3>1, <3>2
  <2>5. VisitFold(pool, base, list, T) = g
    <3>1. \A h : h = [s \in SUBSET T |-> IF s = {} THEN base ELSE Visit(pool, h[s \ {Max(s)}], list[Max(s)])]
                   <=> h = g
      BY <2>3, <2>4, Zenon DEF IsVisit
    <3>2. VisitFold(pool, base, list, T) = CHOOSE h : h = g
      BY <3>1, Zenon DEF VisitFold
    <3>3. QED
      BY <3>2, Zenon
  <2>6. VisitedTo(pool, base, list, T) = below
    BY <2>5, VisitedIsFold
  <2>7. g = visited(T)
    BY <2>6
  <2>8. QED
    BY <2>3, <2>4, <2>7
<1>2. \A T \in SUBSET S : T \in G
  <2>1. \A T \in SUBSET S : (\A U \in SUBSET T : U # T => U \in G) => T \in G
    BY <1>1
  <2> HIDE DEF G
  <2>2. QED
    BY <2>1, SetOfAllSubsets
<1>3. QED
  BY <1>2

\* The entries are visited in their order.
LEMMA VisitStep ==
    ASSUME NEW pool, NEW base, NEW list, NEW n \in Nat
    PROVE  /\ VisitedTo(pool, base, list, {}) = base
           /\ n > 0 => VisitedTo(pool, base, list, 1..n)
                         = Visit(pool, VisitedTo(pool, base, list, 1..(n - 1)), list[n])
<1>1. IsVisit([s \in SUBSET (1..n) |-> VisitedTo(pool, base, list, s)], pool, base, list, 1..n)
  <2>1. IsFiniteSet(1..n)
    BY FS_Interval
  <2>2. \A s \in SUBSET (1..n) : s # {} => Max(s) \in s
    BY MaxOfSubset
  <2>3. QED
    BY <2>1, <2>2, FoldIsVisited
<1>2. \A s \in SUBSET (1..n) :
        VisitedTo(pool, base, list, s) =
          IF s = {} THEN base ELSE Visit(pool, VisitedTo(pool, base, list, s \ {Max(s)}), list[Max(s)])
  <2>1. SUFFICES ASSUME NEW s \in SUBSET (1..n)
                 PROVE  VisitedTo(pool, base, list, s) =
                          IF s = {} THEN base
                          ELSE Visit(pool, VisitedTo(pool, base, list, s \ {Max(s)}), list[Max(s)])
    OBVIOUS
  <2> DEFINE visited == [t \in SUBSET (1..n) |-> VisitedTo(pool, base, list, t)]
  <2>2. visited[s] = IF s = {} THEN base ELSE Visit(pool, visited[s \ {Max(s)}], list[Max(s)])
    <3>1. visited = [t \in SUBSET (1..n) |->
                       IF t = {} THEN base ELSE Visit(pool, visited[t \ {Max(t)}], list[Max(t)])]
      BY <1>1 DEF IsVisit
    <3> HIDE DEF visited
    <3>2. QED
      BY <3>1
  <2>3. s \ {Max(s)} \in SUBSET (1..n)
    OBVIOUS
  <2>4. QED
    BY <2>2, <2>3
<1>3. ASSUME n > 0
      PROVE  VisitedTo(pool, base, list, 1..n)
               = Visit(pool, VisitedTo(pool, base, list, 1..(n - 1)), list[n])
  <2>1. /\ 1..n \in SUBSET (1..n) /\ 1..n \in SUBSET (0..n)
        /\ 1..n # {} /\ n \in 1..n
    BY <1>3
  <2>2. Max(1..n) \in 1..n /\ n <= Max(1..n)
    BY <2>1, MaxOfSubset
  <2>3. Max(1..n) = n
    BY <2>2
  <2>4. (1..n) \ {n} = 1..(n - 1)
    OBVIOUS
  <2>5. QED
    BY <1>2, <2>1, <2>3, <2>4
<1>4. QED
  BY <1>2, <1>3

\* The entries of a list, at most one of each pool.
Entry == [poolId : Nat, multiplier : Nat]
Entries(list) == {list[k] : k \in DOMAIN list}
OncePerPool(list) == \A j, k \in DOMAIN list : list[j].poolId = list[k].poolId => j = k

\* A list keeps one entry per pool when an entry of another pool is added.
LEMMA EntryAppended ==
    ASSUME NEW list \in Seq(Entry), OncePerPool(list), NEW e \in Entry,
           \A d \in Entries(list) : d.poolId # e.poolId
    PROVE  /\ Append(list, e) \in Seq(Entry)
           /\ Entries(Append(list, e)) = Entries(list) \cup {e}
           /\ OncePerPool(Append(list, e))
<1> DEFINE new == Append(list, e)
           n == Len(list)
<1>1. /\ n \in Nat /\ DOMAIN list = 1..n /\ DOMAIN new = 1..n + 1
      /\ new \in Seq(Entry) /\ new[n + 1] = e
      /\ \A k \in 1..n : new[k] = list[k]
  OBVIOUS
<1> HIDE DEF new, n
<1>2. \A k \in DOMAIN new : k \in DOMAIN list \/ k = n + 1
  BY <1>1
<1>3. \A k \in DOMAIN list : k \in DOMAIN new /\ k # n + 1
  BY <1>1
<1>4. n + 1 \in DOMAIN new
  BY <1>1
<1>5. Entries(new) = Entries(list) \cup {e}
  BY <1>1, <1>2, <1>3, <1>4 DEF Entries
<1>6. \A k \in DOMAIN list : list[k].poolId # e.poolId
  BY DEF Entries
<1>7. OncePerPool(new)
  <2> SUFFICES ASSUME NEW j \in DOMAIN new, NEW k \in DOMAIN new, new[j].poolId = new[k].poolId
               PROVE  j = k
    BY DEF OncePerPool
  <2>1. j \in DOMAIN list /\ k \in DOMAIN list => j = k
    BY <1>1 DEF OncePerPool
  <2>2. j \in DOMAIN list => ~(k = n + 1)
    BY <1>1, <1>6
  <2>3. k \in DOMAIN list => ~(j = n + 1)
    BY <1>1, <1>6
  <2>4. QED
    BY <1>2, <2>1, <2>2, <2>3
<1>8. QED
  BY <1>1, <1>5, <1>7 DEF new

\* What the DEX global store holds.
GlobalOf(list, total) == [incentivizedPools |-> list, totalIncentivesMultiplier |-> total]

\* The multiplier a list gives to a pool, 0 if it does not have it.
MultiplierOf(list, pool, w) ==
    /\ \A e \in Entries(list) : e.poolId = pool => e.multiplier = w
    /\ (\A e \in Entries(list) : e.poolId # pool) => w = 0

\* The pool is among the first n entries.
Holds(list, pool, n) == \E k \in 1..n : list[k].poolId = pool

\* What the visits of the first n entries leave behind.
AfterVisits(pool, total, list, w, n, state) ==
    /\ state = [kept |-> state.kept, total |-> state.total, skip |-> state.skip]
    /\ state.kept \in Seq(Entry) /\ OncePerPool(state.kept)
    /\ Entries(state.kept) = {list[k] : k \in {k \in 1..n : list[k].poolId # pool}}
    /\ state.skip \in BOOLEAN /\ (state.skip => Holds(list, pool, n))
    /\ state.total = IF Holds(list, pool, n) THEN total - w ELSE total

\* The entry of the pool, if there is one, is left out and taken off the total;
\* w is its multiplier.  The entry after it is not visited, but concerns another
\* pool.
LEMMA PoolDropped ==
    ASSUME NEW list \in Seq(Entry), OncePerPool(list), NEW total \in Int,
           NEW pool, NEW w \in Int, MultiplierOf(list, pool, w)
    PROVE  LET new == DropPool(GlobalOf(list, total), pool)
           IN  /\ new.incentivizedPools \in Seq(Entry) /\ OncePerPool(new.incentivizedPools)
               /\ Entries(new.incentivizedPools) = {e \in Entries(list) : e.poolId # pool}
               /\ new.totalIncentivesMultiplier = total - w
<1> DEFINE state(n) == VisitedTo(pool, Unvisited(total), list, 1..n)
           L == Len(list)
           G == {n \in Nat : n <= L => AfterVisits(pool, total, list, w, n, state(n))}
<1>1. L \in Nat /\ DOMAIN list = 1..L /\ \A k \in 1..L : list[k] \in Entry /\ list[k] \in Entries(list)
  BY DEF Entries
<1>2. 0 \in G
  <2>1. state(0) = Unvisited(total)
    BY VisitStep, 1..0 = {}
  <2>2. /\ <<>> \in Seq(Entry) /\ OncePerPool(<<>>)
        /\ Entries(<<>>) = {} /\ {k \in 1..0 : list[k].poolId # pool} = {}
    BY DEF OncePerPool, Entries
  <2>3. ~Holds(list, pool, 0)
    BY DEF Holds
  <2> HIDE DEF state
  <2>4. AfterVisits(pool, total, list, w, 0, Unvisited(total))
    <3>1. {list[k] : k \in {k \in 1..0 : list[k].poolId # pool}} = {}
      BY <2>2
    <3> DEFINE u == Unvisited(total)
    <3>2. /\ u = [kept |-> u.kept, total |-> u.total, skip |-> u.skip]
          /\ u.kept = <<>> /\ u.total = total /\ u.skip = FALSE
      BY DEF Unvisited
    <3> HIDE DEF u
    <3>3. QED
      BY <2>2, <2>3, <3>1, <3>2 DEF AfterVisits, u
  <2>5. QED
    BY <2>1, <2>4
<1>3. ASSUME NEW m \in G PROVE m + 1 \in G
  <2> DEFINE n == m + 1
             e == list[n]
             old == state(m)
             new == state(n)
  <2>1. SUFFICES ASSUME n <= L PROVE AfterVisits(pool, total, list, w, n, new)
    OBVIOUS
  <2>2. n \in 1..L /\ m <= L /\ m \in Nat /\ n \in Nat /\ n > 0 /\ n - 1 = m
    BY <1>1, <2>1
  <2>3. new = Visit(pool, old, e)
    <3>1. \A k \in Nat : k > 0 =>
            VisitedTo(pool, Unvisited(total), list, 1..k) =
              Visit(pool, VisitedTo(pool, Unvisited(total), list, 1..(k - 1)), list[k])
      BY VisitStep
    <3>2. QED
      BY <2>2, <3>1
  <2>4. AfterVisits(pool, total, list, w, m, old)
    BY <2>2
  <2>5. e \in Entry /\ e \in Entries(list)
    BY <1>1, <2>2
  <2>6. \A k \in 1..m : k \in DOMAIN list /\ k # n /\ k \in 1..n
    BY <1>1, <2>2
  <2>7. \A k \in 1..n : k \in 1..m \/ k = n
    BY <2>2
  <2>8. n \in 1..n /\ n \in DOMAIN list
    BY <1>1, <2>2
  <2> HIDE DEF n, e, old, new, L, state, G
  <2>9. \A k \in 1..m : list[k].poolId # e.poolId
    BY <2>6, <2>8 DEF OncePerPool, e
  <2>10. CASE e.poolId = pool
    <3>1. ~Holds(list, pool, m) /\ Holds(list, pool, n)
      BY <2>8, <2>9, <2>10 DEF Holds, e
    <3>2. new = [kept |-> old.kept, total |-> old.total - e.multiplier, skip |-> TRUE]
      BY <2>3, <2>4, <2>10, <3>1 DEF Visit, AfterVisits
    <3>3. {k \in 1..n : list[k].poolId # pool} = {k \in 1..m : list[k].poolId # pool}
      BY <2>6, <2>7, <2>10 DEF e
    <3>4. e.multiplier = w
      BY <2>5, <2>10 DEF MultiplierOf
    <3>5. QED
      BY <2>4, <3>1, <3>2, <3>3, <3>4 DEF AfterVisits
  <2>11. CASE e.poolId # pool
    <3>1. new = [kept |-> Append(old.kept, e), total |-> old.total, skip |-> FALSE]
      BY <2>3, <2>4, <2>11 DEF Visit, AfterVisits
    <3>2. \A d \in Entries(old.kept) : d.poolId # e.poolId
      BY <2>4, <2>9 DEF AfterVisits
    <3>3. /\ Append(old.kept, e) \in Seq(Entry)
          /\ Entries(Append(old.kept, e)) = Entries(old.kept) \cup {e}
          /\ OncePerPool(Append(old.kept, e))
      BY <2>4, <2>5, <3>2, EntryAppended DEF AfterVisits
    <3>4. {k \in 1..n : list[k].poolId # pool} = {k \in 1..m : list[k].poolId # pool} \cup {n}
      BY <2>6, <2>7, <2>8, <2>11 DEF e
    <3>5. {list[k] : k \in {k \in 1..n : list[k].poolId # pool}} =
            {list[k] : k \in {k \in 1..m : list[k].poolId # pool}} \cup {e}
      BY <3>4 DEF e
    <3>6. Holds(list, pool, n) <=> Holds(list, pool, m)
      BY <2>6, <2>7, <2>11 DEF Holds, e
    <3>7. QED
      BY <2>4, <3>1, <3>3, <3>5, <3>6 DEF AfterVisits
  <2>12. QED
    BY <2>10, <2>11
<1>4. AfterVisits(pool, total, list, w, L, state(L))
  <2>1. G = Nat
    <3>1. G \in SUBSET Nat
      OBVIOUS
    <3> HIDE DEF G
    <3>2. QED
      BY <1>2, <1>3, <3>1, SetOfAllNaturals
  <2>2. QED
    BY <1>1, <2>1
<1> DEFINE last == VisitedTo(pool, Unvisited(total), list, DOMAIN list)
<1>5. AfterVisits(pool, total, list, w, L, last)
  BY <1>1, <1>4
<1>6. DropPool(GlobalOf(list, total), pool) = [incentivizedPools |-> last.kept, totalIncentivesMultiplier |-> last.total]
  BY DropVisits DEF GlobalOf
<1> HIDE DEF last, state, G, L
<1>7. Entries(last.kept) = {e \in Entries(list) : e.poolId # pool}
  BY <1>1, <1>5 DEF AfterVisits, Entries
<1>8. Holds(list, pool, L) <=> \E e \in Entries(list) : e.poolId = pool
  BY <1>1 DEF Holds, Entries
<1>9. last.total = total - w
  <2>1. CASE Holds(list, pool, L)
    BY <1>5, <2>1 DEF AfterVisits
  <2>2. CASE ~Holds(list, pool, L)
    BY <1>5, <1>8, <2>2 DEF AfterVisits, MultiplierOf
  <2>3. QED
    BY <2>1, <2>2
<1>10. QED
  BY <1>5, <1>6, <1>7, <1>9 DEF AfterVisits

-----------------------------------------------------------------------------
(* Sorting the list *)

\* The entries up to the one at j, in the order of their pools and then of their places.
UpTo(list, j) == {k \in DOMAIN list : \/ list[k].poolId < list[j].poolId
                                      \/ list[k].poolId = list[j].poolId /\ k <= j}

\* Sorting gives every entry a place of its own, and every place an entry.
LEMMA Places ==
    ASSUME NEW list \in Seq(Entry)
    PROVE  /\ \A j \in DOMAIN list : Cardinality(UpTo(list, j)) \in DOMAIN list
           /\ \A j, k \in DOMAIN list :
                 Cardinality(UpTo(list, j)) = Cardinality(UpTo(list, k)) => j = k
           /\ \A n \in DOMAIN list : \E j \in DOMAIN list : Cardinality(UpTo(list, j)) = n
<1> DEFINE D == DOMAIN list
           place == [j \in D |-> Cardinality(UpTo(list, j))]
<1>1. /\ IsFiniteSet(D) /\ D = 1..Len(list) /\ Len(list) \in Nat /\ Cardinality(D) = Len(list)
      /\ \A j \in D : list[j].poolId \in Nat /\ j \in Nat
  <2>1. D = 1..Len(list) /\ Len(list) \in Nat /\ \A j \in D : list[j] \in Entry /\ j \in Nat
    OBVIOUS
  <2>2. IsFiniteSet(1..Len(list)) /\ Cardinality(1..Len(list)) = Len(list)
    BY <2>1, FS_Interval
  <2> HIDE DEF D
  <2>3. QED
    BY <2>1, <2>2 DEF Entry
<1> HIDE DEF D
<1>2. ASSUME NEW j \in D
      PROVE  UpTo(list, j) \in SUBSET D /\ j \in UpTo(list, j) /\ IsFiniteSet(UpTo(list, j))
  <2>1. UpTo(list, j) \in SUBSET D /\ j \in UpTo(list, j)
    BY <1>1 DEF UpTo, D
  <2>2. QED
    BY <1>1, <2>1, FS_Subset
<1>3. ASSUME NEW j \in D PROVE place[j] \in D
  <2>1. Cardinality(UpTo(list, j)) \in Nat /\ Cardinality(UpTo(list, j)) <= Len(list)
    BY <1>1, <1>2, FS_Subset, FS_CardinalityType
  <2>2. Cardinality(UpTo(list, j)) # 0
    BY <1>2, FS_EmptySet
  <2>3. QED
    BY <1>1, <2>1, <2>2
<1>4. ASSUME NEW j \in D, NEW k \in D,
             \/ list[j].poolId < list[k].poolId
             \/ list[j].poolId = list[k].poolId /\ j < k
      PROVE  place[j] # place[k]
  <2>1. UpTo(list, j) \in SUBSET UpTo(list, k)
    BY <1>1, <1>4 DEF UpTo, D
  <2>2. k \notin UpTo(list, j)
    BY <1>1, <1>4 DEF UpTo, D
  <2>3. UpTo(list, j) # UpTo(list, k)
    BY <1>2, <2>2
  <2>4. Cardinality(UpTo(list, j)) # Cardinality(UpTo(list, k))
    BY <1>2, <2>1, <2>3, FS_Subset
  <2>5. QED
    BY <2>4
<1>5. \A j, k \in D : place[j] = place[k] => j = k
  <2> SUFFICES ASSUME NEW j \in D, NEW k \in D, j # k PROVE place[j] # place[k]
    OBVIOUS
  <2> HIDE DEF place
  <2>1. \/ list[j].poolId < list[k].poolId
        \/ list[j].poolId = list[k].poolId /\ j < k
        \/ list[k].poolId < list[j].poolId
        \/ list[k].poolId = list[j].poolId /\ k < j
    BY <1>1
  <2>2. QED
    BY <1>4, <2>1
<1>6. place \in Injection(D, D)
  <2>1. place \in [D -> D]
    BY <1>3
  <2> HIDE DEF place
  <2>2. QED
    BY <1>5, <2>1, Zenon DEF Injection, IsInjective
<1>7. place \in Surjection(D, D)
  <2> HIDE DEF place
  <2>1. QED
    BY <1>1, <1>6, FS_Injection
<1>8. \A n \in D : \E j \in D : place[j] = n
  <2> HIDE DEF place
  <2>1. QED
    BY <1>7, Zenon DEF Surjection
<1>9. QED
  BY <1>3, <1>5, <1>8 DEF D

\* Sorting keeps the entries, each once.
LEMMA SortKeeps ==
    ASSUME NEW list \in Seq(Entry), OncePerPool(list)
    PROVE  /\ Sorted(list) \in Seq(Entry) /\ OncePerPool(Sorted(list))
           /\ Entries(Sorted(list)) = Entries(list)
<1> DEFINE D == DOMAIN list
           from(n) == CHOOSE j \in D : Cardinality(UpTo(list, j)) = n
           new == Sorted(list)
<1>1. D = 1..Len(list) /\ Len(list) \in Nat /\ \A j \in D : list[j] \in Entry
  OBVIOUS
<1>2. new = [n \in D |-> list[from(n)]]
  BY DEF Sorted, UpTo
<1>3. /\ \A n \in D : from(n) \in D /\ Cardinality(UpTo(list, from(n))) = n
      /\ \A j \in D : Cardinality(UpTo(list, j)) \in D
      /\ \A j, k \in D : Cardinality(UpTo(list, j)) = Cardinality(UpTo(list, k)) => j = k
  BY Places
<1> HIDE DEF from
<1>4. \A j \in D : \E n \in D : from(n) = j
  BY <1>3
<1>5. \A m, n \in D : from(m) = from(n) => m = n
  BY <1>3
<1>6. new \in Seq(Entry)
  BY <1>1, <1>2, <1>3
<1>7. DOMAIN new = D /\ \A n \in D : new[n] = list[from(n)]
  BY <1>2
<1> HIDE DEF new, D
<1>8. OncePerPool(new)
  BY <1>3, <1>5, <1>7 DEF OncePerPool, D
<1>9. Entries(new) = Entries(list)
  BY <1>3, <1>4, <1>7 DEF Entries, D
<1>10. QED
  BY <1>6, <1>8, <1>9 DEF new

\* The pools of new are those of the list with the multiplier of one pool changed from w to m.
IsUpdate(new, list, total, pool, m, w) ==
    /\ new.incentivizedPools \in Seq(Entry) /\ OncePerPool(new.incentivizedPools)
    /\ Entries(new.incentivizedPools) =
         {e \in Entries(list) : e.poolId # pool}
           \cup IF m > 0 THEN {[poolId |-> pool, multiplier |-> m]} ELSE {}
    /\ new.totalIncentivesMultiplier = total - w + m

\* updateIncentivizedPools puts one entry of the pool, or none, in place of the
\* one it had, whose multiplier is w, and changes the total by the difference.
LEMMA PoolsUpdated ==
    ASSUME NEW list \in Seq(Entry), OncePerPool(list), NEW total \in Int,
           NEW pool \in Nat, NEW multiplier \in Nat, NEW w \in Int, MultiplierOf(list, pool, w)
    PROVE  IsUpdate(UpdateIncentivizedPools(GlobalOf(list, total), pool, multiplier),
                    list, total, pool, multiplier, w)
<1> DEFINE rest == DropPool(GlobalOf(list, total), pool)
           e == [poolId |-> pool, multiplier |-> multiplier]
           longer == Append(rest.incentivizedPools, e)
           new == UpdateIncentivizedPools(GlobalOf(list, total), pool, multiplier)
<1>1. /\ rest.incentivizedPools \in Seq(Entry) /\ OncePerPool(rest.incentivizedPools)
      /\ Entries(rest.incentivizedPools) = {d \in Entries(list) : d.poolId # pool}
      /\ rest.totalIncentivesMultiplier = total - w
  BY PoolDropped, Zenon
<1>2. CASE multiplier > 0
  <2>1. new = AddPool(rest, pool, multiplier)
    BY <1>2 DEF UpdateIncentivizedPools
  <2> HIDE DEF rest, new
  <2>2. /\ new.incentivizedPools = Sorted(longer)
        /\ new.totalIncentivesMultiplier = rest.totalIncentivesMultiplier + multiplier
    BY <2>1 DEF AddPool
  <2>3. e \in Entry /\ e.poolId = pool
    BY DEF Entry
  <2> HIDE DEF e
  <2>4. \A d \in Entries(rest.incentivizedPools) : d.poolId # e.poolId
    BY <1>1, <2>3
  <2>5. /\ longer \in Seq(Entry) /\ OncePerPool(longer)
        /\ Entries(longer) = Entries(rest.incentivizedPools) \cup {e}
    BY <1>1, <2>3, <2>4, EntryAppended
  <2> HIDE DEF longer
  <2>6. /\ Sorted(longer) \in Seq(Entry) /\ OncePerPool(Sorted(longer))
        /\ Entries(Sorted(longer)) = Entries(longer)
    BY <2>5, SortKeeps
  <2>7. new.totalIncentivesMultiplier = total - w + multiplier
    BY <1>1, <2>2
  <2>8. QED
    BY <1>1, <1>2, <2>2, <2>5, <2>6, <2>7 DEF new, e, IsUpdate
<1>3. CASE ~(multiplier > 0)
  <2>1. new = rest
    BY <1>3 DEF UpdateIncentivizedPools
  <2>2. multiplier = 0
    BY <1>3
  <2> HIDE DEF rest, new
  <2>3. new.totalIncentivesMultiplier = total - w + multiplier
    BY <1>1, <2>1, <2>2
  <2>4. QED
    BY <1>1, <1>3, <2>1, <2>3 DEF new, IsUpdate
<1>4. QED
  BY <1>2, <1>3

\* A list with one entry per pool is as long as the set of its entries.
LEMMA ListedOnce ==
    ASSUME NEW list \in Seq(Entry), OncePerPool(list)
    PROVE  Len(list) = Cardinality(Entries(list))
<1> DEFINE D == 1..Len(list)
<1>1. /\ DOMAIN list = D /\ list \in [D -> Entries(list)]
      /\ Len(list) \in Nat
      /\ \A e \in Entries(list) : \E k \in D : list[k] = e
  BY DEF Entries
<1>2. \A j, k \in D : list[j] = list[k] => j = k
  BY <1>1 DEF OncePerPool
<1>3. IsFiniteSet(D) /\ Cardinality(D) = Len(list)
  <2>1. Len(list) \in Nat
    BY <1>1
  <2>2. ASSUME NEW n \in Nat PROVE IsFiniteSet(1..n) /\ Cardinality(1..n) = n
    BY FS_Interval
  <2>3. QED
    BY <2>1, <2>2
<1> HIDE DEF D
<1>4. list \in Bijection(D, Entries(list))
  BY <1>1, <1>2, Zenon DEF Bijection, Injection, Surjection, IsInjective
<1>5. QED
  BY <1>3, <1>4, FS_Bijection, Zenon DEF ExistsBijection

\* The entries for the multipliers f of the pools K.
Listed(f, K, M) ==
    {e \in [poolId : K, multiplier : M] : e.multiplier = f[e.poolId] /\ e.multiplier > 0}

\* A list of the pools with the multipliers f.
Lists(global, f, K, M) ==
    LET list == global.incentivizedPools
        total == global.totalIncentivesMultiplier
    IN  /\ global = GlobalOf(list, total)
        /\ list \in Seq(Entry) /\ OncePerPool(list)
        /\ Entries(list) = Listed(f, K, M)
        /\ total = SumOver(f, K)

\* A list gives a pool the multiplier it is listed with.
LEMMA ListMultiplier ==
    ASSUME NEW K, NEW M, NEW f, NEW list, Entries(list) = Listed(f, K, M),
           NEW pool \in K, f[pool] \in Nat, f[pool] # 0 => f[pool] \in M
    PROVE  MultiplierOf(list, pool, f[pool])
<1> DEFINE w == f[pool]
           e == [poolId |-> pool, multiplier |-> w]
<1>1. \A d \in Entries(list) : d.poolId = pool => d.multiplier = w
  BY DEF Listed
<1>2. w # 0 => e \in Entries(list) /\ e.poolId = pool
  BY DEF Listed
<1>3. QED
  BY <1>1, <1>2 DEF MultiplierOf

\* The update of one pool changes what is listed of it, and nothing else.
LEMMA ListUpdated ==
    ASSUME NEW K, IsFiniteSet(K), NEW M,
           NEW f, \A x \in K : f[x] \in Nat /\ (f[x] # 0 => f[x] \in M),
           NEW global, Lists(global, f, K, M),
           NEW pool \in K, pool \in Nat, NEW m \in M, m \in Nat,
           NEW g, \A x \in K : g[x] = IF x = pool THEN m ELSE f[x]
    PROVE  Lists(UpdateIncentivizedPools(global, pool, m), g, K, M)
<1> DEFINE list == global.incentivizedPools
           total == global.totalIncentivesMultiplier
           w == f[pool]
           new == UpdateIncentivizedPools(global, pool, m)
<1>1. /\ list \in Seq(Entry) /\ OncePerPool(list) /\ global = GlobalOf(list, total)
      /\ Entries(list) = Listed(f, K, M) /\ total = SumOver(f, K)
  BY DEF Lists
<1>2. pool \in Nat /\ m \in Nat /\ w \in Int
  OBVIOUS
<1>3. total \in Int
  <2>1. \A x \in K : f[x] \in Int
    OBVIOUS
  <2>2. QED
    BY <1>1, <2>1, SumInt
<1>4. MultiplierOf(list, pool, w)
  BY <1>1, ListMultiplier
<1> HIDE DEF list, total, w
<1>5. new = UpdateIncentivizedPools(GlobalOf(list, total), pool, m)
  BY <1>1
<1>6. IsUpdate(new, list, total, pool, m, w)
  <2> HIDE DEF new
  <2>1. IsUpdate(UpdateIncentivizedPools(GlobalOf(list, total), pool, m), list, total, pool, m, w)
    BY ONLY <1>1, <1>2, <1>3, <1>4, PoolsUpdated
  <2>2. QED
    BY <1>5, <2>1
<1>7. new = GlobalOf(new.incentivizedPools, new.totalIncentivesMultiplier)
  BY DEF UpdateIncentivizedPools, AddPool, DropPool, GlobalOf
<1> HIDE DEF new
<1>8. Entries(new.incentivizedPools) = Listed(g, K, M)
  <2>1. Listed(g, K, M) = {e \in Listed(f, K, M) : e.poolId # pool}
                           \cup IF m > 0 THEN {[poolId |-> pool, multiplier |-> m]} ELSE {}
    <3> DEFINE added == [poolId |-> pool, multiplier |-> m]
    <3>1. ASSUME NEW e \in [poolId : K, multiplier : M], e.poolId = pool
          PROVE  e \in Listed(g, K, M) <=> (m > 0 /\ e = added)
      <4>1. e = added <=> e.multiplier = m
        BY <3>1
      <4>2. g[e.poolId] = m
        BY <3>1
      <4>3. QED
        BY <4>1, <4>2 DEF Listed
    <3>2. ASSUME NEW e \in [poolId : K, multiplier : M], e.poolId # pool
          PROVE  e \in Listed(g, K, M) <=> e \in Listed(f, K, M)
      <4>1. e.poolId \in K /\ g[e.poolId] = f[e.poolId]
        BY <3>2
      <4>2. QED
        BY <4>1 DEF Listed
    <3>3. added \in [poolId : K, multiplier : M] /\ added.poolId = pool
      OBVIOUS
    <3>4. Listed(g, K, M) \subseteq [poolId : K, multiplier : M]
          /\ Listed(f, K, M) \subseteq [poolId : K, multiplier : M]
      BY DEF Listed
    <3> HIDE DEF added
    <3>5. Listed(g, K, M) = {e \in Listed(f, K, M) : e.poolId # pool}
                             \cup IF m > 0 THEN {added} ELSE {}
      BY <3>1, <3>2, <3>3, <3>4
    <3>6. QED
      BY <3>5 DEF added
  <2>2. QED
    BY <1>1, <1>6, <2>1 DEF IsUpdate
<1>9. SumOver(g, K) = total - w + m
  <2>1. \A x \in K : f[x] \in Int /\ g[x] \in Int
    BY <1>2
  <2>2. \A x \in K : x # pool => f[x] = g[x]
    OBVIOUS
  <2>3. SumOver(g, K) = SumOver(f, K) - f[pool] + g[pool]
    BY ONLY IsFiniteSet(K), pool \in K, <2>1, <2>2, SumChange
  <2>4. QED
    BY <1>1, <2>3 DEF w
<1>10. QED
  BY <1>6, <1>7, <1>8, <1>9 DEF Lists, new, IsUpdate

-----------------------------------------------------------------------------
(* The incentivized pools *)

\* The multiplier of the newest accepted proposal about a pool.
Accepted(pool) == {i \in DOMAIN proposals :
                     /\ proposals[i].poolID = pool
                     /\ proposals[i].status = PROPOSAL_STATUS_FINISHED_ACCEPTED}

Wanted(pool) == IF Accepted(pool) = {} THEN 0 ELSE proposals[Max(Accepted(pool))].multiplier

WantedMultipliers == [pool \in KnownPools |-> Wanted(pool)]

\* No step changes what a proposal asks for; a write of addVotes puts it back.
ContentKnown ==
    /\ \A i \in DOMAIN proposals :
        proposals[i].poolID \in KnownPools \cup {NoPool} /\ proposals[i].multiplier \in Multipliers
    /\ \A c \in setting :
        /\ c.proposal.poolID = proposals[c.index].poolID
        /\ c.proposal.multiplier = proposals[c.index].multiplier

\* IncentivesFollowOutcomes, with a list that has one entry per pool.
ListFollows == Lists(dexGlobal, WantedMultipliers, KnownPools, Multipliers)

\* MapThenSumSet of the multipliers wanted is their sum.
LEMMA WantedSum ==
    MapThenSumSet(Wanted, KnownPools) = SumOver(WantedMultipliers, KnownPools)
<1> DEFINE f == WantedMultipliers
           P(iter) == iter = [s \in SUBSET KnownPools |->
                               IF s = {} THEN 0 ELSE Wanted(Pick(s)) + iter[s \ {Pick(s)}]]
           Q(iter) == iter = [s \in SUBSET KnownPools |->
                               IF s = {} THEN 0 ELSE f[Pick(s)] + iter[s \ {Pick(s)}]]
<1>1. MapThenSumSet(Wanted, KnownPools) = (CHOOSE iter : P(iter))[KnownPools]
  BY DEF MapThenSumSet, MapThenFoldSet, Pick
<1>2. SumOver(f, KnownPools) = (CHOOSE iter : Q(iter))[KnownPools]
  BY SumIsPartial DEF Partial
<1>3. \A s \in SUBSET KnownPools : s # {} => f[Pick(s)] = Wanted(Pick(s))
  BY DEF Pick, WantedMultipliers
<1>4. ASSUME NEW iter PROVE P(iter) <=> Q(iter)
  <2> HIDE DEF f
  <2>1. [s \in SUBSET KnownPools |-> IF s = {} THEN 0 ELSE Wanted(Pick(s)) + iter[s \ {Pick(s)}]]
          = [s \in SUBSET KnownPools |-> IF s = {} THEN 0 ELSE f[Pick(s)] + iter[s \ {Pick(s)}]]
    BY <1>3
  <2>2. QED
    BY <2>1
<1> HIDE DEF P, Q
<1>5. (CHOOSE iter : P(iter)) = (CHOOSE iter : Q(iter))
  BY <1>4
<1>6. QED
  BY <1>1, <1>2, <1>5 DEF f

\* The invariant says what the property says.
LEMMA ListFollowsImplies == ListFollows => IncentivesFollowOutcomes
<1> SUFFICES ASSUME ListFollows PROVE IncentivesFollowOutcomes
  OBVIOUS
<1> DEFINE list == dexGlobal.incentivizedPools
<1>1. /\ list \in Seq(Entry) /\ OncePerPool(list)
      /\ Entries(list) = Listed(WantedMultipliers, KnownPools, Multipliers)
      /\ dexGlobal.totalIncentivesMultiplier = SumOver(WantedMultipliers, KnownPools)
  BY DEF ListFollows, Lists
<1>2. Len(list) = Cardinality(Entries(list))
  BY <1>1, ListedOnce
<1>3. Listed(WantedMultipliers, KnownPools, Multipliers) =
        {e \in [poolId : KnownPools, multiplier : Multipliers] :
           e.multiplier = Wanted(e.poolId) /\ e.multiplier > 0}
  BY DEF Listed, WantedMultipliers
<1>4. /\ {list[k] : k \in DOMAIN list} = {e \in [poolId : KnownPools, multiplier : Multipliers] :
                                            e.multiplier = Wanted(e.poolId) /\ e.multiplier > 0}
      /\ Len(list) = Cardinality({list[k] : k \in DOMAIN list})
      /\ dexGlobal.totalIncentivesMultiplier = MapThenSumSet(Wanted, KnownPools)
  BY <1>1, <1>2, <1>3, WantedSum DEF Entries
<1>5. QED
  BY <1>4 DEF IncentivesFollowOutcomes, Wanted, Accepted

\* What a proposal asks for never changes.
LEMMA ContentStep ==
    ASSUME TypeInv, SafetyInv, ContentKnown, [Next]_vars
    PROVE  /\ ContentKnown'
           /\ \A i \in DOMAIN proposals :
                /\ i \in DOMAIN proposals'
                /\ proposals'[i].poolID = proposals[i].poolID
                /\ proposals'[i].multiplier = proposals[i].multiplier
<1> USE DEF SafetyInv
<1> DEFINE Kept == \A i \in DOMAIN proposals :
                     /\ i \in DOMAIN proposals'
                     /\ proposals'[i].poolID = proposals[i].poolID
                     /\ proposals'[i].multiplier = proposals[i].multiplier
<1>t. \A c \in setting : c.index \in DOMAIN proposals
  BY DEF TypeInv, TypeOK, SettingCalls
<1>1. ASSUME DOMAIN proposals' = DOMAIN proposals, Kept, setting' \subseteq setting
      PROVE  ContentKnown'
  BY <1>t, <1>1 DEF ContentKnown
<1>2. ASSUME NEW i, NEW status, proposals' = [proposals EXCEPT ![i].status = status]
      PROVE  DOMAIN proposals' = DOMAIN proposals /\ Kept
  <2>1. ASSUME NEW j \in DOMAIN proposals
        PROVE  /\ proposals'[j].poolID = proposals[j].poolID
               /\ proposals'[j].multiplier = proposals[j].multiplier
    <3>1. PICK p \in Proposal : p = proposals[j]
      BY Fields
    <3>2. [p EXCEPT !.status = status].poolID = p.poolID
          /\ [p EXCEPT !.status = status].multiplier = p.multiplier
      BY DEF Proposal
    <3>3. proposals'[j] = IF j = i THEN [p EXCEPT !.status = status] ELSE p
      BY <1>2, <3>1
    <3>4. QED
      BY <3>1, <3>2, <3>3
  <2>2. QED
    BY <1>2, <2>1
<1>3. ASSUME QuorumCheck PROVE ContentKnown' /\ Kept
  <2>1. DOMAIN proposals' = DOMAIN proposals /\ Kept
    BY <1>2, <1>3 DEF QuorumCheck
  <2>2. setting' = setting
    BY <1>3 DEF QuorumCheck, calls
  <2>3. QED
    BY <1>1, <2>1, <2>2
<1>4. ASSUME OutcomeCheck PROVE ContentKnown' /\ Kept
  <2>1. DOMAIN proposals' = DOMAIN proposals /\ Kept
    <3>1. CASE NeedsOutcome(proposals[indexRead.nextOutcomeCheckIndex])
      BY <1>2, <1>4, <3>1 DEF OutcomeCheck, Decide
    <3>2. CASE ~NeedsOutcome(proposals[indexRead.nextOutcomeCheckIndex])
      BY <1>4, <3>2 DEF OutcomeCheck
    <3>3. QED
      BY <3>1, <3>2
  <2>2. setting' = setting
    BY <1>4 DEF OutcomeCheck, calls
  <2>3. QED
    BY <1>1, <2>1, <2>2
<1>5. ASSUME NEW pool \in KnownPools, NEW multiplier \in Multipliers,
             CreateProposal(pool, multiplier)
      PROVE  ContentKnown' /\ Kept
  <2> DEFINE n == NewIndex
             p == NewProposal(pool, multiplier)
  <2>1. /\ proposals' = [j \in DOMAIN proposals \cup {n} |-> IF j = n THEN p ELSE proposals[j]]
        /\ setting' = setting
    BY <1>5 DEF CreateProposal, calls
  <2>2. p.poolID = pool /\ p.multiplier = multiplier
    BY DEF NewProposal
  <2>3. \A j \in DOMAIN proposals : proposals'[j] = proposals[j] /\ j \in DOMAIN proposals'
    BY <1>5, <2>1, CreateEffect
  <2>4. \A j \in DOMAIN proposals' : j \in DOMAIN proposals \/ proposals'[j] = p
    BY <2>1
  <2>5. QED
    BY <1>t, <2>1, <2>2, <2>3, <2>4 DEF ContentKnown
<1>6. ASSUME NEW c \in setting, AddVotesSet(c)
      PROVE  ContentKnown' /\ Kept
  <2>1. /\ proposals' = [proposals EXCEPT ![c.index] = c.proposal]
        /\ setting' \subseteq setting
    BY <1>6 DEF AddVotesSet
  <2>2. DOMAIN proposals' = DOMAIN proposals /\ Kept
    BY <1>t, <2>1 DEF ContentKnown
  <2>3. QED
    BY <1>1, <2>1, <2>2
<1>7. ASSUME NEW c \in getting, AddVotesGet(c)
      PROVE  ContentKnown' /\ Kept
  <2> DEFINE sum == c.votes + proposals[c.index].tally[c.decision]
             p == [proposals[c.index] EXCEPT !.tally[c.decision] = sum]
             w == [tx |-> c.tx, leg |-> c.leg, index |-> c.index, proposal |-> p]
  <2>1. c.index \in DOMAIN proposals
    BY DEF TypeInv, TypeOK, GettingCalls
  <2>2. p.poolID = proposals[c.index].poolID
        /\ p.multiplier = proposals[c.index].multiplier
    <3>1. PICK old \in Proposal : old = proposals[c.index]
      BY <2>1, Fields
    <3>2. p = [old EXCEPT !.tally[c.decision] = sum]
      BY <3>1
    <3> HIDE DEF sum
    <3>3. [old EXCEPT !.tally[c.decision] = sum].poolID = old.poolID
          /\ [old EXCEPT !.tally[c.decision] = sum].multiplier = old.multiplier
      BY DEF Proposal
    <3>4. QED
      BY <3>1, <3>2, <3>3
  <2>3. setting' \subseteq setting \cup {w} /\ proposals' = proposals
    BY <1>7 DEF AddVotesGet, stores
  <2>4. w.index = c.index /\ w.proposal = p
    OBVIOUS
  <2> HIDE DEF w, p
  <2>5. QED
    BY <1>t, <2>2, <2>3, <2>4 DEF ContentKnown
<1>8. ASSUME proposals' = proposals, setting' = setting
      PROVE  ContentKnown' /\ Kept
  BY <1>8 DEF ContentKnown
<1>9. CASE NextBlock \/ QuorumLoopEnds \/ OutcomeLoopEnds
  BY <1>8, <1>9 DEF NextBlock, QuorumLoopEnds, OutcomeLoopEnds, stores, calls
<1>10. CASE CreateProposalFails \/ VoteOnProposalFails
  BY <1>8, <1>10 DEF CreateProposalFails, VoteOnProposalFails, calls
<1>11. ASSUME NEW voter, NEW i, NEW decision, NEW stake, VoteOnProposal(voter, i, decision, stake)
       PROVE  ContentKnown' /\ Kept
  BY <1>8, <1>11 DEF VoteOnProposal
<1>12. CASE BoundReached \/ UNCHANGED vars
  BY <1>8, <1>12 DEF BoundReached, vars
<1> HIDE DEF Kept
<1>13. QED
  BY <1>3, <1>4, <1>5, <1>6, <1>7, <1>9, <1>10, <1>11, <1>12 DEF Next, Kept

\* The newest accepted proposal about a pool is one of them.
LEMMA NewestAccepted ==
    ASSUME TypeInv, NEW pool, Accepted(pool) # {}
    PROVE  Max(Accepted(pool)) \in Accepted(pool)
<1>1. PICK n \in 0..MaxProposals : proposals \in [0..n - 1 -> Proposal]
  BY DEF TypeInv, TypeOK, ProposalsShape
<1>2. n \in Nat /\ DOMAIN proposals \subseteq 0..n
  BY <1>1, GovernanceAssumption
<1>3. Accepted(pool) \in SUBSET (0..n)
  BY <1>2 DEF Accepted
<1>4. QED
  BY <1>2, <1>3, MaxOfSubset

\* A multiplier wanted is 0 or one that a proposal asked for.
LEMMA WantedKnown ==
    ASSUME TypeInv, ContentKnown, NEW pool
    PROVE  Wanted(pool) \in Nat /\ (Wanted(pool) # 0 => Wanted(pool) \in Multipliers)
<1>1. CASE Accepted(pool) = {}
  BY <1>1 DEF Wanted
<1>2. CASE Accepted(pool) # {}
  <2>1. Max(Accepted(pool)) \in DOMAIN proposals
    BY <1>2, NewestAccepted DEF Accepted
  <2>2. proposals[Max(Accepted(pool))].multiplier \in Multipliers
    BY <2>1 DEF ContentKnown
  <2>3. QED
    BY <1>2, <2>2, GovernanceAssumption DEF Wanted
<1>3. QED
  BY <1>1, <1>2

\* A multiplier wanted changes only when another proposal about the pool is accepted.
LEMMA WantedStays ==
    ASSUME TypeInv, NEW pool, Accepted(pool)' = Accepted(pool),
           \A i \in DOMAIN proposals : proposals'[i].multiplier = proposals[i].multiplier
    PROVE  Wanted(pool)' = Wanted(pool)
<1>1. CASE Accepted(pool) = {}
  BY <1>1 DEF Wanted
<1>2. CASE Accepted(pool) # {}
  <2>1. Max(Accepted(pool)) \in DOMAIN proposals
    BY <1>2, NewestAccepted DEF Accepted
  <2>2. QED
    BY <1>2, <2>1 DEF Wanted
<1>3. QED
  BY <1>1, <1>2

\* The list still follows the outcomes when neither changes.
LEMMA ListStays ==
    ASSUME ListFollows, dexGlobal' = dexGlobal,
           \A pool \in KnownPools : Wanted(pool)' = Wanted(pool)
    PROVE  ListFollows'
<1>1. WantedMultipliers' = WantedMultipliers
  BY DEF WantedMultipliers
<1>2. QED
  BY <1>1 DEF ListFollows

\* No step but a decision accepts a proposal or changes the list.
LEMMA NoDecision ==
    ASSUME FullInv, ContentKnown, [Next]_vars, ListFollows,
           ~(OutcomeCheck /\ ~Closed(indexRead.nextOutcomeCheckIndex))
    PROVE  ListFollows'
<1> USE DEF FullInv, SafetyInv
<1>1. dexGlobal' = dexGlobal
  BY DEF Next, NextBlock, QuorumCheck, QuorumLoopEnds, OutcomeCheck, NeedsOutcome, Closed,
         OutcomeLoopEnds, CreateProposal, CreateProposalFails, VoteOnProposal,
         VoteOnProposalFails, ExecuteTransaction, AddVotesGet, AddVotesSet, BoundReached,
         stores, vars
<1>2. ASSUME NEW i \in DOMAIN proposals', proposals'[i].status = PROPOSAL_STATUS_FINISHED_ACCEPTED
      PROVE  i \in DOMAIN proposals /\ proposals[i].status = PROPOSAL_STATUS_FINISHED_ACCEPTED
  <2> USE DEF PROPOSAL_STATUS_ACTIVE, PROPOSAL_STATUS_FINISHED_ACCEPTED,
              PROPOSAL_STATUS_FAILED_QUORUM
  <2>1. CASE QuorumCheck
    BY <1>2, <2>1, QuorumEffect
  <2>2. CASE OutcomeCheck
    BY <1>2, <2>2, OutcomeEffect
  <2>3. ASSUME NEW pool \in KnownPools, NEW multiplier \in Multipliers,
               CreateProposal(pool, multiplier)
        PROVE  i \in DOMAIN proposals /\ proposals[i].status = PROPOSAL_STATUS_FINISHED_ACCEPTED
    <3>1. PICK n \in Nat : /\ DOMAIN proposals = 0..n - 1 /\ DOMAIN proposals' = 0..n
                           /\ proposals'[n].status = PROPOSAL_STATUS_ACTIVE
                           /\ \A j \in DOMAIN proposals : proposals'[j] = proposals[j]
      BY <2>3, CreateEffect
    <3>2. i # n
      BY <1>2, <3>1
    <3>3. i \in DOMAIN proposals
      BY <3>1, <3>2
    <3>4. QED
      BY <1>2, <3>1, <3>3
  <2>4. ASSUME NEW c \in setting, AddVotesSet(c)
        PROVE  i \in DOMAIN proposals /\ proposals[i].status = PROPOSAL_STATUS_FINISHED_ACCEPTED
    BY <1>2, <2>4, WriteEffect
  <2>5. CASE QuietStep
    BY <1>2, <2>5 DEF QuietStep
  <2>6. QED
    BY <2>1, <2>2, <2>3, <2>4, <2>5, StepKinds
<1>3. ASSUME NEW i \in DOMAIN proposals, proposals[i].status = PROPOSAL_STATUS_FINISHED_ACCEPTED
      PROVE  proposals'[i].status = PROPOSAL_STATUS_FINISHED_ACCEPTED
  <2>1. Closed(i)
    BY <1>3 DEF Closed, PROPOSAL_STATUS_ACTIVE, PROPOSAL_STATUS_FINISHED_ACCEPTED
  <2>2. QED
    BY <1>3, <2>1, ClosedStays
<1>4. \A i \in DOMAIN proposals :
        /\ i \in DOMAIN proposals'
        /\ proposals'[i].poolID = proposals[i].poolID
        /\ proposals'[i].multiplier = proposals[i].multiplier
  BY ContentStep
<1>5. ASSUME NEW pool PROVE Accepted(pool)' = Accepted(pool)
  BY <1>2, <1>3, <1>4 DEF Accepted
<1>6. ASSUME NEW pool PROVE Wanted(pool)' = Wanted(pool)
  BY <1>4, <1>5, WantedStays
<1>7. QED
  BY <1>1, <1>6, ListStays

\* Deciding the proposal at the outcome index: it is the newest one accepted
\* about its pool, and the list takes its multiplier.
LEMMA Decision ==
    ASSUME FullInv, ContentKnown, [Next]_vars, ListFollows, IsFiniteSet(KnownPools),
           OutcomeCheck, ~Closed(indexRead.nextOutcomeCheckIndex)
    PROVE  ListFollows'
<1> USE DEF FullInv, SafetyInv
<1> DEFINE o == indexRead.nextOutcomeCheckIndex
           p == proposals[o]
           outcome == VoteOutcome(p)
           accepted == outcome = PROPOSAL_STATUS_FINISHED_ACCEPTED
<1>1. /\ o \in DOMAIN proposals /\ o \in Nat /\ DOMAIN proposals' = DOMAIN proposals
      /\ \A i \in DOMAIN proposals : i # o => proposals'[i].status = proposals[i].status
  BY OutcomeEffect, Fields
<1>2. /\ proposals' = [proposals EXCEPT ![o].status = outcome]
      /\ dexGlobal' = IF p.poolID # NoPool /\ accepted
                      THEN UpdateIncentivizedPools(dexGlobal, p.poolID, p.multiplier)
                      ELSE dexGlobal
  BY DEF OutcomeCheck, NeedsOutcome, Closed, Decide
<1>3. proposals'[o].status = outcome
  <2>1. PICK q \in Proposal : q = p
    BY <1>1, Fields
  <2> HIDE DEF outcome
  <2>2. [q EXCEPT !.status = outcome].status = outcome
    BY DEF Proposal
  <2>3. proposals'[o] = [q EXCEPT !.status = outcome]
    BY <1>1, <1>2, <2>1
  <2>4. QED
    BY <2>2, <2>3
<1>4. \A i \in DOMAIN proposals :
        /\ proposals'[i].poolID = proposals[i].poolID
        /\ proposals'[i].multiplier = proposals[i].multiplier
  BY ContentStep
<1>5. proposals[o].status # PROPOSAL_STATUS_FINISHED_ACCEPTED
  BY DEF Closed, PROPOSAL_STATUS_ACTIVE, PROPOSAL_STATUS_FINISHED_ACCEPTED
<1>6. /\ p.poolID \in KnownPools \cup {NoPool} /\ p.multiplier \in Multipliers /\ p.multiplier \in Nat
  BY <1>1, GovernanceAssumption DEF ContentKnown
<1> HIDE DEF o, outcome, accepted
<1>7. ASSUME NEW pool, ~accepted \/ pool # p.poolID
      PROVE  Accepted(pool)' = Accepted(pool)
  BY <1>1, <1>3, <1>4, <1>5, <1>7 DEF Accepted, accepted
<1>8. ASSUME NEW pool, ~accepted \/ pool # p.poolID
      PROVE  Wanted(pool)' = Wanted(pool)
  BY <1>4, <1>7, <1>8, WantedStays
<1>9. CASE ~accepted \/ p.poolID = NoPool
  <2>1. \A pool \in KnownPools : Wanted(pool)' = Wanted(pool)
    BY <1>8, <1>9, GovernanceAssumption
  <2>2. QED
    BY <1>2, <1>9, <2>1, ListStays
<1>10. CASE accepted /\ p.poolID # NoPool
  <2>1. PICK pool \in KnownPools : pool = p.poolID /\ pool \in Nat
    BY <1>6, <1>10, GovernanceAssumption
  <2>m. PICK m \in Multipliers : m = p.multiplier
    BY <1>6
  <2> DEFINE f == WantedMultipliers
             g == WantedMultipliers'
  <2>2. Accepted(pool)' = Accepted(pool) \cup {o}
    BY <1>1, <1>3, <1>4, <1>10, <2>1 DEF Accepted, accepted
  <2>3. \A i \in Accepted(pool)' : i \in Nat /\ i <= o
    <3>1. indexStore[BlockKey].nextOutcomeCheckIndex \in {o, o + 1}
      BY DEF OutcomeCheck, LoopIndexes, o
    <3>2. ASSUME NEW i \in Accepted(pool) PROVE i \in Nat /\ i <= o
      <4>1. i \in DOMAIN proposals /\ i \in Nat
            /\ proposals[i].status = PROPOSAL_STATUS_FINISHED_ACCEPTED
        BY Fields DEF Accepted
      <4>2. i < indexStore[BlockKey].nextOutcomeCheckIndex
        BY <4>1 DEF OutcomeIndexIsFrontier, PROPOSAL_STATUS_ACTIVE,
           PROPOSAL_STATUS_FINISHED_ACCEPTED, PROPOSAL_STATUS_FAILED_QUORUM
      <4>3. QED
        BY <1>1, <3>1, <4>1, <4>2
    <3>3. QED
      BY <1>1, <2>2, <3>2
  <2>4. Max(Accepted(pool)') = o
    <3> DEFINE S == Accepted(pool)'
    <3>1. o \in S /\ \A i \in S : i \in Nat /\ o >= i
      BY <1>1, <2>2, <2>3
    <3> HIDE DEF S
    <3>2. Max(S) \in S /\ \A i \in S : Max(S) >= i
      BY <3>1, Zenon DEF Max
    <3>3. QED
      BY <1>1, <3>1, <3>2 DEF S
  <2>5. Wanted(pool)' = m
    <3>1. Wanted(pool)' = proposals'[Max(Accepted(pool)')].multiplier
      BY <2>2 DEF Wanted
    <3>2. QED
      BY <1>1, <1>4, <2>4, <2>m, <3>1
  <2>6. \A other \in KnownPools : other # pool => Wanted(other)' = Wanted(other)
    BY <1>8, <2>1
  <2>7. \A x \in KnownPools : f[x] \in Nat /\ (f[x] # 0 => f[x] \in Multipliers)
    BY WantedKnown DEF WantedMultipliers
  <2>8. \A x \in KnownPools : g[x] = IF x = pool THEN m ELSE f[x]
    BY <2>5, <2>6 DEF WantedMultipliers
  <2>9. Lists(dexGlobal, f, KnownPools, Multipliers)
    BY DEF ListFollows
  <2>10. dexGlobal' = UpdateIncentivizedPools(dexGlobal, pool, m)
    BY <1>2, <1>10, <2>1, <2>m
  <2>11. KnownPools \subseteq Nat /\ Multipliers \subseteq Nat
    BY GovernanceAssumption
  <2> HIDE DEF f, g
  <2>12. Lists(dexGlobal', g, KnownPools, Multipliers)
    BY <2>1, <2>7, <2>8, <2>9, <2>10, <2>11, ListUpdated
  <2>13. QED
    BY <2>12 DEF ListFollows, g
<1>11. QED
  BY <1>9, <1>10

\* The inductive invariant of the incentivized pools.
PoolsInv == FullInv /\ ContentKnown /\ ListFollows

\* The chain starts with no proposal and no incentivized pool.
LEMMA PoolsInit ==
    ASSUME IsFiniteSet(KnownPools), Init
    PROVE  PoolsInv
<1>1. FullInv
  BY TypeInit, SafetyInit, FrontierInit DEF FullInv
<1>2. ContentKnown
  BY NoProposals DEF Init, ContentKnown
<1>3. \A pool : Accepted(pool) = {}
  BY NoProposals DEF Accepted
<1>4. \A pool : Wanted(pool) = 0
  BY <1>3 DEF Wanted
<1>5. SumOver(WantedMultipliers, KnownPools) = 0
  <2> DEFINE f == WantedMultipliers
  <2>1. \A x \in KnownPools : f[x] = IF x \in {} THEN 0 ELSE 0
    BY <1>4 DEF WantedMultipliers
  <2>2. {} \in SUBSET KnownPools /\ 0 \in Int /\ Cardinality({}) = 0
    BY FS_EmptySet
  <2> HIDE DEF f
  <2>3. SumOver(f, KnownPools) = 0 * Cardinality({})
    BY <2>1, <2>2, SumConstant
  <2>4. QED
    BY <2>2, <2>3 DEF f
<1>6. Entries(<<>>) = {} /\ OncePerPool(<<>>) /\ <<>> \in Seq(Entry)
  BY DEF Entries, OncePerPool
<1>7. Listed(WantedMultipliers, KnownPools, Multipliers) = {}
  BY <1>4 DEF Listed, WantedMultipliers
<1>8. ListFollows
  BY <1>5, <1>6, <1>7 DEF Init, ListFollows, Lists, EmptyDexGlobal, GlobalOf
<1>9. QED
  BY <1>1, <1>2, <1>8 DEF PoolsInv

\* The incentivized pools of the DEX module are those that the accepted
\* proposals ask for, the newest one about a pool counting, and the stored total
\* is the sum of their multipliers, however the hook's loops repeat their checks.
THEOREM IncentivesFollowOutcomesHolds ==
    ASSUME IsFiniteSet(KnownPools)
    PROVE  Spec => []IncentivesFollowOutcomes
<1>1. Init => PoolsInv
  BY PoolsInit
<1>2. PoolsInv /\ [Next]_vars => PoolsInv'
  <2> SUFFICES ASSUME PoolsInv, [Next]_vars PROVE PoolsInv'
    OBVIOUS
  <2>1. FullInv'
    BY FullStep DEF PoolsInv
  <2>2. ContentKnown'
    BY ContentStep DEF FullInv, PoolsInv
  <2>3. ListFollows'
    BY NoDecision, Decision DEF PoolsInv
  <2>4. QED
    BY <2>1, <2>2, <2>3 DEF PoolsInv
<1>3. PoolsInv => IncentivesFollowOutcomes
  BY ListFollowsImplies DEF PoolsInv
<1>4. QED
  BY <1>1, <1>2, <1>3, PTL DEF Spec

=============================================================================
