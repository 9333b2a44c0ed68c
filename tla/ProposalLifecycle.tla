------------------------- MODULE ProposalLifecycle -------------------------
(***************************************************************************)
(* What DEX Governance promises of a proposal, without saying how: it is   *)
(* created active, it may be closed for a missed quorum once its quorum    *)
(* period is over, it is decided (accepted or failed) once its voting      *)
(* period is over and in the order of creation, and what is decided stays  *)
(* decided.  No more than MaxLive proposals are in their voting period.    *)
(* DexGovernance implements this specification.                            *)
(***************************************************************************)
EXTENDS Integers

CONSTANTS QuorumDuration, VoteDuration, MaxLive,
          MaxProposals      \* bound on the number of proposals ever created

\* The proposal statuses of constants.ts.
PROPOSAL_STATUS_ACTIVE == 0
PROPOSAL_STATUS_FINISHED_ACCEPTED == 1
PROPOSAL_STATUS_FINISHED_FAILED == 2
PROPOSAL_STATUS_FAILED_QUORUM == 3

VARIABLES
    now,      \* height of the current block
    created,  \* creation height of each proposal, indexed from 0
    status    \* status of each proposal

lifecycle == <<now, created, status>>

Age(i) == now - created[i]

LifecycleInit ==
    /\ now \in Nat
    /\ created = [i \in {} |-> 0]
    /\ status = [i \in {} |-> 0]

\* A new proposal takes the next index; the one MaxLive places before it, if
\* there is one, has left its voting period.
Propose ==
    \E n \in 0..MaxProposals - 1 :
        /\ DOMAIN created = 0..n - 1
        /\ n - MaxLive \in DOMAIN created => Age(n - MaxLive) >= VoteDuration
        /\ created' = [i \in 0..n |-> IF i = n THEN now ELSE created[i]]
        /\ status' = [i \in 0..n |-> IF i = n THEN PROPOSAL_STATUS_ACTIVE ELSE status[i]]
        /\ UNCHANGED now

FailQuorum(i) ==
    /\ status[i] = PROPOSAL_STATUS_ACTIVE
    /\ Age(i) >= QuorumDuration
    /\ status' = [status EXCEPT ![i] = PROPOSAL_STATUS_FAILED_QUORUM]
    /\ UNCHANGED <<now, created>>

Decide(i, outcome) ==
    /\ status[i] = PROPOSAL_STATUS_ACTIVE
    /\ Age(i) >= VoteDuration
    /\ \A j \in DOMAIN created : j < i => status[j] # PROPOSAL_STATUS_ACTIVE
    /\ status' = [status EXCEPT ![i] = outcome]
    /\ UNCHANGED <<now, created>>

NextBlockHeight ==
    /\ now' = now + 1
    /\ UNCHANGED <<created, status>>

LifecycleNext ==
    \/ Propose
    \/ \E i \in DOMAIN created :
        \/ FailQuorum(i)
        \/ \E outcome \in {PROPOSAL_STATUS_FINISHED_ACCEPTED, PROPOSAL_STATUS_FINISHED_FAILED} :
              Decide(i, outcome)
    \/ NextBlockHeight

LifecycleSpec == LifecycleInit /\ [][LifecycleNext]_lifecycle
=============================================================================
