---------------------- MODULE ConsensusEngine_proofs ----------------------
(***************************************************************************)
(* Safety of ConsensusEngine for every validator set, stake distribution,  *)
(* set of faulty validators below a third of the stake, timeouts and       *)
(* bounds.                                                                 *)
(***************************************************************************)
EXTENDS ConsensusEngine, FiniteSetTheorems, TLAPS

-----------------------------------------------------------------------------
(* Stake counts as the size of a set of units: it is finite, it adds up over
   unions and it grows with the set of validators. *)
LEMMA UnitsFinite ==
    ASSUME NEW S \in SUBSET Validators
    PROVE  IsFiniteSet(Units(S)) /\ StakeOf(S) \in Nat
<1>1. IsFiniteSet(Validators)
    BY FS_Interval, CountAssumption DEF Validators
<1>2. IsFiniteSet(S)
    BY <1>1, FS_Subset
<1>3. IsFiniteSet(1 .. MaxStake)
    BY FS_Interval, StakeAssumption
<1>4. IsFiniteSet(S \X (1 .. MaxStake))
    BY <1>2, <1>3, FS_Product
<1>5. Units(S) \in SUBSET (S \X (1 .. MaxStake))
    BY DEF Units
<1>6. IsFiniteSet(Units(S))
    BY <1>4, <1>5, FS_Subset
<1> QED BY <1>6, FS_CardinalityType DEF StakeOf

LEMMA UnitsOfUnion ==
    ASSUME NEW S \in SUBSET Validators, NEW T \in SUBSET Validators
    PROVE  /\ Units(S \cup T) = Units(S) \cup Units(T)
           /\ Units(S \cap T) = Units(S) \cap Units(T)
           /\ S \subseteq T => Units(S) \subseteq Units(T)
BY DEF Units

LEMMA StakeAddsUp ==
    ASSUME NEW S \in SUBSET Validators, NEW T \in SUBSET Validators
    PROVE  StakeOf(S \cup T) + StakeOf(S \cap T) = StakeOf(S) + StakeOf(T)
<1>1. IsFiniteSet(Units(S)) /\ IsFiniteSet(Units(T))
    BY UnitsFinite
<1>2. Cardinality(Units(S) \cup Units(T)) =
        Cardinality(Units(S)) + Cardinality(Units(T))
            - Cardinality(Units(S) \cap Units(T))
    BY <1>1, FS_Union
<1>3. StakeOf(S \cup T) = StakeOf(S) + StakeOf(T) - StakeOf(S \cap T)
    BY <1>2, UnitsOfUnion DEF StakeOf
<1>4. /\ StakeOf(S \cup T) \in Nat /\ StakeOf(S \cap T) \in Nat
      /\ StakeOf(S) \in Nat /\ StakeOf(T) \in Nat
    BY UnitsFinite
<1> QED BY <1>3, <1>4

LEMMA StakeGrows ==
    ASSUME NEW T \in SUBSET Validators, NEW S \in SUBSET T
    PROVE  StakeOf(S) <= StakeOf(T)
<1>1. IsFiniteSet(Units(T))
    BY UnitsFinite
<1>2. Units(S) \in SUBSET Units(T)
    BY UnitsOfUnion
<1> QED BY <1>1, <1>2, FS_Subset DEF StakeOf

(* Any two supermajorities share an honest validator: with the 3x >= 2T test
   of has_supermajority they overlap in at least a third of the stake, and
   less than a third is Byzantine. *)
LEMMA QuorumIntersection ==
    ASSUME NEW P \in Supermajorities, NEW Q \in Supermajorities
    PROVE  \E u \in Honest : u \in P /\ u \in Q
<1>1. P \in SUBSET Validators /\ Q \in SUBSET Validators
    BY DEF Supermajorities
<1>2. /\ 3 * StakeOf(P) >= 2 * StakeOf(Validators)
      /\ 3 * StakeOf(Q) >= 2 * StakeOf(Validators)
    BY DEF Supermajorities
<1>3. StakeOf(P \cup Q) <= StakeOf(Validators)
    BY <1>1, StakeGrows
<1>4. StakeOf(P \cup Q) + StakeOf(P \cap Q) = StakeOf(P) + StakeOf(Q)
    BY <1>1, StakeAddsUp
<1>5. /\ StakeOf(P) \in Nat /\ StakeOf(Q) \in Nat
      /\ StakeOf(P \cup Q) \in Nat /\ StakeOf(P \cap Q) \in Nat
      /\ StakeOf(Validators) \in Nat /\ StakeOf(Byzantine) \in Nat
    BY <1>1, UnitsFinite, FaultAssumption
<1>6. 3 * StakeOf(P \cap Q) >= StakeOf(Validators)
    BY <1>2, <1>3, <1>4, <1>5
<1>7. StakeOf(P \cap Q) > StakeOf(Byzantine)
    BY <1>5, <1>6, FaultAssumption
<1>8. ~(P \cap Q \subseteq Byzantine)
    BY <1>5, <1>7, StakeGrows, FaultAssumption
<1> QED BY <1>1, <1>8 DEF Honest

-----------------------------------------------------------------------------
(* The inductive invariant.  Votes already signed stay signed, so whatever
   verifies keeps verifying; each action then disturbs only its own engine. *)
LEMMA InitInv == Init => IInv
<1> SUFFICES ASSUME Init PROVE IInv
    OBVIOUS
<1>1. TypeOK
    BY CountAssumption, BoundAssumption
    DEF Init, TypeOK, Rounds, Steps, Phases, NoVotes
<1>2. ProposalOpensRound /\ PassedPhasesHaveQuorum /\ FinalBlockIsCurrent
    BY DEF Init, ProposalOpensRound, PassedPhasesHaveQuorum, FinalBlockIsCurrent,
           Rank, Decided
<1>3. CastVotesFollowEngine /\ NoHonestEquivocation /\ CountedVotesAreCurrent
    BY DEF Init, CastVotesFollowEngine, NoHonestEquivocation,
           CountedVotesAreCurrent, NoVotes
<1> QED BY <1>1, <1>2, <1>3 DEF IInv

LEMMA TickInv == IInv /\ Tick => IInv'
<1> SUFFICES ASSUME IInv, Tick PROVE IInv'
    OBVIOUS
<1>1. TypeOK'
    BY BoundAssumption DEF IInv, TypeOK, Tick, engines, signed
<1> QED
    BY <1>1 DEF IInv, Tick, engines, signed, ProposalOpensRound,
        CastVotesFollowEngine, NoHonestEquivocation, CountedVotesAreCurrent,
        PassedPhasesHaveQuorum, FinalBlockIsCurrent, Decided, VoteVerifies

LEMMA ProposeInv ==
    ASSUME IInv, NEW v \in Honest, NEW h \in Hashes, Propose(v, h)
    PROVE  IInv'
<1>1. TypeOK'
    BY DEF IInv, TypeOK, Propose, engines, Proposals, Honest
<1> QED
    BY <1>1 DEF IInv, Propose, engines, ProposalOpensRound,
        CastVotesFollowEngine, NoHonestEquivocation, CountedVotesAreCurrent,
        PassedPhasesHaveQuorum, FinalBlockIsCurrent, Decided, VoteVerifies

LEMMA CastVoteInv ==
    ASSUME IInv, NEW v \in Honest, NEW ph \in Phases, CastVote(v, ph)
    PROVE  IInv'
<1> DEFINE new == VoteOf(v, round[v], ph, proposal[v])
<1>1. step[v] \in Steps /\ round[v] \in Rounds
    BY DEF IInv, TypeOK
<1>2. proposal[v] \in Hashes
    <2>1. step[v] # "Proposal"
        BY <1>1 DEF CastVote, Rank, Phases, Steps
    <2> QED BY <2>1 DEF IInv, TypeOK, ProposalOpensRound
<1>3. cast' = cast \cup {new} /\ UNCHANGED <<now, engines, proposed>>
    BY DEF CastVote
<1>4. TypeOK'
    BY <1>1, <1>2, <1>3 DEF IInv, TypeOK, engines, Votes, VoteOf, Honest
<1>5. /\ CastVotesFollowEngine'
      /\ NoHonestEquivocation'
    BY <1>1, <1>3 DEF IInv, TypeOK, engines, CastVotesFollowEngine,
        NoHonestEquivocation, VoteOf, Rounds
<1>6. CountedVotesAreCurrent'
    BY <1>3 DEF IInv, engines, CountedVotesAreCurrent, VoteVerifies
<1>7. ProposalOpensRound' /\ PassedPhasesHaveQuorum'
    BY <1>3 DEF IInv, engines, ProposalOpensRound, PassedPhasesHaveQuorum
<1>8. FinalBlockIsCurrent'
    BY <1>3 DEF IInv, engines, FinalBlockIsCurrent, Decided, VoteVerifies
<1> QED BY <1>4, <1>5, <1>6, <1>7, <1>8 DEF IInv

LEMMA ReceiveProposalInv ==
    ASSUME IInv, NEW v \in Honest, NEW p \in ProposalsFor(v), ReceiveProposal(v, p)
    PROVE  IInv'
<1>1. /\ p.hash \in Hashes
      /\ p.hash # NoHash
    BY HashAssumption DEF ProposalsFor
<1>2. step[v] = "Proposal" /\ votes[v] = NoVotes /\ proposal[v] = NoHash
    BY DEF ReceiveProposal, IInv, ProposalOpensRound
<1>3. /\ proposal' = [proposal EXCEPT ![v] = p.hash]
      /\ step' = [step EXCEPT ![v] = "PreVote"]
      /\ UNCHANGED <<now, startedAt, round, votes, final, proposed, cast>>
    BY DEF ReceiveProposal, signed
<1>4. TypeOK'
    BY <1>1, <1>3 DEF IInv, TypeOK, Steps, Phases
<1>5. ProposalOpensRound'
    BY <1>1, <1>3 DEF IInv, TypeOK, ProposalOpensRound
<1>6. CastVotesFollowEngine' /\ NoHonestEquivocation'
    <2>1. \A m \in cast : m.hash # NoHash
        BY HashAssumption DEF IInv, TypeOK, Votes
    <2> QED
        BY <1>2, <1>3, <2>1 DEF IInv, TypeOK, CastVotesFollowEngine,
            NoHonestEquivocation
<1>7. CountedVotesAreCurrent'
    BY <1>2, <1>3 DEF IInv, TypeOK, CountedVotesAreCurrent, VoteVerifies, NoVotes
<1>8. PassedPhasesHaveQuorum'
    BY <1>3 DEF IInv, TypeOK, PassedPhasesHaveQuorum, Rank
<1>9. FinalBlockIsCurrent'
    BY <1>2, <1>3 DEF IInv, TypeOK, FinalBlockIsCurrent, Decided, VoteVerifies
<1> QED BY <1>4, <1>5, <1>6, <1>7, <1>8, <1>9 DEF IInv

(* A vote receive_vote counts is authentic, of the engine's round and block,
   and of a phase in which the engine holds a proposal. *)
LEMMA CountableVote ==
    ASSUME IInv, NEW v \in Honest, NEW m \in VotesFor(v), Countable(v, m)
    PROVE  /\ m.phase \in Phases /\ m.phase = step[v]
           /\ proposal[v] \in Hashes /\ proposal[v] # NoHash
           /\ votes[v] \in [Phases -> SUBSET Validators]
           /\ Bucket(v, m) \in SUBSET Validators
           /\ ~Decided(v)
           /\ \A u \in Bucket(v, m) :
                 VoteVerifies(VoteOf(u, round[v], m.phase, proposal[v]))
<1>1. /\ m.phase \in Phases /\ m.phase = step[v] /\ m.from \in Validators
      /\ m = VoteOf(m.from, round[v], m.phase, proposal[v])
    BY DEF VotesFor, Countable, VoteOf
<1>2. step[v] # "Proposal" /\ step[v] # "Finalized"
    BY <1>1 DEF Phases
<1>3. /\ proposal[v] \in Hashes /\ proposal[v] # NoHash
      /\ ~Decided(v)
    BY <1>2 DEF IInv, TypeOK, ProposalOpensRound, FinalBlockIsCurrent
<1>4. votes[v] \in [Phases -> SUBSET Validators]
    BY DEF IInv, TypeOK
<1>5. Bucket(v, m) \in SUBSET Validators
    BY <1>1, <1>4 DEF Bucket
<1>6. \A u \in votes[v][m.phase] :
         VoteVerifies(VoteOf(u, round[v], m.phase, proposal[v]))
    BY <1>1 DEF IInv, CountedVotesAreCurrent
<1>7. VoteVerifies(m)
    BY DEF Countable
<1>8. \A u \in Bucket(v, m) :
         VoteVerifies(VoteOf(u, round[v], m.phase, proposal[v]))
    BY <1>1, <1>6, <1>7 DEF Bucket
<1> QED BY <1>1, <1>3, <1>4, <1>5, <1>8

LEMMA ReceiveVoteInv ==
    ASSUME IInv, NEW v \in Honest, NEW m \in VotesFor(v), ReceiveVote(v, m)
    PROVE  IInv'
<1> DEFINE B == Bucket(v, m)
<1>0. Countable(v, m)
    BY DEF ReceiveVote
<1>1. /\ m.phase \in Phases /\ m.phase = step[v] /\ B \in SUBSET Validators
      /\ votes[v] \in [Phases -> SUBSET Validators]
      /\ \A u \in B : VoteVerifies(VoteOf(u, round[v], m.phase, proposal[v]))
    BY <1>0, CountableVote
<1>2. /\ votes' = [votes EXCEPT ![v][m.phase] = B]
      /\ UNCHANGED <<now, startedAt, round, step, proposal, final, proposed, cast>>
    BY DEF ReceiveVote, signed
<1> HIDE DEF B
<1>3. TypeOK'
    BY <1>1, <1>2 DEF IInv, TypeOK
<1>4. ProposalOpensRound'
    BY <1>1, <1>2 DEF IInv, TypeOK, ProposalOpensRound, Phases
<1>5. CastVotesFollowEngine' /\ NoHonestEquivocation'
    BY <1>2 DEF IInv, CastVotesFollowEngine, NoHonestEquivocation
<1>6. CountedVotesAreCurrent'
    BY <1>1, <1>2 DEF IInv, TypeOK, CountedVotesAreCurrent, VoteVerifies
<1>7. PassedPhasesHaveQuorum'
    BY <1>1, <1>2 DEF IInv, TypeOK, PassedPhasesHaveQuorum, Rank, Phases
<1>8. FinalBlockIsCurrent'
    BY <1>2 DEF IInv, FinalBlockIsCurrent, Decided, VoteVerifies
<1> QED BY <1>3, <1>4, <1>5, <1>6, <1>7, <1>8 DEF IInv

LEMMA AdvancePhaseInv ==
    ASSUME IInv, NEW v \in Honest, NEW m \in VotesFor(v), AdvancePhase(v, m)
    PROVE  IInv'
<1> DEFINE B == Bucket(v, m)
           next == IF m.phase = "PreVote" THEN "PreCommit" ELSE "Commit"
<1>0. Countable(v, m)
    BY DEF AdvancePhase
<1>1. /\ m.phase \in {"PreVote", "PreCommit"} /\ m.phase = step[v]
      /\ B \in Supermajorities /\ B \in SUBSET Validators
      /\ votes[v] \in [Phases -> SUBSET Validators] /\ ~Decided(v)
      /\ proposal[v] # NoHash
      /\ \A u \in B : VoteVerifies(VoteOf(u, round[v], m.phase, proposal[v]))
    BY <1>0, CountableVote DEF AdvancePhase, Phases
<1>2. /\ votes' = [votes EXCEPT ![v][m.phase] = B]
      /\ step' = [step EXCEPT ![v] = next]
      /\ UNCHANGED <<now, startedAt, round, proposal, final, proposed, cast>>
    BY DEF AdvancePhase, signed
<1>3. next \in {"PreCommit", "Commit"}
    OBVIOUS
<1> HIDE DEF B
<1>4. TypeOK'
    BY <1>1, <1>2, <1>3 DEF IInv, TypeOK, Steps, Phases
<1>5. ProposalOpensRound'
    BY <1>1, <1>2, <1>3 DEF IInv, TypeOK, ProposalOpensRound
<1>6. CastVotesFollowEngine' /\ NoHonestEquivocation'
    BY <1>2 DEF IInv, CastVotesFollowEngine, NoHonestEquivocation
<1>7. CountedVotesAreCurrent'
    BY <1>1, <1>2 DEF IInv, TypeOK, CountedVotesAreCurrent, VoteVerifies
<1>8. PassedPhasesHaveQuorum'
    BY <1>1, <1>2, <1>3 DEF IInv, TypeOK, PassedPhasesHaveQuorum, Rank, Phases
<1>9. FinalBlockIsCurrent'
    BY <1>1, <1>2, <1>3 DEF IInv, TypeOK, FinalBlockIsCurrent, Decided, VoteVerifies
<1> QED BY <1>4, <1>5, <1>6, <1>7, <1>8, <1>9 DEF IInv

LEMMA FinalizeInv ==
    ASSUME IInv, NEW v \in Honest, NEW m \in VotesFor(v), Finalize(v, m)
    PROVE  IInv'
<1> DEFINE B == Bucket(v, m)
           block == [round |-> round[v], hash |-> proposal[v], commits |-> B]
<1>0. Countable(v, m)
    BY DEF Finalize
<1>1. /\ m.phase = "Commit" /\ step[v] = "Commit"
      /\ B \in Supermajorities /\ B \in SUBSET Validators
      /\ votes[v] \in [Phases -> SUBSET Validators] /\ ~Decided(v)
      /\ proposal[v] \in Hashes /\ proposal[v] # NoHash
      /\ \A u \in B : VoteVerifies(VoteOf(u, round[v], "Commit", proposal[v]))
    BY <1>0, CountableVote DEF Finalize
<1>2. /\ votes' = [votes EXCEPT ![v]["Commit"] = {}]
      /\ final' = [final EXCEPT ![v] = block]
      /\ step' = [step EXCEPT ![v] = "Finalized"]
      /\ UNCHANGED <<now, startedAt, round, proposal, proposed, cast>>
    BY DEF Finalize, signed
<1> HIDE DEF B
<1>3. block \in Blocks /\ block # NoBlock
    BY <1>1 DEF IInv, TypeOK, Blocks, NoBlock
<1>4. TypeOK'
    BY <1>1, <1>2, <1>3 DEF IInv, TypeOK, Steps, Phases
<1>5. ProposalOpensRound'
    BY <1>1, <1>2 DEF IInv, TypeOK, ProposalOpensRound
<1>6. CastVotesFollowEngine' /\ NoHonestEquivocation'
    BY <1>2 DEF IInv, CastVotesFollowEngine, NoHonestEquivocation
<1>7. CountedVotesAreCurrent'
    BY <1>1, <1>2 DEF IInv, TypeOK, CountedVotesAreCurrent, VoteVerifies
<1>8. PassedPhasesHaveQuorum'
    BY <1>1, <1>2 DEF IInv, TypeOK, PassedPhasesHaveQuorum, Rank, Phases
<1>9. FinalBlockIsCurrent'
    BY <1>1, <1>2, <1>3 DEF IInv, TypeOK, FinalBlockIsCurrent, Decided, VoteVerifies
<1> QED BY <1>4, <1>5, <1>6, <1>7, <1>8, <1>9 DEF IInv

LEMMA OnTimeoutInv ==
    ASSUME IInv, NEW v \in Honest, OnTimeout(v)
    PROVE  IInv'
<1>1. /\ round[v] \in Rounds /\ round[v] < MaxRound
      /\ step[v] # "Finalized" /\ ~Decided(v)
    BY DEF OnTimeout, IInv, TypeOK, FinalBlockIsCurrent
<1>2. /\ round' = [round EXCEPT ![v] = @ + 1]
      /\ startedAt' = [startedAt EXCEPT ![v] = now]
      /\ step' = [step EXCEPT ![v] = "Proposal"]
      /\ proposal' = [proposal EXCEPT ![v] = NoHash]
      /\ votes' = [votes EXCEPT ![v] = NoVotes]
      /\ UNCHANGED <<now, final, proposed, cast>>
    BY DEF OnTimeout, signed
<1>3. TypeOK'
    BY <1>1, <1>2, BoundAssumption DEF IInv, TypeOK, Steps, Rounds, NoVotes
<1>4. ProposalOpensRound'
    BY <1>2 DEF IInv, TypeOK, ProposalOpensRound
<1>5. CastVotesFollowEngine' /\ NoHonestEquivocation'
    BY <1>1, <1>2 DEF IInv, TypeOK, CastVotesFollowEngine, NoHonestEquivocation,
        Rounds, Votes
<1>6. CountedVotesAreCurrent'
    BY <1>2 DEF IInv, TypeOK, CountedVotesAreCurrent, VoteVerifies, NoVotes
<1>7. PassedPhasesHaveQuorum'
    BY <1>2 DEF IInv, TypeOK, PassedPhasesHaveQuorum, Rank
<1>8. FinalBlockIsCurrent'
    BY <1>1, <1>2 DEF IInv, TypeOK, FinalBlockIsCurrent, Decided, VoteVerifies
<1> QED BY <1>3, <1>4, <1>5, <1>6, <1>7, <1>8 DEF IInv

LEMMA StutterInv == IInv /\ UNCHANGED vars => IInv'
BY DEF IInv, vars, TypeOK, ProposalOpensRound, CastVotesFollowEngine,
    NoHonestEquivocation, CountedVotesAreCurrent, PassedPhasesHaveQuorum,
    FinalBlockIsCurrent, Decided, VoteVerifies

(* Every reachable state satisfies the inductive invariant. *)
THEOREM InvariantHolds == Spec => []IInv
<1>1. Init => IInv
    BY InitInv
<1>2. IInv /\ [Next]_vars => IInv'
    <2> SUFFICES ASSUME IInv, [Next]_vars PROVE IInv'
        OBVIOUS
    <2>1. CASE Tick
        BY <2>1, TickInv
    <2>2. ASSUME NEW v \in Honest, \E h \in Hashes : Propose(v, h) PROVE IInv'
        BY <2>2, ProposeInv
    <2>3. ASSUME NEW v \in Honest, \E ph \in Phases : CastVote(v, ph) PROVE IInv'
        BY <2>3, CastVoteInv
    <2>4. ASSUME NEW v \in Honest, \E p \in ProposalsFor(v) : ReceiveProposal(v, p)
          PROVE  IInv'
        BY <2>4, ReceiveProposalInv
    <2>5. ASSUME NEW v \in Honest, NEW m \in VotesFor(v),
                 ReceiveVote(v, m) \/ AdvancePhase(v, m) \/ Finalize(v, m)
          PROVE  IInv'
        BY <2>5, ReceiveVoteInv, AdvancePhaseInv, FinalizeInv
    <2>6. ASSUME NEW v \in Honest, OnTimeout(v) PROVE IInv'
        BY <2>6, OnTimeoutInv
    <2>7. CASE UNCHANGED vars
        BY <2>7, StutterInv
    <2> QED BY <2>1, <2>2, <2>3, <2>4, <2>5, <2>6, <2>7 DEF Next
<1> QED BY <1>1, <1>2, PTL DEF Spec

(* The engine state always has the types of the ConsensusEngine struct: in
   particular rounds stay in range and a finalized block has a real hash. *)
THEOREM TypeCorrect == Spec => []TypeOK
<1>1. IInv => TypeOK
    BY DEF IInv
<1> QED BY <1>1, InvariantHolds, PTL

LEMMA AgreementFromInv == IInv => SameRoundAgreement
<1> SUFFICES ASSUME IInv, NEW u \in Honest, NEW v \in Honest, Decided(u), Decided(v),
                    final[u].round = final[v].round
             PROVE  final[u].hash = final[v].hash
    BY DEF SameRoundAgreement
<1>1. /\ final[u].commits \in Supermajorities
      /\ final[v].commits \in Supermajorities
      /\ \A w \in final[u].commits :
            VoteVerifies(VoteOf(w, final[u].round, "Commit", final[u].hash))
      /\ \A w \in final[v].commits :
            VoteVerifies(VoteOf(w, final[v].round, "Commit", final[v].hash))
    BY DEF IInv, FinalBlockIsCurrent
<1>2. PICK w \in Honest : w \in final[u].commits /\ w \in final[v].commits
    BY <1>1, QuorumIntersection
<1>3. /\ VoteOf(w, final[u].round, "Commit", final[u].hash) \in cast
      /\ VoteOf(w, final[v].round, "Commit", final[v].hash) \in cast
    BY <1>1, <1>2 DEF VoteVerifies, VoteOf, Honest
<1> QED BY <1>3 DEF IInv, NoHonestEquivocation, VoteOf

(* Engines that finalize in the same round finalize the same block, for every
   stake distribution with less than a third of the stake faulty, whatever
   the network and the faulty validators do. *)
THEOREM Agreement == Spec => []SameRoundAgreement
BY InvariantHolds, AgreementFromInv, PTL

(* A validator that signs what its engine shows never signs two blocks in the
   same phase of the same round. *)
THEOREM HonestVotesOnce == Spec => []NoHonestEquivocation
<1>1. IInv => NoHonestEquivocation
    BY DEF IInv
<1> QED BY <1>1, InvariantHolds, PTL

(* Every counted vote was signed for the engine's own round, phase and block:
   on_timeout and the phase changes leave no stale vote behind. *)
THEOREM VotesStayCurrent == Spec => []CountedVotesAreCurrent
<1>1. IInv => CountedVotesAreCurrent
    BY DEF IInv
<1> QED BY <1>1, InvariantHolds, PTL

(* A finalized block carries its Commit supermajority and was preceded by
   PreVote and PreCommit supermajorities of the same round. *)
THEOREM QuorumChain == Spec => []FinalityHasQuorumChain
<1>1. IInv => FinalityHasQuorumChain
    <2> SUFFICES ASSUME IInv, NEW v \in Honest, Decided(v)
                 PROVE  /\ final[v].commits \in Supermajorities
                        /\ \A u \in final[v].commits :
                              VoteVerifies(VoteOf(u, final[v].round, "Commit", final[v].hash))
                        /\ \A ph \in {"PreVote", "PreCommit"} :
                              Certified(final[v].round, ph, final[v].hash)
        BY DEF FinalityHasQuorumChain
    <2>1. /\ final[v].round = round[v] /\ final[v].hash = proposal[v]
          /\ step[v] = "Finalized"
          /\ final[v].commits \in Supermajorities
          /\ \A u \in final[v].commits :
                VoteVerifies(VoteOf(u, final[v].round, "Commit", final[v].hash))
        BY DEF IInv, FinalBlockIsCurrent
    <2>2. \A ph \in {"PreVote", "PreCommit"} : votes[v][ph] \in Supermajorities
        BY <2>1 DEF IInv, PassedPhasesHaveQuorum, Rank
    <2>3. \A ph \in {"PreVote", "PreCommit"} : \A u \in votes[v][ph] :
             VoteVerifies(VoteOf(u, round[v], ph, proposal[v]))
        BY DEF IInv, CountedVotesAreCurrent, Phases
    <2> QED BY <2>1, <2>2, <2>3 DEF Certified
<1> QED BY <1>1, InvariantHolds, PTL

-----------------------------------------------------------------------------
(* Only finalizing changes what an engine has decided. *)
LEMMA OtherStepsKeepFinal ==
    ASSUME [Next]_vars,
           ~\E v \in Honest : \E m \in VotesFor(v) : Finalize(v, m)
    PROVE  final' = final
BY DEF Next, vars, engines, Tick, Propose, CastVote, ReceiveProposal, ReceiveVote,
    AdvancePhase, OnTimeout

(* The engines of a height implement the per-round finality register. *)
THEOREM Refinement == Spec => ImplementsRoundFinality
<1> DEFINE D(v) == [round |-> final[v].round, hash |-> final[v].hash]
           None == [round |-> -1, hash |-> NoHash]
<1>1. Init => Finality!Init
    BY DEF Init, Finality!Init, NoBlock
<1>2. IInv /\ IInv' /\ [Next]_vars => [Finality!Next]_([v \in Honest |-> D(v)])
    <2> SUFFICES ASSUME IInv, IInv', [Next]_vars,
                        [v \in Honest |-> D(v)]' # [v \in Honest |-> D(v)]
                 PROVE  Finality!Next
        OBVIOUS
    <2>1. PICK v \in Honest : \E m \in VotesFor(v) : Finalize(v, m)
        BY OtherStepsKeepFinal
    <2>2. PICK m \in VotesFor(v) : Finalize(v, m)
        BY <2>1
    <2> DEFINE d == [round |-> round[v], hash |-> proposal[v]]
    <2>3. /\ ~Decided(v) /\ proposal[v] \in Hashes /\ round[v] \in Rounds
        BY <2>2, CountableVote DEF Finalize, IInv, TypeOK
    <2>4. final' = [final EXCEPT ![v] =
             [round |-> round[v], hash |-> proposal[v], commits |-> Bucket(v, m)]]
        BY <2>2 DEF Finalize
    <2>5. final \in [Honest -> Blocks \cup {NoBlock}]
        BY DEF IInv, TypeOK
    <2>6. [w \in Honest |-> D(w)]' = [[w \in Honest |-> D(w)] EXCEPT ![v] = d]
        BY <2>4, <2>5
    <2>7. D(v) = None
        BY <2>3 DEF Decided, NoBlock
    <2>8. \A u \in Honest : D(u) # None /\ D(u).round = d.round => D(u) = d
        <3> SUFFICES ASSUME NEW u \in Honest, D(u) # None, D(u).round = d.round
                     PROVE  D(u) = d
            OBVIOUS
        <3>1. Decided(u) /\ u # v
            BY <2>7 DEF Decided, NoBlock
        <3>2. final'[u] = final[u] /\ final'[v].round = d.round /\ final'[v].hash = d.hash
            BY <2>4, <2>5, <3>1
        <3>3. final'[v] # NoBlock
            BY <2>3, <3>2, HashAssumption DEF NoBlock
        <3>4. SameRoundAgreement'
            BY AgreementFromInv, PTL
        <3>5. final'[u].hash = final'[v].hash
            BY <3>1, <3>2, <3>3, <3>4 DEF SameRoundAgreement, Decided
        <3> QED BY <3>2, <3>5
    <2>9. d \in Finality!Decisions
        BY <2>3 DEF Finality!Decisions
    <2> HIDE DEF d
    <2> QED BY <2>6, <2>7, <2>8, <2>9 DEF Finality!Next, Finality!Decide
<1> QED BY <1>1, <1>2, InvariantHolds, PTL DEF Spec, ImplementsRoundFinality, Finality!Spec
=============================================================================
