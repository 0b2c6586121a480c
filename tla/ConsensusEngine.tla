-------------------------- MODULE ConsensusEngine --------------------------
(***************************************************************************)
(* The Catchain BFT engine of onx-consensus (engine.rs): one engine per    *)
(* honest validator, all deciding the block of ONE shard height, fed by a  *)
(* multicast network that may lose, delay, duplicate and reorder.          *)
(*                                                                         *)
(* Messages of another shard or height are rejected before anything is     *)
(* read or written (engine.rs:190, 225) and are left out.  Every other     *)
(* early return of a handler is a conjunct of its action: a message the    *)
(* handler refuses changes nothing.                                        *)
(***************************************************************************)
EXTENDS Integers, FiniteSets

CONSTANTS
    N,          \* number of validators; ids are their ranks in the BTreeMap
    Stake,      \* actual_stake of every validator
    MaxStake,   \* bound on a single stake
    Byzantine,  \* validators that sign whatever they like
    Hashes,     \* block hashes that may be proposed
    NoHash,     \* None, where the code has an Option of a hash
    Timeout,    \* RoundTimeouts, by step
    MaxRound,   \* bound on rounds (the code's u32 is never exhausted)
    MaxTime     \* bound on the caller's monotonic clock

Validators == 0 .. (N - 1)
Honest     == Validators \ Byzantine
Phases     == {"PreVote", "PreCommit", "Commit"}
Steps      == {"Proposal", "Finalized"} \cup Phases
\* phase_rank, extended to the steps: how far into the round an engine is.
Rank == [Proposal |-> 0, PreVote |-> 1, PreCommit |-> 2, Commit |-> 3,
         Finalized |-> 4]
Rounds     == 0 .. MaxRound
NoBlock    == [round |-> -1, hash |-> NoHash, commits |-> {}]

(***************************************************************************)
(* A stake is counted as the set of its units, so that the stake of a set  *)
(* of validators is a cardinality.  The u64 sums of the code saturate;     *)
(* stakes are assumed to sum to less than 2^64.                            *)
(***************************************************************************)
Units(S)   == {u \in S \X (1 .. MaxStake) : u[2] <= Stake[u[1]]}
StakeOf(S) == Cardinality(Units(S))

\* (A slip the runs must notice: a bare majority taken for a supermajority.)
BareMajorities ==
    {S \in SUBSET Validators : 2 * StakeOf(S) >= StakeOf(Validators)}

\* The sets of voters for which has_supermajority holds: three times their
\* stake against twice the total.
Supermajorities ==
    {S \in SUBSET Validators : 3 * StakeOf(S) >= 2 * StakeOf(Validators)}

ASSUME CountAssumption   == N \in Nat \ {0}
ASSUME StakeAssumption   ==
    MaxStake \in Nat /\ Stake \in [Validators -> 0 .. MaxStake]
\* ConsensusEngine::new refuses a validator set without stake.
ASSUME TotalAssumption   == StakeOf(Validators) > 0
\* The BFT premise: less than a third of the stake is faulty.
ASSUME FaultAssumption   ==
    Byzantine \subseteq Validators /\ 3 * StakeOf(Byzantine) < StakeOf(Validators)
ASSUME HashAssumption    == NoHash \notin Hashes
ASSUME TimeoutAssumption == Timeout \in [Steps \ {"Finalized"} -> Nat]
ASSUME BoundAssumption   == MaxRound \in Nat /\ MaxTime \in Nat

\* What a proposer signs, and what a voter signs, at this height.
Proposals == [round : Rounds, hash : Hashes, proposer : Validators]
Votes     == [round : Rounds, phase : Phases, hash : Hashes, from : Validators]

VoteOf(u, r, ph, h) == [round |-> r, phase |-> ph, hash |-> h, from |-> u]

Blocks == [round : Rounds, hash : Hashes, commits : SUBSET Validators]

VARIABLES
    now,        \* the clock every node passes to on_timeout
    startedAt,  \* round_started_at
    round, step,
    proposal,   \* hash of the proposal held, or NoHash
    votes,      \* voters counted, by phase
    final,      \* the FinalizedBlock, or NoBlock
    proposed,   \* proposals signed by honest leaders so far
    cast        \* votes signed by honest validators so far

engines == <<startedAt, round, step, proposal, votes, final>>
signed  == <<proposed, cast>>
vars    == <<now, startedAt, round, step, proposal, votes, final, proposed, cast>>

\* leader(): the (round mod n)-th validator id in ascending order.
Leader(r) == r % N

\* A signature verifies iff its owner made it; faulty owners make all of them.
ProposalVerifies(p) == p.proposer \in Byzantine \/ p \in proposed
VoteVerifies(m)     == m.from \in Byzantine \/ m \in cast

NoVotes == [ph \in Phases |-> {}]

Init ==
    /\ now = 0
    /\ startedAt = [v \in Honest |-> 0]
    /\ round     = [v \in Honest |-> 0]
    /\ step      = [v \in Honest |-> "Proposal"]
    /\ proposal  = [v \in Honest |-> NoHash]
    /\ votes     = [v \in Honest |-> NoVotes]
    /\ final     = [v \in Honest |-> NoBlock]
    /\ proposed = {} /\ cast = {}

-----------------------------------------------------------------------------
(***************************************************************************)
(* The callers.  An honest leader signs one proposal of a round it is in;  *)
(* an honest validator signs, for the proposal its engine holds, one vote  *)
(* of each phase its engine has reached, at once or later.                 *)
(***************************************************************************)
Propose(v, h) ==
    /\ v = Leader(round[v])
    /\ step[v] = "Proposal"
    /\ ~\E p \in proposed : p.round = round[v] /\ p.proposer = v
    /\ proposed' = proposed \cup
           {[round |-> round[v], hash |-> h, proposer |-> v]}
    /\ UNCHANGED <<now, engines, cast>>

\* (A slip the runs must notice: signing before there is a proposal.)
CastVoteTooEarly(v, ph) ==
    /\ VoteOf(v, round[v], ph, proposal[v]) \notin cast
    /\ cast' = cast \cup {VoteOf(v, round[v], ph, proposal[v])}
    /\ UNCHANGED <<now, engines, proposed>>

CastVote(v, ph) ==
    /\ Rank[ph] <= Rank[step[v]]
    /\ VoteOf(v, round[v], ph, proposal[v]) \notin cast
    /\ cast' = cast \cup {VoteOf(v, round[v], ph, proposal[v])}
    /\ UNCHANGED <<now, engines, proposed>>

-----------------------------------------------------------------------------
\* (A slip the runs must notice: a later proposal replaces the one held.)
ReceiveProposalReplacing(v, p) ==
    /\ step[v] # "Finalized"
    /\ p.round = round[v]
    /\ p.proposer = Leader(round[v])
    /\ ProposalVerifies(p)
    /\ proposal' = [proposal EXCEPT ![v] = p.hash]
    /\ step' = [step EXCEPT ![v] = "PreVote"]
    /\ UNCHANGED <<now, startedAt, round, votes, final, signed>>

\* receive_proposal: the leader's first proposal of the current round.
ReceiveProposal(v, p) ==
    /\ step[v] # "Finalized"
    /\ p.round = round[v]
    /\ p.proposer = Leader(round[v])
    /\ ProposalVerifies(p)
    /\ proposal[v] = NoHash
    /\ proposal' = [proposal EXCEPT ![v] = p.hash]
    /\ step' = [step EXCEPT ![v] = "PreVote"]
    /\ UNCHANGED <<now, startedAt, round, votes, final, signed>>

\* A vote receive_vote counts: this round, this block, the expected phase,
\* authentic and not counted before.  A late vote of an earlier phase, and an
\* early one of a later phase, are dropped.
Countable(v, m) ==
    /\ m.round = round[v]
    /\ m.hash = proposal[v]
    /\ step[v] \in Phases
    /\ VoteVerifies(m)
    /\ m.phase = step[v]
    /\ m.from \notin votes[v][m.phase]

Bucket(v, m) == votes[v][m.phase] \cup {m.from}

\* receive_vote, when the counted vote leaves the phase short of a quorum.
ReceiveVote(v, m) ==
    /\ Countable(v, m)
    /\ Bucket(v, m) \notin Supermajorities
    /\ votes' = [votes EXCEPT ![v][m.phase] = Bucket(v, m)]
    /\ UNCHANGED <<now, startedAt, round, step, proposal, final, signed>>

\* (A slip the runs must notice: the PreVote quorum skips PreCommit.)
AdvancePhaseSkipping(v, m) ==
    /\ Countable(v, m)
    /\ Bucket(v, m) \in Supermajorities
    /\ m.phase # "Commit"
    /\ votes' = [votes EXCEPT ![v][m.phase] = Bucket(v, m)]
    /\ step' = [step EXCEPT ![v] = "Commit"]
    /\ UNCHANGED <<now, startedAt, round, proposal, final, signed>>

\* receive_vote, when it completes the PreVote or PreCommit quorum.
AdvancePhase(v, m) ==
    /\ Countable(v, m)
    /\ Bucket(v, m) \in Supermajorities
    /\ m.phase # "Commit"
    /\ votes' = [votes EXCEPT ![v][m.phase] = Bucket(v, m)]
    /\ step' = [step EXCEPT ![v] =
                   IF m.phase = "PreVote" THEN "PreCommit" ELSE "Commit"]
    /\ UNCHANGED <<now, startedAt, round, proposal, final, signed>>

\* receive_vote, when it completes the Commit quorum: the bucket moves into
\* the finalized block as its evidence.
Finalize(v, m) ==
    /\ Countable(v, m)
    /\ Bucket(v, m) \in Supermajorities
    /\ m.phase = "Commit"
    /\ votes' = [votes EXCEPT ![v]["Commit"] = {}]
    /\ final' = [final EXCEPT ![v] =
          [round |-> round[v], hash |-> proposal[v], commits |-> Bucket(v, m)]]
    /\ step' = [step EXCEPT ![v] = "Finalized"]
    /\ UNCHANGED <<now, startedAt, round, proposal, signed>>

\* (Slips the runs must notice: votes survive the view change; the proposal
\* does; a finalized engine opens a new view.)
NextView(v) ==
    /\ round[v] < MaxRound
    /\ round' = [round EXCEPT ![v] = @ + 1]
    /\ startedAt' = [startedAt EXCEPT ![v] = now]
    /\ step' = [step EXCEPT ![v] = "Proposal"]
    /\ UNCHANGED <<now, final, signed>>

OnTimeoutKeepingVotes(v) ==
    /\ step[v] # "Finalized" /\ now - startedAt[v] >= Timeout[step[v]]
    /\ NextView(v)
    /\ proposal' = [proposal EXCEPT ![v] = NoHash]
    /\ UNCHANGED votes

OnTimeoutKeepingProposal(v) ==
    /\ step[v] # "Finalized" /\ now - startedAt[v] >= Timeout[step[v]]
    /\ NextView(v)
    /\ votes' = [votes EXCEPT ![v] = NoVotes]
    /\ UNCHANGED proposal

OnTimeoutAfterFinality(v) ==
    /\ now - startedAt[v] >= Timeout["Commit"]
    /\ NextView(v)
    /\ proposal' = [proposal EXCEPT ![v] = NoHash]
    /\ votes' = [votes EXCEPT ![v] = NoVotes]

\* on_timeout: the round's age, not the step's, is held against the deadline
\* of the step.
OnTimeout(v) ==
    /\ step[v] # "Finalized"
    /\ now - startedAt[v] >= Timeout[step[v]]
    /\ round[v] < MaxRound
    /\ round' = [round EXCEPT ![v] = @ + 1]
    /\ startedAt' = [startedAt EXCEPT ![v] = now]
    /\ step' = [step EXCEPT ![v] = "Proposal"]
    /\ proposal' = [proposal EXCEPT ![v] = NoHash]
    /\ votes' = [votes EXCEPT ![v] = NoVotes]
    /\ UNCHANGED <<now, final, signed>>

Tick ==
    /\ now < MaxTime
    /\ now' = now + 1
    /\ UNCHANGED <<engines, signed>>

\* Messages that could be delivered to v now: the network holds every message
\* ever signed, so loss, delay, duplication and reordering are all there.
ProposalsFor(v) == [round : {round[v]}, hash : Hashes, proposer : {Leader(round[v])}]
VotesFor(v) ==
    [round : {round[v]}, phase : Phases, hash : {proposal[v]} \ {NoHash},
     from : Validators]

Next ==
    \/ Tick
    \/ \E v \in Honest :
          \/ \E h \in Hashes : Propose(v, h)
          \/ \E ph \in Phases : CastVote(v, ph)
          \/ \E p \in ProposalsFor(v) : ReceiveProposal(v, p)
          \/ \E m \in VotesFor(v) :
                \/ ReceiveVote(v, m)
                \/ AdvancePhase(v, m)
                \/ Finalize(v, m)
          \/ OnTimeout(v)

Spec == Init /\ [][Next]_vars

-----------------------------------------------------------------------------
(***************************************************************************)
(* Fairness.  Every node keeps calling on_timeout (the 10 ms loop of       *)
(* onxd), signs what its engine lets it sign, and the transport keeps      *)
(* redelivering what honest nodes signed until it is of use: the engine    *)
(* drops an early vote and asks for no retransmission, so nothing weaker   *)
(* would do.  Nothing is assumed of Byzantine validators.                  *)
(***************************************************************************)
DeliverHonestVote(v) ==
    \E m \in VotesFor(v) :
        m.from \in Honest /\ (ReceiveVote(v, m) \/ AdvancePhase(v, m) \/ Finalize(v, m))

DeliverHonestProposal(v) ==
    \E p \in ProposalsFor(v) : p.proposer \in Honest /\ ReceiveProposal(v, p)

Fairness ==
    /\ WF_vars(Tick)
    /\ \A v \in Honest :
          /\ WF_vars(\E h \in Hashes : Propose(v, h))
          /\ WF_vars(\E ph \in Phases : CastVote(v, ph))
          /\ WF_vars(DeliverHonestProposal(v))
          /\ WF_vars(DeliverHonestVote(v))
          /\ WF_vars(OnTimeout(v))

FairSpec == Spec /\ Fairness

-----------------------------------------------------------------------------
TypeOK ==
    /\ now \in 0 .. MaxTime
    /\ startedAt \in [Honest -> 0 .. MaxTime]
    /\ round \in [Honest -> Rounds]
    /\ step \in [Honest -> Steps]
    /\ proposal \in [Honest -> Hashes \cup {NoHash}]
    /\ votes \in [Honest -> [Phases -> SUBSET Validators]]
    /\ final \in [Honest -> Blocks \cup {NoBlock}]
    /\ proposed \subseteq Proposals
    /\ cast \subseteq Votes

Decided(v) == final[v] # NoBlock

\* A supermajority signed phase ph for block h in round r.
Certified(r, ph, h) ==
    \E Q \in Supermajorities : \A u \in Q : VoteVerifies(VoteOf(u, r, ph, h))

(* Two engines that finalize in the same round finalize the same block, even
   when the leader of that round signed several proposals: receive_proposal
   keeps the first one and receive_vote counts votes for that one only. *)
SameRoundAgreement ==
    \A u, v \in Honest :
        Decided(u) /\ Decided(v) /\ final[u].round = final[v].round
            => final[u].hash = final[v].hash

(* A validator that signs what its engine shows never signs two blocks in one
   phase of one round, across any number of timeouts and conflicting
   proposals. *)
NoHonestEquivocation ==
    \A m, n \in cast :
        m.from = n.from /\ m.round = n.round /\ m.phase = n.phase => m.hash = n.hash

(* Every voter in a bucket signed that very phase of the block and round the
   engine is in: no vote survives a view change or crosses phases. *)
CountedVotesAreCurrent ==
    \A v \in Honest, ph \in Phases : \A u \in votes[v][ph] :
        VoteVerifies(VoteOf(u, round[v], ph, proposal[v]))

(* "A block is final only after a Commit quorum": a finalized block carries a
   supermajority of authentic Commit votes, and its PreVote and PreCommit
   supermajorities existed too, all three in the round it was finalized in. *)
FinalityHasQuorumChain ==
    \A v \in Honest : Decided(v) =>
        /\ final[v].commits \in Supermajorities
        /\ \A u \in final[v].commits :
              VoteVerifies(VoteOf(u, final[v].round, "Commit", final[v].hash))
        /\ \A ph \in {"PreVote", "PreCommit"} :
              Certified(final[v].round, ph, final[v].hash)

(* Together the engines implement the per-round finality register: decisions
   are made once, never revised by a later timeout, vote or proposal, and
   agree within a round. *)
Finality == INSTANCE RoundFinality WITH
    Deciders  <- Honest,
    Undecided <- [round |-> -1, hash |-> NoHash],
    decision  <- [v \in Honest |-> [round |-> final[v].round, hash |-> final[v].hash]]

ImplementsRoundFinality == Finality!Spec

(***************************************************************************)
(* The inductive strengthening behind the invariants above.                *)
(***************************************************************************)
\* An engine without a proposal is at the start of its round, and conversely.
ProposalOpensRound ==
    \A v \in Honest :
        /\ step[v] = "Proposal" <=> proposal[v] = NoHash
        /\ step[v] = "Proposal" => votes[v] = NoVotes

\* What a validator signed in its current round is its engine's proposal.
CastVotesFollowEngine ==
    \A m \in cast :
        /\ m.from \in Honest
        /\ m.round <= round[m.from]
        /\ m.round = round[m.from] => m.hash = proposal[m.from]

\* An engine past a phase still holds the supermajority that let it pass.
PassedPhasesHaveQuorum ==
    \A v \in Honest :
        /\ Rank[step[v]] >= 2 => votes[v]["PreVote"] \in Supermajorities
        /\ Rank[step[v]] >= 3 => votes[v]["PreCommit"] \in Supermajorities

\* A finalized engine stays in the round, and with the block, it finalized.
FinalBlockIsCurrent ==
    \A v \in Honest :
        /\ Decided(v) <=> step[v] = "Finalized"
        /\ Decided(v) =>
              /\ final[v].round = round[v] /\ final[v].hash = proposal[v]
              /\ final[v].commits \in Supermajorities
              /\ \A u \in final[v].commits :
                    VoteVerifies(VoteOf(u, final[v].round, "Commit", final[v].hash))

IInv ==
    /\ TypeOK
    /\ ProposalOpensRound
    /\ CastVotesFollowEngine
    /\ NoHonestEquivocation
    /\ CountedVotesAreCurrent
    /\ PassedPhasesHaveQuorum
    /\ FinalBlockIsCurrent

-----------------------------------------------------------------------------
(* The acceptance criterion of the multi-node simulation (development-tasks.md
   line 395, run_simulation.py line 18): nodes that agree on the height never
   finalize different blocks, whatever round each of them finalized in. *)
NoForkDivergence ==
    \A u, v \in Honest : Decided(u) /\ Decided(v) => final[u].hash = final[v].hash

(* With less than a third of the stake faulty, silent or equivocating, and a
   last round that is led by an honest validator and not cut short, some
   honest engine finalizes a block ("surviving 1 Byzantine offline validator
   without halting", development-tasks.md line 215). *)
SomeEngineFinalizes == <>(\E v \in Honest : step[v] = "Finalized")
=============================================================================
