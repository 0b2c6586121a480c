---------------------------- MODULE MCConsensus ----------------------------
(***************************************************************************)
(* Small instances of ConsensusEngine: three validators of unequal stake.  *)
(***************************************************************************)
EXTENDS ConsensusEngine, TLC

\* Supermajorities are {0,1}, {1,2} and all three: validator 0, leader of
\* round 0, may be Byzantine (2 of 7).
LeaderFaultyStake == (0 :> 2) @@ (1 :> 3) @@ (2 :> 2)

\* Supermajorities are {0,1}, {1,2} and all three, and validator 2 (1 of 6)
\* may be Byzantine.
SmallFaultyStake == (0 :> 2) @@ (1 :> 3) @@ (2 :> 1)

\* RoundTimeouts: one tick for every step.
OneTick == [s \in Steps \ {"Finalized"} |-> 1]

\* Block hashes are only compared for equality.
HashSymmetry == Permutations(Hashes)
=============================================================================
