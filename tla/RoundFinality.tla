--------------------------- MODULE RoundFinality ---------------------------
(***************************************************************************)
(* What the consensus engines of one height promise together: a validator  *)
(* decides at most once and never changes its mind, and the validators     *)
(* that decide in the same round decide the same block.  Nothing is        *)
(* promised across rounds.                                                 *)
(***************************************************************************)
EXTENDS Integers

CONSTANTS Deciders, Rounds, Hashes, Undecided

VARIABLE decision

Decisions == [round : Rounds, hash : Hashes]

Init == decision = [v \in Deciders |-> Undecided]

Decide(v, d) ==
    /\ decision[v] = Undecided
    /\ \A u \in Deciders : /\ decision[u] # Undecided
                           /\ decision[u].round = d.round
                           => decision[u] = d
    /\ decision' = [decision EXCEPT ![v] = d]

Next == \E v \in Deciders, d \in Decisions : Decide(v, d)

Spec == Init /\ [][Next]_decision
=============================================================================
