------------------------------- MODULE Staking -------------------------------
(***************************************************************************)
(* Stake from submission to reward: the validator election (election.rs,   *)
(* calculate_actual_stake in onx-consensus/lib.rs), slashing and epoch     *)
(* rewards (slashing.rs), and the split of transaction fees.               *)
(*                                                                         *)
(* The election sorts candidates by descending stake, then by key; a       *)
(* candidate's place is the number of candidates before it, so that no     *)
(* list has to be sorted.  Amounts are small, U64 and the load factors     *)
(* keep their meaning: a cap is truncated modulo U64.                      *)
(***************************************************************************)
EXTENDS Integers, Sequences, FiniteSets, Sums

CONSTANTS
    Offers,         \* submissions tried: [key, stake, factor], factors in hundredths
    U64,            \* 2^64, scaled
    MaxLoadFactor,  \* max_load_factor_scaled
    ValidatorCap,   \* validator_cap
    EpochsPerYear,  \* the values tried
    Fees,           \* transaction fees tried
    MaxCandidates,  \* bound: submissions to one election
    MaxSlashes      \* bound: slashings

ASSUME StakingAssumption ==
    /\ Offers \subseteq [key : Nat, stake : 0..(U64 - 1), factor : Nat]
    /\ U64 \in Nat \ {0} /\ MaxLoadFactor \in Nat /\ ValidatorCap \in Nat
    /\ EpochsPerYear \subseteq Nat /\ Fees \subseteq Nat /\ MaxSlashes \in Nat

VARIABLES
    candidates,  \* submissions, in the order they came
    ledger,      \* per candidate: [proposed, elected, locked, refunded, debited]
    slashes,     \* slashings so far
    minimum,     \* the stake of the last candidate elected
    minted,      \* the epoch reward to be paid out
    rewards,     \* what each validator got of it, in the order of the ids: [validator, amount]
    fees         \* [total, burned, paid]

stakingVars == <<candidates, ledger, slashes, minimum, minted, rewards, fees>>

NONE == [k \in {} |-> 0]

StakingInit ==
    /\ candidates = <<>> /\ ledger = NONE /\ slashes = 0 /\ minimum = 0
    /\ minted = 0 /\ rewards = <<>> /\ fees = [total |-> 0, burned |-> 0, paid |-> 0]

-----------------------------------------------------------------------------
(* The election. *)

MIN_LOAD_FACTOR_SCALED == 100

Submit(offer) ==
    /\ ledger = NONE /\ Len(candidates) < MaxCandidates
    /\ candidates' = Append(candidates, offer)
    /\ UNCHANGED <<ledger, slashes, minimum, minted, rewards, fees>>

CandidatesValid ==
    /\ \A i \in DOMAIN candidates :
           /\ candidates[i].stake # 0
           /\ candidates[i].factor \in MIN_LOAD_FACTOR_SCALED..MaxLoadFactor
    /\ \A i, j \in DOMAIN candidates : candidates[i].key = candidates[j].key => i = j

Precedes(c, d) == c.stake > d.stake \/ (c.stake = d.stake /\ c.key < d.key)

\* The index of a candidate after the sort.
Place(i) == Cardinality({j \in DOMAIN candidates : Precedes(candidates[j], candidates[i])})

SelectedCount == IF Len(candidates) < ValidatorCap THEN Len(candidates) ELSE ValidatorCap

LastSelected == CHOOSE i \in DOMAIN candidates : Place(i) = SelectedCount - 1

\* (Slip: the cap is not a minimum.)
calculate_actual_stake_uncapped(stake, factor, min) == ((factor * min) \div 100) % U64

\* min(proposed, cap), the cap truncated to 64 bits.
calculate_actual_stake(stake, factor, min) ==
    LET cap == ((factor * min) \div 100) % U64 IN IF stake < cap THEN stake ELSE cap

\* A refused election changes nothing.
RunElection ==
    /\ ledger = NONE
    /\ ValidatorCap # 0 /\ CandidatesValid /\ SelectedCount # 0
    /\ minimum' = candidates[LastSelected].stake
    /\ ledger' =
         [k \in {candidates[i].key : i \in DOMAIN candidates} |->
            LET i      == CHOOSE j \in DOMAIN candidates : candidates[j].key = k
                locked == IF Place(i) < SelectedCount
                          THEN calculate_actual_stake(candidates[i].stake, candidates[i].factor, minimum')
                          ELSE 0
            IN [proposed |-> candidates[i].stake, elected |-> Place(i) < SelectedCount,
                locked |-> locked, refunded |-> candidates[i].stake - locked, debited |-> 0]]
    /\ UNCHANGED <<candidates, slashes, minted, rewards, fees>>

Elected == {k \in DOMAIN ledger : ledger[k].elected}

-----------------------------------------------------------------------------
(* Slashing and rewards. *)

BasisPoints == [DoubleSigning |-> 10000, PersistentOffline |-> 1000]

\* slash_for_misconduct with apply_slash, rounding down.
Slash(k, reason) ==
    LET debit == (ledger[k].locked * BasisPoints[reason]) \div 10000
    IN /\ slashes < MaxSlashes /\ slashes' = slashes + 1
       /\ ledger' = [ledger EXCEPT ![k].locked = @ - debit, ![k].debited = @ + debit]
       /\ UNCHANGED <<candidates, minimum, minted, rewards, fees>>

ANNUAL_INFLATION_RATE_BPS == 175

\* calculate_epoch_inflation_reward
EpochReward(total, epochs) == ((total * ANNUAL_INFLATION_RATE_BPS) \div 10000) \div epochs

Share(reward, stake, total) == (reward * stake) \div total

\* (Slip: the remainder of the division is dropped.)
DistributeFloor(stake, n, reward) == [i \in 1..n |-> Share(reward, stake[i], SumTo(stake, n))]

\* Floor shares of n validators, and the remainder one by one.
Distribute(stake, n, reward) ==
    LET share == [i \in 1..n |-> Share(reward, stake[i], SumTo(stake, n))]
        left  == reward - SumTo(share, n)
    IN [i \in 1..n |-> share[i] + IF i <= left THEN 1 ELSE 0]

\* A validator's id is its place in the election.
Ahead(k, validators) ==
    {j \in validators : Precedes([key |-> j, stake |-> ledger[j].proposed],
                                 [key |-> k, stake |-> ledger[k].proposed])}

InIdOrder(validators) ==
    [i \in 1..Cardinality(validators) |-> CHOOSE k \in validators : Cardinality(Ahead(k, validators)) = i - 1]

\* distribute_epoch_rewards to the validators that performed.
DistributeEpochRewards(performing, epochs) ==
    LET n     == Cardinality(performing)
        order == InIdOrder(performing)
        stake == [i \in 1..n |-> ledger[order[i]].locked]
    IN /\ performing # {} /\ \A k \in performing : ledger[k].locked # 0
       /\ epochs # 0
       /\ minted' = EpochReward(SumTo(stake, n), epochs)
       /\ LET amount == Distribute(stake, n, minted')
          IN rewards' = [i \in 1..n |-> [validator |-> order[i], amount |-> amount[i]]]
       /\ UNCHANGED <<candidates, ledger, slashes, minimum, fees>>

FEE_BURN_RATIO_PERCENT == 50

\* split_transaction_fee
CollectFee(fee) ==
    LET burned == (fee * FEE_BURN_RATIO_PERCENT) \div 100
    IN /\ fees' = [total |-> fee, burned |-> burned, paid |-> fee - burned]
       /\ UNCHANGED <<candidates, ledger, slashes, minimum, minted, rewards>>

StakingNext ==
    \/ \E o \in Offers : Submit(o)
    \/ RunElection
    \/ \E k \in Elected, r \in DOMAIN BasisPoints : Slash(k, r)
    \/ \E p \in SUBSET Elected, e \in EpochsPerYear : DistributeEpochRewards(p, e)
    \/ ledger # NONE /\ \E f \in Fees : CollectFee(f)

StakingSpec == StakingInit /\ [][StakingNext]_stakingVars

-----------------------------------------------------------------------------
StakingTypeOK ==
    /\ candidates \in Seq(Offers)
    /\ DOMAIN ledger \subseteq {o.key : o \in Offers}
    /\ \A k \in DOMAIN ledger :
           {ledger[k].locked, ledger[k].refunded, ledger[k].debited} \subseteq 0..(U64 - 1)
    /\ slashes \in 0..MaxSlashes /\ minimum \in 0..(U64 - 1) /\ minted \in Nat
    /\ rewards \in Seq([validator : DOMAIN ledger, amount : Nat])

StakesAddUp ==
    \A k \in DOMAIN ledger :
        /\ ledger[k].proposed = ledger[k].locked + ledger[k].refunded + ledger[k].debited
        /\ ~ledger[k].elected =>
               ledger[k].refunded = ledger[k].proposed /\ ledger[k].proposed <= minimum
        /\ ledger[k].elected => ledger[k].proposed >= minimum
        /\ ledger[k].elected /\ MaxLoadFactor * minimum < 100 * U64 =>
               \E i \in DOMAIN candidates :
                   /\ candidates[i].key = k
                   /\ ledger[k].locked + ledger[k].debited =
                        IF ledger[k].proposed * 100 <= candidates[i].factor * minimum
                        THEN ledger[k].proposed ELSE (candidates[i].factor * minimum) \div 100

RewardsAddUp ==
    /\ SumTo([i \in 1..Len(rewards) |-> rewards[i].amount], Len(rewards)) = minted
    /\ fees.total = fees.burned + fees.paid

(* Every candidate's stake is locked, refunded or debited, to the last      *)
(* unit, through elections and repeated slashing; a candidate left out      *)
(* proposed no more than any elected one and gets everything back; unless   *)
(* the cap overflows 64 bits the elected lock what they proposed or their   *)
(* load factor times the least elected stake.  And the rewards paid out are *)
(* exactly the epoch reward, whoever was slashed before, and a fee is       *)
(* burned or paid: rounding neither creates nor loses a unit.               *)
StakesAccounted == StakesAddUp /\ RewardsAddUp
=============================================================================
