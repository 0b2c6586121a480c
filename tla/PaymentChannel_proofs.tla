----------------------- MODULE PaymentChannel_proofs -----------------------
(***************************************************************************)
(* The channel's safety for every deposit, window and bound: each entry    *)
(* point of the daemon either refuses a state or puts the same, jointly    *)
(* signed and covered state into the arbiter and into the daemon's map.    *)
(***************************************************************************)
EXTENDS PaymentChannel, TLAPS

ArbiterTypeOK ==
    /\ now \in Times /\ signed \subseteq States
    /\ latest \in States /\ mirror \in States
    /\ start \in Times \cup {Never} /\ highest \in 0 .. MaxSeq

FlagsTypeOK ==
    /\ settled \in BOOLEAN
    /\ watcher \in [start : Times \cup {Never}, settled : BOOLEAN] \cup {Never}

LEMMA TypeSplit == ChannelTypeOK <=> ArbiterTypeOK /\ FlagsTypeOK
  BY DEF ChannelTypeOK, ArbiterTypeOK, FlagsTypeOK

(* Accepting a signed, covered state keeps every part of the invariant that
   does not depend on the settled flag. *)
LEMMA AcceptKeeps ==
    ASSUME ChannelInv, NEW st \in signed, WithinDeposit(st), Accept(st),
           start' \in Times \cup {Never}
    PROVE  /\ ArbiterTypeOK' /\ watcher' = watcher
           /\ AllocationIsCovered' /\ MirrorFollowsArbiter'
           /\ st.seq > latest.seq /\ latest.seq = highest => latest'.seq = highest'
<1>1. ArbiterTypeOK /\ st \in States
  BY TypeSplit DEF ChannelInv, ArbiterTypeOK
<1>2. /\ latest' = st /\ mirror' = st /\ UNCHANGED <<now, signed, watcher>>
      /\ highest' = IF st.seq > highest THEN st.seq ELSE highest
  BY DEF Accept
<1>3. st.seq \in 0 .. MaxSeq
  BY <1>1 DEF States
<1>4. ArbiterTypeOK'
  BY <1>1, <1>2, <1>3 DEF ArbiterTypeOK
<1>5. AllocationIsCovered' /\ MirrorFollowsArbiter'
  BY <1>2 DEF AllocationIsCovered, MirrorFollowsArbiter, WithinDeposit
<1>6. st.seq > latest.seq /\ latest.seq = highest => latest'.seq = highest'
  BY <1>2
<1> QED BY <1>2, <1>4, <1>5, <1>6

(* Every step preserves the invariant. *)
LEMMA StepInvariant == ChannelInv /\ [ChannelNext]_channelVars => ChannelInv'
<1> SUFFICES ASSUME ChannelInv, [ChannelNext]_channelVars PROVE ChannelInv'
  OBVIOUS
<1>0. /\ ArbiterTypeOK /\ FlagsTypeOK /\ AllocationIsCovered /\ MirrorFollowsArbiter
      /\ (~settled => latest.seq = highest)
      /\ now \in Times /\ start \in Times \cup {Never}
  BY TypeSplit DEF ChannelInv, NoRollbackBeforeSettlement, ArbiterTypeOK
<1>1. ASSUME Tick PROVE ChannelInv'
  <2>1. ArbiterTypeOK'
    BY <1>0, <1>1, TimeAssumption DEF Tick, ArbiterTypeOK, Times, arbiter
  <2>2. UNCHANGED <<signed, latest, start, settled, mirror, watcher, highest>>
    BY <1>1 DEF Tick, arbiter
  <2> QED BY <1>0, <2>1, <2>2, TypeSplit DEF ChannelInv, FlagsTypeOK, AllocationIsCovered,
                MirrorFollowsArbiter, NoRollbackBeforeSettlement, ChannelTypeOK, ArbiterTypeOK
<1>2. ASSUME NEW st \in States, Sign(st) PROVE ChannelInv'
  <2>1. /\ UNCHANGED <<now, latest, start, settled, mirror, watcher, highest>>
        /\ signed' = signed \cup {st}
    BY <1>2 DEF Sign, arbiter
  <2> QED BY <1>0, <2>1 DEF ChannelInv, FlagsTypeOK, AllocationIsCovered,
                MirrorFollowsArbiter, NoRollbackBeforeSettlement, ChannelTypeOK, ArbiterTypeOK
\* A state is accepted while the channel stays as settled as it was.
<1>3. ASSUME NEW st \in signed, WithinDeposit(st), Accept(st), st.seq > latest.seq,
             start' \in Times \cup {Never}, settled' \in BOOLEAN, settled => settled'
      PROVE  ChannelInv'
  <2>1. /\ ArbiterTypeOK' /\ watcher' = watcher
        /\ AllocationIsCovered' /\ MirrorFollowsArbiter'
        /\ latest.seq = highest => latest'.seq = highest'
    BY <1>3, AcceptKeeps
  <2>2. FlagsTypeOK'
    BY <1>0, <1>3, <2>1 DEF FlagsTypeOK
  <2>3. NoRollbackBeforeSettlement'
    BY <1>0, <1>3, <2>1 DEF NoRollbackBeforeSettlement
  <2> QED BY <2>1, <2>2, <2>3 DEF ChannelInv, ChannelTypeOK, ArbiterTypeOK, FlagsTypeOK
<1>4. ASSUME NEW st \in States, ExchangeSignedState(st) PROVE ChannelInv'
  <2>1. /\ st \in signed /\ WithinDeposit(st) /\ Accept(st) /\ st.seq > latest.seq
        /\ UNCHANGED <<start, settled>>
    BY <1>0, <1>4 DEF ExchangeSignedState, MirrorFollowsArbiter
  <2> QED BY <1>0, <1>3, <2>1 DEF FlagsTypeOK
<1>5. ASSUME NEW st \in States, SubmitDispute(st) PROVE ChannelInv'
  <2>1. /\ st \in signed /\ WithinDeposit(st) /\ Accept(st) /\ st.seq > latest.seq
        /\ start' = now /\ UNCHANGED settled
    BY <1>5 DEF SubmitDispute
  <2> QED BY <1>0, <1>3, <2>1 DEF FlagsTypeOK
<1>6. ASSUME NEW st \in States, RunFlowDispute(st) PROVE ChannelInv'
  <2>1. /\ st \in signed /\ WithinDeposit(st) /\ Accept(st) /\ st.seq > latest.seq
        /\ start' = now
    BY <1>6 DEF RunFlowDispute
  <2>2. settled' \in BOOLEAN /\ (settled => settled')
    BY <1>6 DEF RunFlowDispute
  <2> QED BY <1>0, <1>3, <2>1, <2>2
<1>7. ASSUME NEW st \in States, CooperativeSettle(st) PROVE ChannelInv'
  <2>1. /\ st \in signed /\ WithinDeposit(st) /\ Accept(st)
        /\ UNCHANGED start /\ settled' = TRUE
    BY <1>7 DEF CooperativeSettle
  <2>2. /\ ArbiterTypeOK' /\ watcher' = watcher
        /\ AllocationIsCovered' /\ MirrorFollowsArbiter'
    BY <1>0, <2>1, AcceptKeeps
  <2>3. FlagsTypeOK' /\ NoRollbackBeforeSettlement'
    BY <1>0, <2>1, <2>2 DEF FlagsTypeOK, NoRollbackBeforeSettlement
  <2> QED BY <2>2, <2>3 DEF ChannelInv, ChannelTypeOK, ArbiterTypeOK, FlagsTypeOK
<1>8. ASSUME FinalizeDispute PROVE ChannelInv'
  <2>1. /\ UNCHANGED <<now, signed, latest, start, mirror, watcher, highest>>
        /\ settled' = TRUE
    BY <1>8 DEF FinalizeDispute
  <2> QED BY <1>0, <2>1 DEF ChannelInv, FlagsTypeOK, AllocationIsCovered,
                MirrorFollowsArbiter, NoRollbackBeforeSettlement, ChannelTypeOK, ArbiterTypeOK
<1>9. ASSUME SpawnWatcher \/ WatcherTick PROVE ChannelInv'
  <2>1. UNCHANGED <<now, signed, latest, start, settled, mirror, highest>>
    BY <1>9 DEF SpawnWatcher, WatcherTick, arbiter
  <2>2. watcher' \in [start : Times \cup {Never}, settled : BOOLEAN] \cup {Never}
    <3>1. CASE SpawnWatcher
      <4>1. watcher' = [start |-> start, settled |-> settled]
        BY <3>1 DEF SpawnWatcher
      <4> QED BY <1>0, <4>1 DEF FlagsTypeOK
    <3>2. CASE WatcherTick
      <4>1. watcher \in [start : Times \cup {Never}, settled : BOOLEAN]
        BY <1>0, <3>2 DEF WatcherTick, FlagsTypeOK
      <4>2. watcher' = [watcher EXCEPT !.settled = TRUE]
        BY <3>2 DEF WatcherTick
      <4> QED BY <4>1, <4>2
    <3> QED BY <1>9, <3>1, <3>2
  <2> QED BY <1>0, <2>1, <2>2 DEF ChannelInv, FlagsTypeOK, AllocationIsCovered,
                MirrorFollowsArbiter, NoRollbackBeforeSettlement, ChannelTypeOK, ArbiterTypeOK
<1>10. CASE UNCHANGED channelVars
  BY <1>0, <1>10 DEF channelVars, ChannelInv, FlagsTypeOK, AllocationIsCovered,
                MirrorFollowsArbiter, NoRollbackBeforeSettlement, ChannelTypeOK, ArbiterTypeOK
<1> QED BY <1>1, <1>2, <1>4, <1>5, <1>6, <1>7, <1>8, <1>9, <1>10
        DEF ChannelNext, RunFlowExchange

(* The invariant holds in every reachable state. *)
THEOREM InvariantHolds == ChannelSpec => []ChannelInv
<1>1. ChannelInit => ChannelInv
  <2> SUFFICES ASSUME ChannelInit PROVE ChannelInv
    OBVIOUS
  <2>1. Opening \in States
    BY DepositAssumption, SeqAssumption DEF Opening, States
  <2>2. ArbiterTypeOK /\ FlagsTypeOK
    <3>1. ArbiterTypeOK
      BY <2>1, TimeAssumption, SeqAssumption DEF ChannelInit, ArbiterTypeOK, Times
    <3>2. FlagsTypeOK
      BY DEF ChannelInit, FlagsTypeOK
    <3> QED BY <3>1, <3>2
  <2>3. AllocationIsCovered /\ MirrorFollowsArbiter /\ NoRollbackBeforeSettlement
    BY DepositAssumption DEF ChannelInit, Opening, AllocationIsCovered,
       MirrorFollowsArbiter, NoRollbackBeforeSettlement
  <2> QED BY <2>2, <2>3, TypeSplit DEF ChannelInv
<1> QED BY <1>1, StepInvariant, PTL DEF ChannelSpec

(* Whatever the arbiter would pay out was signed by both parties and is
   covered by the deposit. *)
THEOREM PayoutsAreCovered == ChannelSpec => []AllocationIsCovered
<1>1. ChannelInv => AllocationIsCovered
  BY DEF ChannelInv
<1> QED BY <1>1, InvariantHolds, PTL

(* The daemon's map and the arbiter hold the same state. *)
THEOREM MirrorIsCurrent == ChannelSpec => []MirrorFollowsArbiter
<1>1. ChannelInv => MirrorFollowsArbiter
  BY DEF ChannelInv
<1> QED BY <1>1, InvariantHolds, PTL

(* Before settlement the channel is never rolled back. *)
THEOREM NoRollback == ChannelSpec => []NoRollbackBeforeSettlement
<1>1. ChannelInv => NoRollbackBeforeSettlement
  BY DEF ChannelInv
<1> QED BY <1>1, InvariantHolds, PTL

(* The arbiter, the daemon's map and the watcher's clone stay well-typed:   *)
(* no entry point records a time or a sequence out of range.                *)
THEOREM TypeCorrect == ChannelSpec => []ChannelTypeOK
<1>1. ChannelInv => ChannelTypeOK
  BY DEF ChannelInv
<1> QED BY <1>1, InvariantHolds, PTL
=============================================================================
