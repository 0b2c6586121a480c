--------------------------- MODULE PaymentChannel ---------------------------
(***************************************************************************)
(* One payment channel of onx-payment-channels: the arbiter contract       *)
(* (lib.rs), the off-chain daemon that owns it (daemon.rs) and the         *)
(* background watcher the daemon spawns.                                   *)
(*                                                                         *)
(* A channel state is its sequence number and the two balances.  States of *)
(* another channel, and states without both signatures, are refused before *)
(* anything changes and are left out: the envelopes that reach the daemon  *)
(* are the ones both parties signed, at any later time and any number of   *)
(* times.                                                                  *)
(***************************************************************************)
EXTENDS Integers

CONSTANTS
    Deposit,   \* total_deposit
    Window,    \* challenge_window_lt
    MaxSum,    \* bound on what the parties may put into a state
    MaxSeq,    \* bound on sequence numbers
    MaxLt,     \* the largest logical time (u64::MAX in the code)
    Never      \* None, for challenge_start_lt; no watcher, for watcher

ASSUME DepositAssumption == Deposit \in Nat /\ MaxSum \in Nat /\ Deposit <= MaxSum
ASSUME TimeAssumption    == Window \in Nat /\ MaxLt \in Nat
ASSUME SeqAssumption     == MaxSeq \in Nat
ASSUME NeverAssumption   == Never \notin 0 .. MaxLt

Times  == 0 .. MaxLt
States == [seq : 0 .. MaxSeq, a : 0 .. MaxSum, b : 0 .. MaxSum]

VARIABLES
    now,       \* the logical time callers pass in
    signed,    \* the states both parties have signed
    latest,    \* arbiter.latest_state
    start,     \* arbiter.challenge_start_lt
    settled,   \* arbiter.is_settled
    mirror,    \* the daemon's latest_by_channel entry
    watcher,   \* the arbiter fields of the daemon's clone in the watcher
    highest    \* history: the highest sequence the arbiter has accepted

arbiter     == <<latest, start, settled>>
channelVars == <<now, signed, latest, start, settled, mirror, watcher, highest>>

Opening == [seq |-> 0, a |-> Deposit, b |-> 0]

ChannelInit ==
    /\ now = 0
    /\ signed = {}
    /\ latest = Opening /\ start = Never /\ settled = FALSE
    /\ mirror = Opening
    /\ watcher = Never
    /\ highest = 0

\* The parties sign one state per sequence number, in order; nothing makes
\* them keep to the deposit.
Sign(st) ==
    /\ \A old \in signed : old.seq < st.seq
    /\ st.seq > 0
    /\ signed' = signed \cup {st}
    /\ UNCHANGED <<now, arbiter, mirror, watcher, highest>>

Tick ==
    /\ now < MaxLt
    /\ now' = now + 1
    /\ UNCHANGED <<signed, arbiter, mirror, watcher, highest>>

-----------------------------------------------------------------------------
WithinDeposit(st) == st.a + st.b <= Deposit

\* The state goes into the arbiter and into the daemon's map.
Accept(st) ==
    /\ latest' = st
    /\ mirror' = st
    /\ highest' = IF st.seq > highest THEN st.seq ELSE highest
    /\ UNCHANGED <<now, signed, watcher>>

\* (Slips the runs must notice: the map is not updated; the sum is not
\* checked; the sequence is not checked; the deadline is stored, not the start.)
ExchangeSignedStateUnmirrored(st) ==
    /\ st \in signed /\ st.seq > mirror.seq /\ WithinDeposit(st)
    /\ latest' = st
    /\ highest' = IF st.seq > highest THEN st.seq ELSE highest
    /\ UNCHANGED <<now, signed, watcher, start, settled, mirror>>

CooperativeSettleUnbounded(st) ==
    /\ st \in signed
    /\ settled' = TRUE
    /\ Accept(st)
    /\ UNCHANGED start

SubmitDisputeUnordered(st) ==
    /\ st \in signed /\ WithinDeposit(st)
    /\ start' = now
    /\ Accept(st)
    /\ UNCHANGED settled

SubmitDisputeDeadline(st) ==
    /\ st \in signed /\ st.seq > latest.seq /\ WithinDeposit(st)
    /\ start' = now + Window
    /\ Accept(st)
    /\ UNCHANGED settled

\* exchange_signed_state, receive_signed_state_and_track.
ExchangeSignedState(st) ==
    /\ st \in signed
    /\ st.seq > mirror.seq
    /\ WithinDeposit(st)
    /\ Accept(st)
    /\ UNCHANGED <<start, settled>>

\* exchange_cooperative_settlement, cooperative_settle: any state both signed.
CooperativeSettle(st) ==
    /\ st \in signed
    /\ WithinDeposit(st)
    /\ settled' = TRUE
    /\ Accept(st)
    /\ UNCHANGED start

\* submit_uncooperative_dispute, submit_uncooperative_state: every accepted
\* state restarts the challenge window, settled or not.
SubmitDispute(st) ==
    /\ st \in signed
    /\ st.seq > latest.seq
    /\ WithinDeposit(st)
    /\ start' = now
    /\ Accept(st)
    /\ UNCHANGED settled

\* start_lt.saturating_add(window).
Due(t) == IF t + Window > MaxLt THEN MaxLt ELSE t + Window

\* finalize_dispute_if_due, finalize_uncooperative_settlement.
FinalizeDispute ==
    /\ start # Never
    /\ now >= Due(start)
    /\ settled' = TRUE
    /\ UNCHANGED <<now, signed, latest, start, mirror, watcher, highest>>

\* is_stale_submission: "stale" is a newer state with other balances.
IsStaleSubmission(st) ==
    st.seq > mirror.seq /\ (st.a # mirror.a \/ st.b # mirror.b)

\* run_flow, on a state it takes for stale: disputed, then finalized at once as
\* of the end of the window.  A due time past the largest one panics, or wraps
\* and is refused as too early: the dispute is all that is left.
RunFlowDispute(st) ==
    /\ st \in signed
    /\ IsStaleSubmission(st)
    /\ st.seq > latest.seq
    /\ WithinDeposit(st)
    /\ start' = now
    /\ Accept(st)
    /\ settled' = (settled \/ now + Window <= MaxLt)

\* run_flow, on any other state: exchange_signed_state.
RunFlowExchange(st) ==
    /\ ~IsStaleSubmission(st)
    /\ ExchangeSignedState(st)

\* spawn_background_challenge_watcher: the watcher gets a clone of the daemon.
SpawnWatcher ==
    /\ watcher' = [start |-> start, settled |-> settled]
    /\ UNCHANGED <<now, signed, arbiter, mirror, highest>>

\* A tick of the watcher finalizes the clone, and only the clone.
WatcherTick ==
    /\ watcher # Never /\ watcher.start # Never
    /\ now >= Due(watcher.start)
    /\ watcher' = [watcher EXCEPT !.settled = TRUE]
    /\ UNCHANGED <<now, signed, arbiter, mirror, highest>>

ChannelNext ==
    \/ Tick
    \/ \E st \in States : Sign(st)
    \/ \E st \in States :
          \/ ExchangeSignedState(st)
          \/ CooperativeSettle(st)
          \/ SubmitDispute(st)
          \/ RunFlowDispute(st)
          \/ RunFlowExchange(st)
    \/ FinalizeDispute
    \/ SpawnWatcher
    \/ WatcherTick

ChannelSpec == ChannelInit /\ [][ChannelNext]_channelVars

-----------------------------------------------------------------------------
ChannelTypeOK ==
    /\ now \in Times
    /\ signed \subseteq States
    /\ latest \in States /\ mirror \in States
    /\ start \in Times \cup {Never}
    /\ settled \in BOOLEAN
    /\ watcher \in [start : Times \cup {Never}, settled : BOOLEAN] \cup {Never}
    /\ highest \in 0 .. MaxSeq

(* Whatever path a state took into the arbiter, both parties signed it (or it
   is the opening state) and its balances are covered by the deposit: nobody
   can be paid out what was not locked. *)
AllocationIsCovered ==
    /\ latest \in signed \cup {Opening}
    /\ latest.a + latest.b <= Deposit

(* The daemon and the arbiter never disagree on the latest state: the sequence
   exchange_signed_state checks (the map's) is the one a dispute is checked
   against (the arbiter's). *)
MirrorFollowsArbiter == mirror = latest

(* Until it settles, a channel is never rolled back: the state on file has the
   highest sequence the arbiter was ever given, whichever of the exchange and
   dispute entry points the states came through and however often an old
   envelope is sent again. *)
NoRollbackBeforeSettlement == ~settled => latest.seq = highest

(* "Settlement accepts only a higher sequence state with both signatures"
   (payment-channels.md section 3): a settled channel pays out the state with
   the highest sequence the arbiter has accepted. *)
SettledStateIsHighest == settled => latest.seq = highest

ChannelInv ==
    /\ ChannelTypeOK
    /\ AllocationIsCovered
    /\ MirrorFollowsArbiter
    /\ NoRollbackBeforeSettlement
=============================================================================
