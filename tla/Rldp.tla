-------------------------------- MODULE Rldp --------------------------------
(***************************************************************************)
(* One RLDP transfer (rldp.rs): RldpSender driven by send_rldp, RldpReceiver *)
(* driven by recv_rldp, over a link that loses, duplicates and reorders.   *)
(*                                                                         *)
(* The link is the set of everything put on it: any of it may arrive, any  *)
(* number of times, at any later time, or never.  It starts with what an   *)
(* earlier transfer between the two nodes left in flight.  ADNL protects   *)
(* the contents of a datagram, so a symbol is its number and a payload the *)
(* set of its symbols; "id" stands for the transfer's identifier, digest   *)
(* and dimensions, which a receiver compares together.                     *)
(*                                                                         *)
(* "adnl" is the driver in rldp.rs, where ACK frames cross the wire;       *)
(* "direct" is the caller of tests/rldp_lossy.rs, which hands them over.   *)
(***************************************************************************)
EXTENDS Integers, FiniteSets

CONSTANTS
    Count,            \* chunk_count of this transfer
    Redundancy,       \* config.redundancy
    PacketsPerRound,  \* config.packets_per_round
    MaxRounds,        \* config.max_rounds
    OldChunks,        \* symbols of the earlier transfer still in flight
    MaxAcks           \* bound on ACKs, far below the u32 at which they wrap

ASSUME RldpConfigAssumption ==
    /\ Count \in Nat \ {0} /\ Redundancy \in Nat \ {0}
    /\ PacketsPerRound \in Nat \ {0} /\ MaxRounds \in Nat
ASSUME RldpBoundAssumption == MaxAcks \in Nat
ASSUME OldChunksAssumption == OldChunks \subseteq 0 .. Count - 1

Chunks  == 0 .. Count - 1
Transfers     == {"this", "old"}
Frames  == [id : Transfers, seq : Chunks]
Acks    == [id : Transfers, seq : 0 .. MaxAcks, mask : SUBSET Chunks]
Drivers == {"direct", "adnl"}

VARIABLES
    driver,      \* who drives the two ends
    sender,      \* RldpSender, with the state and round of send_rldp
    receiver,    \* RldpReceiver, with the state of recv_rldp
    session,     \* the receiver's ADNL node has the channel of the sender
    dataLink,    \* data frames on the link
    ackLink,     \* ACK frames on the link
    lastSent,    \* history: the round each symbol was last sent in
    fullAckRead  \* history: the sender has read an ACK for every symbol

rldpVars == <<driver, sender, receiver, session, dataLink, ackLink, lastSent, fullAckRead>>

RldpInit ==
    /\ driver \in Drivers
    /\ sender = [status |-> "sending", round |-> 0, cursor |-> 0,
                 acked |-> {}, lastAck |-> 0]
    /\ receiver = [status |-> "listening", id |-> "old", chunks |-> {}, ackSeq |-> 0]
    /\ session \in BOOLEAN
    /\ dataLink = {[id |-> "old", seq |-> c] : c \in OldChunks}
    /\ ackLink = {[id |-> "old", seq |-> MaxAcks, mask |-> OldChunks]}
    /\ lastSent = [c \in Chunks |-> 0]
    /\ fullAckRead = FALSE

-----------------------------------------------------------------------------
(* The sender *)

\* How many symbols a round has packets for; the last may get fewer copies.
SymbolsPerRound == (PacketsPerRound + Redundancy - 1) \div Redundancy

Symbol(cursor, i) == (cursor + i) % Count

\* The unacknowledged symbols among the first k the loop inspects.
Unacked(s, k) == {c \in Chunks : c \notin s.acked /\ \E i \in 0 .. k - 1 : c = Symbol(s.cursor, i)}

\* The loop of next_round ends with its k-th symbol.
RoundEnds(s, k) == k = Count \/ Cardinality(Unacked(s, k)) >= SymbolsPerRound
Inspected(s) ==
    CHOOSE k \in 0 .. Count : RoundEnds(s, k) /\ \A j \in 0 .. k - 1 : ~RoundEnds(s, j)

IsComplete(s) == s.acked = Chunks

\* (Slips: the cursor stays where it is; the cursor does not wrap.)
NextCursorStuck(s) == s.cursor
NextCursorUnwrapped(s) == s.cursor + Inspected(s)
NextCursor(s) == Symbol(s.cursor, Inspected(s))

\* One iteration of send_rldp up to the wait for ACKs.
SendRound ==
    /\ sender.status = "sending" /\ sender.round < MaxRounds
    /\ LET out == Unacked(sender, Inspected(sender)) IN
       /\ dataLink' = dataLink \cup {[id |-> "this", seq |-> c] : c \in out}
       /\ lastSent' = [c \in Chunks |-> IF c \in out THEN sender.round + 1 ELSE lastSent[c]]
    /\ sender' = [sender EXCEPT !.cursor = NextCursor(sender),
                                !.round = @ + 1,
                                !.status = IF IsComplete(sender) THEN "ok" ELSE "waiting"]
    /\ UNCHANGED <<driver, receiver, session, ackLink, fullAckRead>>

\* send_datagram fails after some packets of the round: the transfer ends.
SendFails ==
    /\ driver = "adnl"
    /\ sender.status = "sending" /\ sender.round < MaxRounds
    /\ \E k \in 0 .. Inspected(sender) - 1 :
          dataLink' = dataLink \cup {[id |-> "this", seq |-> c] : c \in Unacked(sender, k)}
    /\ sender' = [sender EXCEPT !.status = "error"]
    /\ UNCHANGED <<driver, receiver, session, ackLink, lastSent, fullAckRead>>

\* The wait for the next datagram times out, or a datagram is refused.
WaitEnds ==
    /\ sender.status = "waiting"
    /\ sender' = [sender EXCEPT !.status = "sending"]
    /\ UNCHANGED <<driver, receiver, session, dataLink, ackLink, lastSent, fullAckRead>>

\* (Slip: the sender goes on until everything is acknowledged.)
RoundsExhaustedNever == FALSE /\ UNCHANGED rldpVars
RoundsExhausted ==
    /\ sender.status = "sending" /\ sender.round = MaxRounds
    /\ sender' = [sender EXCEPT !.status = "timeout"]
    /\ UNCHANGED <<driver, receiver, session, dataLink, ackLink, lastSent, fullAckRead>>

MaskLen == (Count + 7) \div 8

\* RldpAckFrame::encode writes tag, id, sequence, mask length and mask;
\* decode expects a header two bytes longer than the one written.
ACK_HEADER_LEN == 4 + 32 + 4 + 2 + 2
AckWireLen     == 4 + 32 + 4 + 2 + MaskLen
AckDecodes     == AckWireLen >= ACK_HEADER_LEN /\ AckWireLen = ACK_HEADER_LEN + MaskLen

\* (Slip: ACKs of another transfer are counted.)
ApplyAckAnyTransfer(s, ack) ==
    IF ack.seq <= s.lastAck THEN s
    ELSE LET acked == s.acked \cup ack.mask IN
         [s EXCEPT !.lastAck = ack.seq, !.acked = acked,
                   !.status = IF acked = Chunks THEN "ok" ELSE @]

\* apply_ack and the is_complete test after it.  The masks of this transfer's
\* ACKs have the length apply_ack asks for.
ApplyAck(s, ack) ==
    IF ack.id # "this" \/ ack.seq <= s.lastAck THEN s
    ELSE LET acked == s.acked \cup ack.mask IN
         [s EXCEPT !.lastAck = ack.seq, !.acked = acked,
                   !.status = IF acked = Chunks THEN "ok" ELSE @]

ReadAck(ack) ==
    /\ sender.status = "waiting"
    /\ ack \in ackLink
    /\ sender' = IF driver = "direct" \/ AckDecodes THEN ApplyAck(sender, ack) ELSE sender
    /\ fullAckRead' = (fullAckRead \/ (ack.id = "this" /\ ack.mask = Chunks))
    /\ UNCHANGED <<driver, receiver, session, dataLink, ackLink, lastSent>>

-----------------------------------------------------------------------------
(* The receiver *)

\* The caller opens the channel to the sender before or while it receives.
Connect ==
    /\ driver = "adnl" /\ ~session
    /\ session' = TRUE
    /\ UNCHANGED <<driver, sender, receiver, dataLink, ackLink, lastSent, fullAckRead>>

Receiving == receiver.status \in {"listening", "receiving"}
Reaches   == driver = "direct" \/ session

\* The first frame decides which transfer this is (from_frame).
Ingested(f) ==
    LET r == IF receiver.status = "listening"
             THEN [receiver EXCEPT !.id = f.id, !.chunks = {f.seq}]
             ELSE [receiver EXCEPT !.chunks = @ \cup {f.seq}]
    IN  [r EXCEPT !.ackSeq = @ + 1,
                  !.status = IF r.chunks = Chunks THEN "delivered" ELSE "receiving"]

Belongs(f) == receiver.status = "receiving" => f.id = receiver.id

\* A frame is taken in, acknowledged, and the payload returned once whole.
ReceiveFrame(f) ==
    /\ Receiving /\ Reaches
    /\ f \in dataLink /\ Belongs(f)
    /\ receiver.ackSeq < MaxAcks
    /\ LET r == Ingested(f) IN
       /\ receiver' = r
       /\ ackLink' = ackLink \cup {[id |-> r.id, seq |-> r.ackSeq, mask |-> r.chunks]}
    /\ session' = TRUE
    /\ UNCHANGED <<driver, sender, dataLink, lastSent, fullAckRead>>

\* The ACK cannot be sent: recv_rldp ends, even with the payload whole.
AckSendFails(f) ==
    /\ driver = "adnl" /\ Receiving /\ session
    /\ f \in dataLink /\ Belongs(f)
    /\ receiver.ackSeq < MaxAcks
    /\ receiver' = [Ingested(f) EXCEPT !.status = "error"]
    /\ UNCHANGED <<driver, sender, session, dataLink, ackLink, lastSent, fullAckRead>>

\* A frame of another transfer ends the receiver (MalformedRldpFrame).
ForeignFrame(f) ==
    /\ Receiving /\ Reaches
    /\ f \in dataLink /\ ~Belongs(f)
    /\ receiver' = [receiver EXCEPT !.status = "error"]
    /\ UNCHANGED <<driver, sender, session, dataLink, ackLink, lastSent, fullAckRead>>

\* recv_datagram fails - a datagram of a channel without a session, or a
\* truncated one - or the first datagram is no data frame.
RecvFails ==
    /\ driver = "adnl" /\ Receiving
    /\ receiver' = [receiver EXCEPT !.status = "error"]
    /\ UNCHANGED <<driver, sender, session, dataLink, ackLink, lastSent, fullAckRead>>

RldpNext ==
    \/ SendRound \/ SendFails \/ WaitEnds \/ RoundsExhausted
    \/ \E ack \in ackLink : ReadAck(ack)
    \/ Connect
    \/ \E f \in dataLink : ReceiveFrame(f) \/ AckSendFails(f) \/ ForeignFrame(f)
    \/ RecvFails

RldpSpec == RldpInit /\ [][RldpNext]_rldpVars

-----------------------------------------------------------------------------
RldpTypeOK ==
    /\ driver \in Drivers
    /\ sender \in [status : {"sending", "waiting", "ok", "timeout", "error"},
                   round : 0 .. MaxRounds, cursor : Chunks,
                   acked : SUBSET Chunks, lastAck : 0 .. MaxAcks]
    /\ receiver \in [status : {"listening", "receiving", "delivered", "error"},
                     id : Transfers, chunks : SUBSET Chunks, ackSeq : 0 .. MaxAcks]
    /\ session \in BOOLEAN
    /\ dataLink \subseteq Frames
    /\ ackLink \subseteq Acks
    /\ lastSent \in [Chunks -> 0 .. MaxRounds]
    /\ fullAckRead \in BOOLEAN

(* When send_rldp reports success, recv_rldp has returned the whole payload of
   this transfer and not of an earlier one.  The receiver calls recv_rldp once:
   a caller that starts another receiver for what is still on the link is not
   modelled. *)
SuccessMeansDelivered ==
    sender.status = "ok" =>
        receiver.status = "delivered" /\ receiver.id = "this" /\ receiver.chunks = Chunks

(* The cursor of next_round rotates fairly: a symbol that is not acknowledged
   never goes unsent for so many rounds that all symbols would have fitted into
   them.  (It also says which transfers max_rounds is too small for: a symbol
   may be unsent as long as rounds times symbols per round is below Count.) *)
NoSymbolStarves ==
    \A c \in Chunks \ sender.acked :
        (sender.round - lastSent[c]) * SymbolsPerRound < Count

(* "Upon successful reconstruction, the recipient sends an explicit RLDP ACK
   frame back to the sender, instructing it to cease emitting repair chunks"
   (networking-adnl.md section 3.4): a sender that has read such an ACK is done. *)
CeasesOnFullAck == fullAckRead => sender.status = "ok"
=============================================================================
